------------------------- MODULE LimitExpandProofs -------------------------
(***************************************************************************)
(* Proofs about LimitExpand, for every number of requests, owner presses,  *)
(* saves, faults and restarts, and every value of the windows:             *)
(*   TypeCorrect      the type invariant                                   *)
(*   OwnerOnly        with auto-widen never on, every limit in force was   *)
(*                    chosen by the owner                                  *)
(*   NoSilentUnpause  with auto-widen never on, silence lifts no pause     *)
(*   NoIsNo           no process is about to write what the owner rejected *)
(*   Refines          the flow keeps the promise of LimitPolicy            *)
(*   OneAtATime       without faults, at most one question stays open      *)
(*   StepByStep       a limit rises by one Step per question at most       *)
(*                                                                         *)
(* Sound says what each process knows of the limits it is about to write,  *)
(* Filed what is still true of the row it read long before, Young orders   *)
(* the ages of the rows, Attended finds the process that will settle the   *)
(* older of two open questions, Modest follows a quoted limit from the     *)
(* snapshot to the row that is written.                                    *)
(***************************************************************************)
EXTENDS LimitExpand, FiniteSetTheorems, WellFoundedInduction, TLAPS

(***************************************************************************)
(* The newest row of a set of ids is one of them                           *)
(***************************************************************************)
LEMMA HasLeast ==
    ASSUME NEW T \in SUBSET Nat, T # {}
    PROVE  \E x \in T : \A y \in T : x <= y
<1> DEFINE R == OpToRel(<, Nat)
<1>1. IsWellFoundedOn(R, Nat)
  BY NatLessThanWellFounded
<1>2. \E x \in T : \A y \in T : ~(<<y, x>> \in R)
  <2> HIDE DEF R
  <2> QED BY <1>1, WFMin
<1>3. \A x, y \in Nat : ~(<<y, x>> \in R) => x <= y
  BY DEF OpToRel
<1> QED BY <1>2, <1>3

LEMMA NewestIn ==
    ASSUME NEW S \in SUBSET Ids
    PROVE  /\ Newest(S) \in S \cup {NoRow}
           /\ S # {} => Newest(S) \in S /\ \A i \in S : i <= Newest(S)
<1> DEFINE T == {MaxRows - i : i \in S}
<1>1. CASE S = {} BY <1>1 DEF Newest
<1>2. CASE S # {}
  <2>1. T \in SUBSET Nat /\ T # {}
    <3>1. \A i \in S : MaxRows - i \in Nat
      <4>1. TAKE i \in S
      <4>2. i \in 1..MaxRows BY DEF Ids
      <4> QED BY <4>2, LimitExpandAssumption
    <3> QED BY <3>1, <1>2
  <2>2. PICK x \in T : \A y \in T : x <= y
    <3> HIDE DEF T
    <3> QED BY <2>1, HasLeast
  <2>3. PICK i \in S : x = MaxRows - i OBVIOUS
  <2>4. \A j \in S : j <= i
    <3>1. TAKE j \in S
    <3>2. MaxRows - j \in T /\ i \in 1..MaxRows /\ j \in 1..MaxRows
      BY DEF Ids
    <3>3. MaxRows - i <= MaxRows - j BY <2>2, <2>3, <3>2
    <3> QED BY <3>2, <3>3, LimitExpandAssumption
  <2> QED BY <2>4, <1>2 DEF Newest
<1> QED BY <1>1, <1>2

LEMMA RowIds == /\ \A i \in Ids : i \in 0..MaxRows /\ i # NoRow
                /\ NoRow \in 0..MaxRows /\ NoRow \notin Ids
  BY LimitExpandAssumption DEF Ids, NoRow

LEMMA RowReads ==
    /\ Newest(Pending) \in Ids \cup {NoRow}
    /\ Newest(Inserted) \in Ids \cup {NoRow}
    /\ PendingRequest \in Ids \cup {NoRow}
    /\ StalePending \in Ids \cup {NoRow}
<1>1. Pending \in SUBSET Ids /\ Inserted \in SUBSET Ids
  BY DEF Pending, Inserted
<1>2. /\ Newest(Pending) \in Ids \cup {NoRow}
      /\ Newest(Inserted) \in Ids \cup {NoRow}
  BY <1>1, NewestIn
<1> QED BY <1>2 DEF PendingRequest, StalePending

(***************************************************************************)
(* Jobs                                                                    *)
(***************************************************************************)
LEMMA DefaultType == DefaultSettings \in SettingsRow
  BY LimitExpandAssumption DEF DefaultSettings, SettingsRow

LEMMA IdleType == Idle \in Job
  BY DefaultType, RowIds
  DEF Idle, Job, Holding, Calls, Labels, Outcomes, Statuses, Deciders, Silent,
      Decisions

LEMMA PcType == ASSUME NEW j \in Job, NEW l \in Labels,
                       l \in Holding => j.row \in Ids
                PROVE  [j EXCEPT !.pc = l] \in Job
  BY DEF Job

LEMMA RuleType ==
    ASSUME NEW j \in Job, NEW l \in Labels, NEW s \in Statuses,
           NEW b \in Deciders, NEW o \in Outcomes,
           l \in Holding => j.row \in Ids
    PROVE  Rule(j, l, s, b, o) \in Job
  BY DEF Job, Rule

LEMMA BecomeType ==
    ASSUME job \in [Proc -> Job], NEW p \in Proc, NEW j \in Job, Become(p, j)
    PROVE  job' \in [Proc -> Job]
  BY DEF Become

LEMMA GotoType ==
    ASSUME job \in [Proc -> Job], NEW p \in Proc, NEW l \in Labels, Goto(p, l),
           l \in Holding => job[p].row \in Ids
    PROVE  job' \in [Proc -> Job]
  BY PcType, BecomeType DEF Goto

LEMMA FinishType ==
    ASSUME job \in [Proc -> Job], NEW p \in Proc, Finish(p)
    PROVE  job' \in [Proc -> Job]
  BY IdleType, BecomeType DEF Finish

LEMMA ReturnType ==
    ASSUME job \in [Proc -> Job], NEW p \in Proc, NEW o \in Outcomes,
           Return(p, o)
    PROVE  job' \in [Proc -> Job]
<1>1. job[p] \in Job /\ Calls \subseteq Labels \ Holding
  BY DEF Calls, Labels, Holding
<1>2. [job[p] EXCEPT !.pc = job[p].back, !.outcome = o] \in Job
  BY <1>1 DEF Job
<1> QED BY <1>2, FinishType, BecomeType DEF Return

LEMMA MergedType ==
    ASSUME NEW i \in Ids, NEW s \in SettingsRow, rows \in [Ids -> Request]
    PROVE  Merged(i, s) \in SettingsRow
  BY DEF Merged, SettingsRow, Request

LEMMA FaultType ==
    ASSUME faults \in 0..MaxFaults, NEW k, Fault(k) \/ UNCHANGED faults
    PROVE  faults' \in 0..MaxFaults
  BY LimitExpandAssumption DEF Fault

(***************************************************************************)
(* Type correctness                                                        *)
(***************************************************************************)
LEMMA InitType == Init => TypeOK
<1> SUFFICES ASSUME Init PROVE TypeOK
  OBVIOUS
<1>1. settings \in SettingsRow /\ settings.widen \in BOOLEAN
  <2>1. PICK w \in InitWiden, a \in InitApply :
           settings = [limit |-> [f \in Fields |-> InitLimit],
                       widen |-> w, apply |-> a]
    BY DEF Init
  <2>2. w \in BOOLEAN /\ a \in BOOLEAN
    BY LimitExpandAssumption
  <2>3. [f \in Fields |-> InitLimit] \in [Fields -> Nat]
    BY LimitExpandAssumption
  <2> QED BY <2>1, <2>2, <2>3 DEF SettingsRow
<1>2. rows \in [Ids -> Request]
  <2>1. 0 \in 0..Horizon /\ [f \in Fields |-> 0] \in [Fields -> Nat]
    BY LimitExpandAssumption
  <2>2. "absent" \in Statuses /\ "" \in Deciders
    BY DEF Statuses, Deciders
  <2> QED BY <2>1, <2>2 DEF Init, Request
<1>3. job \in [Proc -> Job]
  BY IdleType DEF Init
<1>4. metric \in [Fields -> Nat] /\ granted \in [Fields -> SUBSET Nat]
  <2>1. InitLimit \in Nat /\ {InitLimit} \in SUBSET Nat
    BY LimitExpandAssumption
  <2> QED BY <2>1 DEF Init
<1>5. /\ stamped \in 0..MaxRows /\ rescued \in 0..Horizon
      /\ presses \in 0..MaxPresses /\ saves \in 0..MaxSaves
      /\ faults \in 0..MaxFaults /\ restarts \in 0..MaxRestarts
  <2>1. /\ 0 \in 0..MaxRows /\ Horizon \in 0..Horizon
        /\ 0 \in 0..MaxPresses /\ 0 \in 0..MaxSaves
        /\ 0 \in 0..MaxFaults /\ 0 \in 0..MaxRestarts
    BY LimitExpandAssumption
  <2> QED BY <2>1 DEF Init
<1> QED
  BY <1>1, <1>2, <1>3, <1>4, <1>5 DEF Init, TypeOK

USE DEF Proc

LEMMA ReadType ==
    ASSUME TypeOK, NEW p \in Proc, NEW s \in SettingsSeen(p),
           LenientRead(s) \/ SettingsFor(p, s) \/ UNCHANGED <<faults, misread>>
    PROVE  s \in SettingsRow /\ faults' \in 0..MaxFaults /\ misread' \in BOOLEAN
<1>1. s \in SettingsRow
  BY DefaultType DEF TypeOK, SettingsSeen, Job
<1>2. \/ UNCHANGED <<faults, misread>>
      \/ Fault("settings_read") /\ misread' = TRUE
  BY DEF LenientRead, SettingsFor
<1> QED
  BY <1>1, <1>2, FaultType DEF TypeOK

LEMMA FindType == ASSUME TypeOK, NEW p \in Proc, Find(p) PROVE TypeOK'
<1>1. CASE StalePending = NoRow /\ Return(p, "none")
           /\ UNCHANGED <<faults, misread>>
  <2>1. job' \in [Proc -> Job]
    BY <1>1, ReturnType DEF TypeOK, Outcomes
  <2> QED
    BY <1>1, <2>1 DEF TypeOK, Find, tables, world, usage
<1>2. ASSUME StalePending # NoRow, NEW s \in SettingsSeen(p),
             SettingsFor(p, s),
             Become(p, Planned([job[p] EXCEPT !.row = StalePending,
                                              !.snap = s], s))
      PROVE  TypeOK'
  <2> DEFINE j == [job[p] EXCEPT !.row = StalePending, !.snap = s]
  <2>1. /\ s \in SettingsRow /\ faults' \in 0..MaxFaults
        /\ misread' \in BOOLEAN
    BY <1>2, ReadType
  <2>2. j \in Job /\ j.row \in Ids
    <3>1. job[p] \in Job /\ StalePending \in 0..MaxRows /\ StalePending \in Ids
      BY <1>2, RowReads, RowIds DEF TypeOK
    <3> QED BY <3>1, <2>1 DEF Job
  <2>3. Planned(j, s) \in Job
    <3> HIDE DEF j
    <3>1. /\ Rule(j, "mark", "expired", "auto:kept", "kept") \in Job
          /\ Rule(j, "weigh", "approved", "auto:expired", "applied") \in Job
          /\ Rule(j, "quota", "approved", "auto:once", "applied") \in Job
      BY <2>2, RuleType DEF Labels, Statuses, Deciders, Silent, Outcomes
    <3>2. Plan(s) \in {"kept", "apply", "once"}
      BY DEF Plan
    <3> QED BY <3>1, <3>2 DEF Planned
  <2>4. job' \in [Proc -> Job]
    BY <1>2, <2>3, BecomeType DEF TypeOK
  <2> QED
    BY <2>1, <2>4 DEF TypeOK, Find, tables, world, usage
<1> QED BY <1>1, <1>2 DEF Find

LEMMA LocalType ==
    ASSUME TypeOK, job' \in [Proc -> Job],
           UNCHANGED <<tables, world, faults, history>>
    PROVE  TypeOK'
  BY DEF TypeOK, tables, world, usage, history

LEMMA InHand ==
    ASSUME TypeOK, NEW p \in Proc, job[p].pc \in Holding
    PROVE  job[p] \in Job /\ job[p].row \in Ids
  BY DEF TypeOK, Job

LEMMA CheckQuotaType ==
    ASSUME TypeOK, NEW p \in Proc, CheckQuota(p) PROVE TypeOK'
<1>0. job[p] \in Job /\ job[p].row \in Ids
  BY InHand DEF CheckQuota, At, Holding
<1>1. Rule(job[p], "mark", "expired", "auto:capped", "capped") \in Job
  BY <1>0, RuleType DEF TypeOK, Labels, Statuses, Deciders, Outcomes
<1>2. job' \in [Proc -> Job]
  BY <1>0, <1>1, BecomeType, GotoType DEF CheckQuota, TypeOK, Labels
<1> QED BY <1>2, LocalType DEF CheckQuota

LEMMA WeighType == ASSUME TypeOK, NEW p \in Proc, Weigh(p) PROVE TypeOK'
<1>0. job[p] \in Job /\ job[p].row \in Ids
  BY InHand DEF Weigh, At, Holding
<1>1. Rule(job[p], "mark", "expired", "auto:no-breach", "no-breach") \in Job
  BY <1>0, RuleType DEF TypeOK, Labels, Statuses, Deciders, Outcomes
<1>2. job' \in [Proc -> Job]
  BY <1>0, <1>1, BecomeType, GotoType DEF Weigh, TypeOK, Labels
<1> QED BY <1>2, LocalType DEF Weigh

LEMMA PersistType == ASSUME TypeOK, NEW p \in Proc, Persist(p) PROVE TypeOK'
<1> DEFINE i == job[p].row
           s == job[p].snap
<1>1. job[p] \in Job /\ s \in SettingsRow /\ i \in Ids
  BY InHand DEF Persist, At, Holding, Job
<1>2. /\ settings' \in {settings, Merged(i, s)}
      /\ faults' \in 0..MaxFaults
      /\ rescued' \in 0..Horizon
  BY FaultType, LimitExpandAssumption DEF Persist, TypeOK
<1>3. settings' \in SettingsRow
  BY <1>1, <1>2, MergedType DEF TypeOK
<1>4. granted' \in [Fields -> SUBSET Nat]
  <2>1. rows[i].new \in [Fields -> Nat]
    BY <1>1 DEF TypeOK, Request
  <2> QED BY <2>1 DEF Persist, TypeOK
<1>5. job' \in [Proc -> Job]
  <2>1. "failed" \in Outcomes /\ "skipped" \in Outcomes /\ "mark" \in Labels
        /\ "mark" \notin Holding
    BY DEF Labels, Outcomes, Holding
  <2>2. [job[p] EXCEPT !.pc = "mark", !.outcome = "skipped"] \in Job
    BY <1>1, <2>1 DEF Job
  <2> QED BY <2>1, <2>2, BecomeType, GotoType, ReturnType DEF Persist, TypeOK
<1> QED BY <1>2, <1>3, <1>4, <1>5 DEF Persist, TypeOK, world, usage

LEMMA RowsType ==
    ASSUME TypeOK, NEW i, NEW s \in Statuses, NEW b \in Deciders,
           NEW n \in [Fields -> Nat]
    PROVE  /\ [rows EXCEPT ![i].status = s, ![i].by = b] \in [Ids -> Request]
           /\ [rows EXCEPT ![i].status = s, ![i].new = n] \in [Ids -> Request]
<1>1. CASE i \in Ids
  <2>1. /\ [rows[i] EXCEPT !.status = s, !.by = b] \in Request
        /\ [rows[i] EXCEPT !.status = s, !.new = n] \in Request
    BY <1>1 DEF TypeOK, Request
  <2> QED BY <1>1, <2>1 DEF TypeOK
<1>2. CASE i \notin Ids
  BY <1>2 DEF TypeOK
<1> QED BY <1>1, <1>2

LEMMA MarkType == ASSUME TypeOK, NEW p \in Proc, Mark(p) PROVE TypeOK'
<1>1. job[p].status \in Statuses /\ job[p].by \in Deciders
  BY DEF TypeOK, Job
<1>2. rows' \in [Ids -> Request] /\ faults' \in 0..MaxFaults
  <2>1. [rows EXCEPT ![job[p].row].status = job[p].status,
                     ![job[p].row].by = job[p].by] \in [Ids -> Request]
    <3>1. [f \in Fields |-> 0] \in [Fields -> Nat]
      OBVIOUS
    <3> QED BY <1>1, <3>1, RowsType
  <2>2. faults' \in 0..MaxFaults
    BY FaultType DEF Mark, TypeOK
  <2> QED BY <2>1, <2>2 DEF Mark, TypeOK
<1>3. job' \in [Proc -> Job]
  BY GotoType DEF Mark, TypeOK, Labels, Holding
<1> QED BY <1>2, <1>3 DEF Mark, TypeOK, world, usage, history

LEMMA ScanType == ASSUME TypeOK, NEW p \in Proc, Scan(p) PROVE TypeOK'
<1>1. job[p] \in Job /\ Siblings(job[p].row) \in SUBSET Ids
  BY DEF TypeOK, Siblings, Pending
<1>2. [job[p] EXCEPT !.pc = "sweep", !.others = Siblings(job[p].row)] \in Job
  BY <1>1 DEF Job, Labels, Holding
<1>3. job' \in [Proc -> Job]
  BY <1>2, BecomeType DEF Scan, TypeOK
<1> QED BY <1>3, LocalType DEF Scan

LEMMA SweepType == ASSUME TypeOK, NEW p \in Proc, Sweep(p) PROVE TypeOK'
<1>1. rows' \in [Ids -> Request] /\ faults' \in 0..MaxFaults
  <2>1. "superseded" \in Statuses /\ "auto:superseded" \in Deciders
    BY DEF Statuses, Deciders
  <2>2. \A i : [rows EXCEPT ![i].status = "superseded",
                          ![i].by = "auto:superseded"] \in [Ids -> Request]
    <3>1. [f \in Fields |-> 0] \in [Fields -> Nat]
      OBVIOUS
    <3> QED BY <2>1, <3>1, RowsType
  <2>3. faults' \in 0..MaxFaults
    BY FaultType DEF Sweep, TypeOK
  <2> QED BY <2>2, <2>3 DEF Sweep, TypeOK
<1>2. job' \in [Proc -> Job]
  <2>1. job[p] \in Job /\ job[p].pc = "sweep"
    BY DEF Sweep, At, TypeOK
  <2>2. \A i : [job[p] EXCEPT !.others = @ \ {i}] \in Job
    BY <2>1 DEF Job, Holding
  <2> QED BY <2>2, BecomeType DEF Sweep, TypeOK
<1> QED BY <1>1, <1>2 DEF Sweep, TypeOK, world, usage, history

LEMMA SweptType == ASSUME TypeOK, NEW p \in Proc, Swept(p) PROVE TypeOK'
<1>1. job[p].outcome \in Outcomes
  BY DEF TypeOK, Job
<1>2. job' \in [Proc -> Job]
  BY <1>1, GotoType, ReturnType DEF Swept, TypeOK, Labels, Holding
<1> QED BY <1>2, LocalType DEF Swept

LEMMA ResumeType == ASSUME TypeOK, NEW p \in Proc, Resume(p) PROVE TypeOK'
<1>1. job' \in [Proc -> Job]
  BY GotoType DEF Resume, TypeOK, Labels, Holding
<1> QED BY <1>1 DEF Resume, TypeOK, world, usage, history

LEMMA RecheckType == ASSUME TypeOK, NEW p \in Proc, Recheck(p) PROVE TypeOK'
<1>1. job[p].outcome \in Outcomes
  BY DEF TypeOK, Job
<1>2. job' \in [Proc -> Job]
  BY <1>1, ReturnType DEF Recheck, TypeOK
<1>3. paused' \in BOOLEAN
  BY DEF Recheck
<1> QED BY <1>2, <1>3 DEF Recheck, TypeOK, world, usage, history

LEMMA CappedType == ASSUME TypeOK, NEW p \in Proc, Capped(p) PROVE TypeOK'
<1>1. job[p] \in Job
  BY DEF TypeOK
<1>2. /\ [job[p] EXCEPT !.pc = "answer", !.outcome = "auto_applied"] \in Job
      /\ [job[p] EXCEPT !.pc = "answer", !.outcome = "auto_capped"] \in Job
      /\ [job[p] EXCEPT !.pc = "look", !.back = "answer"] \in Job
  <2>1. /\ "answer" \in Labels \ Holding /\ "look" \in Labels \ Holding
        /\ "answer" \in Calls
        /\ "auto_applied" \in Outcomes /\ "auto_capped" \in Outcomes
    BY DEF Labels, Calls, Outcomes, Holding
  <2> QED BY <1>1, <2>1 DEF Job
<1>3. job' \in [Proc -> Job]
  BY <1>2, BecomeType DEF Capped, TypeOK
<1> QED BY <1>3, LocalType DEF Capped

LEMMA LookType == ASSUME TypeOK, NEW p \in Proc, Look(p) PROVE TypeOK'
<1>1. job[p] \in Job /\ job[p].snap.limit \in [Fields -> Nat]
  BY DEF TypeOK, Job, SettingsRow
<1>2. Quote(job[p].snap) \in [Fields -> Nat]
  BY <1>1, LimitExpandAssumption DEF Quote
<1>3. [job[p] EXCEPT !.pc = "cool", !.quote = Quote(job[p].snap)] \in Job
  BY <1>1, <1>2 DEF Job, Labels, Holding
<1>4. "no_breach" \in Outcomes /\ "already_pending" \in Outcomes
  BY DEF Outcomes
<1>5. job' \in [Proc -> Job]
  BY <1>3, <1>4, BecomeType, ReturnType DEF Look, TypeOK
<1> QED BY <1>5, LocalType DEF Look

LEMMA CoolType == ASSUME TypeOK, NEW p \in Proc, Cool(p) PROVE TypeOK'
<1>1. CASE stamped < MaxRows /\ stamped' = stamped + 1
           /\ Become(p, [job[p] EXCEPT !.pc = "insert", !.row = stamped + 1])
  <2>1. job[p] \in Job /\ stamped + 1 \in 0..MaxRows
    BY <1>1, LimitExpandAssumption DEF TypeOK
  <2>2. [job[p] EXCEPT !.pc = "insert", !.row = stamped + 1] \in Job
    BY <2>1 DEF Job, Labels, Holding
  <2>3. job' \in [Proc -> Job]
    BY <1>1, <2>2, BecomeType DEF TypeOK
  <2> QED BY <1>1, <2>1, <2>3 DEF Cool, TypeOK, world, usage, history
<1>2. CASE UNCHANGED stamped
           /\ (Return(p, "cooldown") \/ Goto(p, "reread"))
  <2>1. job' \in [Proc -> Job]
    BY <1>2, GotoType, ReturnType DEF TypeOK, Labels, Holding, Outcomes
  <2> QED BY <1>2, <2>1 DEF Cool, TypeOK, world, usage, history
<1> QED BY <1>1, <1>2 DEF Cool

LEMMA InsertType == ASSUME TypeOK, NEW p \in Proc, Insert(p) PROVE TypeOK'
<1>1. job[p].quote \in [Fields -> Nat] /\ "pending" \in Statuses
  BY DEF TypeOK, Job, Statuses
<1>2. "" \in Deciders
  BY DEF Deciders
<1>3. rows' \in [Ids -> Request] /\ faults' \in 0..MaxFaults
  <2>1. [rows EXCEPT ![job[p].row].status = "pending",
                     ![job[p].row].new = job[p].quote] \in [Ids -> Request]
    BY <1>1, <1>2, RowsType
  <2>2. faults' \in 0..MaxFaults
    BY FaultType DEF Insert, TypeOK
  <2> QED BY <2>1, <2>2 DEF Insert, TypeOK
<1>4. job' \in [Proc -> Job]
  BY GotoType DEF Insert, TypeOK, Labels, Holding
<1> QED BY <1>3, <1>4 DEF Insert, TypeOK, world, usage, history

LEMMA RereadType == ASSUME TypeOK, NEW p \in Proc, Reread(p) PROVE TypeOK'
<1>1. job[p] \in Job /\ PendingRequest \in 0..MaxRows
  BY RowReads, RowIds DEF TypeOK
<1>2. [job[p] EXCEPT !.pc = "scan", !.row = PendingRequest,
                     !.outcome = "created"] \in Job
  BY <1>1 DEF Job, Labels, Outcomes, Holding
<1>3. job' \in [Proc -> Job]
  BY <1>2, BecomeType, ReturnType DEF Reread, TypeOK, Outcomes
<1> QED BY <1>3, LocalType DEF Reread

LEMMA SettleType == ASSUME TypeOK, NEW p \in Proc, Settle(p) PROVE TypeOK'
  BY FindType, CheckQuotaType, WeighType, PersistType, MarkType, ScanType,
     SweepType, SweptType, ResumeType, RecheckType DEF Settle

LEMMA AskType == ASSUME TypeOK, NEW p \in Proc, Ask(p) PROVE TypeOK'
  BY CappedType, LookType, CoolType, InsertType, RereadType DEF Ask

\* A job that starts at label l with the settings s it read.
LEMMA StartType ==
    ASSUME NEW s \in SettingsRow, NEW l \in Labels, NEW b \in Calls,
           NEW k \in BOOLEAN, NEW w \in Decisions, l \notin Holding
    PROVE  /\ [Idle EXCEPT !.pc = l, !.snap = s, !.back = b] \in Job
           /\ [Idle EXCEPT !.pc = l, !.snap = s] \in Job
           /\ [Idle EXCEPT !.pc = l, !.known = k] \in Job
           /\ [Idle EXCEPT !.pc = l, !.snap = s, !.back = b, !.known = k,
                           !.word = w] \in Job
  BY IdleType DEF Job

LEMMA MonitorType == ASSUME TypeOK, Monitor PROVE TypeOK'
<1>0. /\ job["monitor"] \in Job /\ settings \in SettingsRow
      /\ {"find", "pause", "judge"} \subseteq Labels \ Holding
      /\ {"judge", "capped?"} \subseteq Calls
  BY DEF TypeOK, Labels, Holding, Calls
<1>1. CASE MonitorStart
  <2>1. [Idle EXCEPT !.pc = "find", !.snap = settings, !.back = "judge"] \in Job
    BY <1>0, StartType DEF Decisions
  <2>2. job' \in [Proc -> Job]
    BY <1>1, <2>1, BecomeType DEF MonitorStart, TypeOK
  <2> QED BY <1>1, <2>2, LocalType DEF MonitorStart
<1>2. CASE MonitorJudge
  <2>1. PICK s \in SettingsSeen("monitor") :
           /\ LenientRead(s) \/ UNCHANGED <<faults, misread>>
           /\ \/ Become("monitor", [job["monitor"] EXCEPT !.pc = "pause",
                                                          !.snap = s])
              \/ Finish("monitor")
    BY <1>2 DEF MonitorJudge
  <2>2. s \in SettingsRow /\ faults' \in 0..MaxFaults /\ misread' \in BOOLEAN
    BY <2>1, ReadType
  <2>3. [job["monitor"] EXCEPT !.pc = "pause", !.snap = s] \in Job
    BY <1>0, <2>2 DEF Job
  <2>4. job' \in [Proc -> Job]
    BY <2>1, <2>3, BecomeType, FinishType DEF TypeOK
  <2> QED BY <1>2, <2>2, <2>4 DEF MonitorJudge, TypeOK, tables, world, usage
<1>3. CASE MonitorPause
  <2>1. [job["monitor"] EXCEPT !.pc = "find", !.back = "capped?"] \in Job
    BY <1>0 DEF Job
  <2>2. job' \in [Proc -> Job]
    BY <1>3, <2>1, BecomeType DEF MonitorPause, TypeOK
  <2> QED BY <1>3, <2>2 DEF MonitorPause, TypeOK, world, usage, history
<1>4. CASE MonitorAnswer
  <2>1. job' \in [Proc -> Job]
    BY <1>4, FinishType DEF MonitorAnswer, TypeOK
  <2> QED BY <1>4, <2>1, LocalType DEF MonitorAnswer
<1> QED BY <1>1, <1>2, <1>3, <1>4 DEF Monitor

LEMMA GuardType == ASSUME TypeOK, Guard PROVE TypeOK'
<1>0. /\ job["guard"] \in Job /\ settings \in SettingsRow
      /\ {"hold", "stale", "find", "close"} \subseteq Labels \ Holding
      /\ {"rejudge", "capped?"} \subseteq Calls
  BY DEF TypeOK, Labels, Holding, Calls
<1>1. CASE GuardStart
  <2>1. /\ [Idle EXCEPT !.pc = "hold", !.snap = settings] \in Job
        /\ [Idle EXCEPT !.pc = "hold", !.known = FALSE] \in Job
    BY <1>0, StartType DEF Decisions
  <2>2. job' \in [Proc -> Job]
    BY <1>1, <2>1, BecomeType DEF GuardStart, TypeOK
  <2>3. faults' \in 0..MaxFaults
    BY <1>1, FaultType DEF GuardStart, TypeOK
  <2> QED BY <1>1, <2>2, <2>3 DEF GuardStart, TypeOK, tables, world, usage,
                                  history
<1>2. CASE GuardHold
  <2>1. job' \in [Proc -> Job]
    BY <1>0, <1>2, GotoType, FinishType DEF GuardHold, TypeOK
  <2> QED BY <1>2, <2>1, LocalType DEF GuardHold
<1>3. CASE GuardStale
  <2>1. /\ [job["guard"] EXCEPT !.pc = "find", !.back = "rejudge"] \in Job
        /\ [job["guard"] EXCEPT !.pc = "find", !.back = "capped?"] \in Job
    BY <1>0 DEF Job
  <2>2. job' \in [Proc -> Job]
    BY <1>3, <2>1, BecomeType, FinishType DEF GuardStale, TypeOK
  <2> QED BY <1>3, <2>2, LocalType DEF GuardStale
<1>4. CASE GuardRejudge
  <2>1. \A s \in SettingsRow, k \in BOOLEAN :
           [job["guard"] EXCEPT !.pc = "close", !.snap = s, !.known = k] \in Job
    BY <1>0 DEF Job
  <2>2. job["guard"].snap \in SettingsRow /\ job["guard"].known \in BOOLEAN
    BY <1>0 DEF Job
  <2>3. /\ [job["guard"] EXCEPT !.pc = "close", !.snap = settings,
                                !.known = TRUE] \in Job
        /\ [job["guard"] EXCEPT !.pc = "close", !.snap = job["guard"].snap,
                                !.known = job["guard"].known] \in Job
    BY <1>0, <2>1, <2>2
  <2>4. job' \in [Proc -> Job]
    BY <1>0, <1>4, <2>3, BecomeType, GotoType, FinishType
    DEF GuardRejudge, TypeOK
  <2>5. faults' \in 0..MaxFaults
    BY <1>4, FaultType DEF GuardRejudge, TypeOK
  <2> QED BY <1>4, <2>4, <2>5 DEF GuardRejudge, TypeOK, tables, world, usage,
                                  history
<1>5. CASE GuardAnswer
  <2>1. job' \in [Proc -> Job]
    BY <1>0, <1>5, GotoType, FinishType DEF GuardAnswer, TypeOK
  <2> QED BY <1>5, <2>1, LocalType DEF GuardAnswer
<1>6. CASE GuardClose
  <2>1. job' \in [Proc -> Job]
    BY <1>6, FinishType DEF GuardClose, TypeOK
  <2> QED BY <1>6, <2>1 DEF GuardClose, TypeOK, tables, usage, history
<1> QED BY <1>1, <1>2, <1>3, <1>4, <1>5, <1>6 DEF Guard

LEMMA OwnerType == ASSUME TypeOK, Owner PROVE TypeOK'
<1>0. /\ job["owner"] \in Job /\ settings \in SettingsRow
      /\ {"find", "mark"} \subseteq Labels \ Holding /\ "persist" \in Labels
      /\ "press" \in Calls /\ "idle" \in Calls
  BY DEF TypeOK, Labels, Holding, Calls
<1>1. ASSUME NEW d \in {"approve", "reject"}, OwnerStart(d) PROVE TypeOK'
  <2>1. PICK s \in {settings, DefaultSettings}, ui \in BOOLEAN :
           /\ LenientRead(s) \/ UNCHANGED <<faults, misread>>
           /\ Become("owner", [Idle EXCEPT !.pc = "find", !.snap = s,
                                 !.back = "press", !.known = ui, !.word = d])
    BY <1>1 DEF OwnerStart
  <2>2. s \in SettingsSeen("owner")
    BY DEF SettingsSeen
  <2>3. s \in SettingsRow /\ faults' \in 0..MaxFaults /\ misread' \in BOOLEAN
    BY <2>1, <2>2, ReadType
  <2>4. [Idle EXCEPT !.pc = "find", !.snap = s, !.back = "press",
                     !.known = ui, !.word = d] \in Job
    BY <1>0, <2>3, StartType DEF Decisions
  <2>5. job' \in [Proc -> Job]
    BY <2>1, <2>4, BecomeType DEF TypeOK
  <2>6. presses' \in 0..MaxPresses
    BY <1>1, LimitExpandAssumption DEF OwnerStart, TypeOK
  <2> QED BY <1>1, <2>3, <2>5, <2>6 DEF OwnerStart, TypeOK, tables
<1>2. CASE OwnerPress
  <2> DEFINE j == [job["owner"] EXCEPT !.row = Newest(Pending), !.back = "idle"]
  <2>1. j.row = Newest(Pending) /\ Newest(Pending) \in 0..MaxRows
    BY <1>0, RowReads, RowIds DEF Job
  <2>2. CASE Finish("owner") /\ UNCHANGED <<faults, misread>>
    <3>1. job' \in [Proc -> Job]
      BY <2>2, FinishType DEF TypeOK
    <3> QED BY <1>2, <2>2, <3>1 DEF OwnerPress, TypeOK, tables, world, usage
  <2>3. ASSUME Newest(Pending) # NoRow,
               Become("owner", Rule(j, "mark", "rejected", "owner", "rejected")),
               UNCHANGED <<faults, misread>>
        PROVE  TypeOK'
    <3>1. j \in Job
      <4>1. job["owner"].pc = "press" /\ "press" \notin Holding
        BY <1>2 DEF OwnerPress, At, Holding
      <4> QED BY <1>0, <2>1, <4>1 DEF Job
    <3>2. Rule(j, "mark", "rejected", "owner", "rejected") \in Job
      BY <1>0, <3>1, RuleType DEF Statuses, Deciders, Outcomes
    <3>3. job' \in [Proc -> Job]
      BY <2>3, <3>2, BecomeType DEF TypeOK
    <3> QED BY <1>2, <2>3, <3>3 DEF OwnerPress, TypeOK, tables, world, usage
  <2>4. ASSUME Newest(Pending) # NoRow, NEW s \in SettingsSeen("owner"),
               SettingsFor("owner", s),
               Become("owner", Rule([j EXCEPT !.snap = s], "persist",
                                    "approved", "owner", "applied"))
        PROVE  TypeOK'
    <3>1. /\ s \in SettingsRow /\ faults' \in 0..MaxFaults
          /\ misread' \in BOOLEAN
      BY <2>4, ReadType
    <3>2. Newest(Pending) \in Ids
      BY <2>4, RowReads
    <3>3. [j EXCEPT !.snap = s] \in Job /\ [j EXCEPT !.snap = s].row \in Ids
      BY <1>0, <2>1, <3>1, <3>2 DEF Job
    <3>4. Rule([j EXCEPT !.snap = s], "persist", "approved", "owner",
               "applied") \in Job
      BY <1>0, <3>3, RuleType DEF Statuses, Deciders, Outcomes
    <3>5. job' \in [Proc -> Job]
      BY <2>4, <3>4, BecomeType DEF TypeOK
    <3> QED BY <1>2, <3>1, <3>5 DEF OwnerPress, TypeOK, tables, world, usage
  <2> QED BY <1>2, <2>1, <2>2, <2>3, <2>4 DEF OwnerPress
<1>3. CASE OwnerKeep
  <2>1. job' \in [Proc -> Job]
    BY <1>3, FinishType DEF OwnerKeep, TypeOK
  <2> QED BY <1>3, <2>1 DEF OwnerKeep, TypeOK, world, usage, history
<1>4. CASE OwnerToggle
  BY <1>4 DEF OwnerToggle, TypeOK, world, usage, history
<1> QED BY <1>1, <1>2, <1>3, <1>4 DEF Owner

LEMMA DeskType == ASSUME TypeOK, Desk PROVE TypeOK'
<1>1. CASE DeskStart
  <2>1. [Idle EXCEPT !.pc = "save", !.snap = settings] \in Job
    <3>1. settings \in SettingsRow /\ "save" \in Labels \ Holding
          /\ "idle" \in Calls
      BY DEF TypeOK, Labels, Holding, Calls
    <3> QED BY <3>1, StartType DEF Decisions
  <2>2. job' \in [Proc -> Job]
    BY <1>1, <2>1, BecomeType DEF DeskStart, TypeOK
  <2>3. saves' \in 0..MaxSaves
    BY <1>1, LimitExpandAssumption DEF DeskStart, TypeOK
  <2> QED BY <1>1, <2>2, <2>3 DEF DeskStart, TypeOK, tables, history
<1>2. CASE DeskSave
  <2>1. job' \in [Proc -> Job]
    BY <1>2, FinishType DEF DeskSave, TypeOK
  <2>2. job["desk"].snap \in SettingsRow
    BY DEF TypeOK, Job
  <2>3. /\ settings' \in SettingsRow /\ optedIn' \in BOOLEAN
        /\ granted' \in [Fields -> SUBSET Nat]
    <3>1. ASSUME NEW f \in Fields, NEW v \in Levels, DeskLimit(f, v)
          PROVE  /\ settings' \in SettingsRow /\ optedIn' \in BOOLEAN
                 /\ granted' \in [Fields -> SUBSET Nat]
      <4>1. v \in Nat
        BY LimitExpandAssumption
      <4> QED BY <2>2, <3>1, <4>1 DEF DeskLimit, SettingsRow, TypeOK
    <3>2. ASSUME NEW w \in BOOLEAN, NEW a \in BOOLEAN, DeskPolicy(w, a)
          PROVE  /\ settings' \in SettingsRow /\ optedIn' \in BOOLEAN
                 /\ granted' \in [Fields -> SUBSET Nat]
      BY <2>2, <3>2 DEF DeskPolicy, SettingsRow, TypeOK
    <3>3. CASE DeskReset
      <4>1. DefaultLimit \in Nat
        BY LimitExpandAssumption
      <4> QED BY <3>3, <4>1, DefaultType DEF DeskReset, TypeOK
    <3> QED BY <1>2, <3>1, <3>2, <3>3 DEF DeskSave
  <2> QED BY <1>2, <2>1, <2>3 DEF DeskSave, TypeOK, world, usage
<1> QED BY <1>1, <1>2 DEF Desk

LEMMA WorldType == ASSUME TypeOK, World PROVE TypeOK'
<1>1. CASE OpenTrade
  BY <1>1 DEF OpenTrade, TypeOK, tables, usage, history
<1>2. CASE MetricMove
  BY <1>2, LimitExpandAssumption
  DEF MetricMove, TypeOK, tables, usage, history
<1>3. CASE Tick
  <2>1. rows' \in [Ids -> Request]
    <3>1. \A i \in Ids : rows[i].age < Horizon =>
             [rows[i] EXCEPT !.age = @ + 1] \in Request
      BY LimitExpandAssumption DEF TypeOK, Request
    <3> QED BY <1>3, <3>1 DEF Tick, TypeOK
  <2>2. job' \in [Proc -> Job]
    <3>1. \A p \in Proc : [job[p] EXCEPT !.ticked = TRUE] \in Job
      <4>1. ASSUME NEW j \in Job PROVE [j EXCEPT !.ticked = TRUE] \in Job
        BY DEF Job
      <4> QED BY <4>1 DEF TypeOK
    <3> QED BY <1>3, <3>1 DEF Tick, TypeOK
  <2>3. rescued' \in 0..Horizon
    BY <1>3, LimitExpandAssumption DEF Tick, TypeOK
  <2> QED BY <1>3, <2>1, <2>2, <2>3 DEF Tick, TypeOK, world, usage
<1>4. CASE Restart
  <2>1. job' \in [Proc -> Job]
    BY <1>4, IdleType DEF Restart
  <2>2. restarts' \in 0..MaxRestarts
    BY <1>4, LimitExpandAssumption DEF Restart, TypeOK
  <2> QED BY <1>4, <2>1, <2>2 DEF Restart, TypeOK, tables, history
<1> QED BY <1>1, <1>2, <1>3, <1>4 DEF World

LEMMA NextType == TypeOK /\ [Next]_vars => TypeOK'
<1> SUFFICES ASSUME TypeOK, [Next]_vars PROVE TypeOK'
  OBVIOUS
<1>1. CASE UNCHANGED vars
  BY <1>1 DEF vars, TypeOK, tables, world, usage, history
<1>2. CASE Next
  <2>1. \A p \in Proc : Settle(p) => TypeOK'
    BY SettleType
  <2>2. \A p \in Proc : Ask(p) => TypeOK'
    BY AskType
  <2> QED
    BY <1>2, <2>1, <2>2, MonitorType, GuardType, OwnerType, DeskType, WorldType
    DEF Next
<1> QED BY <1>1, <1>2

\* Every reachable state is well typed, whatever the constants: in particular
\* a settler that quotes, weighs or writes has a row of the table in hand.
THEOREM TypeCorrect == Spec => []TypeOK
<1>1. Init => TypeOK
  BY InitType
<1>2. TypeOK /\ [Next]_vars => TypeOK'
  BY NextType
<1> QED BY <1>1, <1>2, PTL DEF Spec

(***************************************************************************)
(* Whose word a limit rests on                                             *)
(*                                                                         *)
(* OnlyGrantedLimits is not inductive: a settler writes the snapshot it    *)
(* read long before.  Backed says of a settings row what the property says *)
(* of the table; JobSound keeps it for every row in memory that may still  *)
(* be written, and says that a job on its way to write, or to lift the     *)
(* pause, is there on the owner's word: a decision or the opt-in.          *)
(***************************************************************************)
Backed(s, opted, blind, given) ==
    /\ s.widen => opted
    /\ ~opted /\ ~blind => \A f \in Fields : s.limit[f] \in given[f]

JobSound(p, j, opted, blind, given) ==
    /\ j.snap.widen \/ j.pc \in {"quota", "weigh"} => opted
    /\ j.pc = "persist" => opted \/ j.by = "owner"
    /\ j.pc = "resume" \/ j.outcome = "applied" => opted \/ p = "owner"
    /\ j.pc \in {"persist", "save"} \/ (p = "owner" /\ j.known /\ j.pc # "idle")
          => Backed(j.snap, opted, blind, given)

Sound ==
    /\ Backed(settings, optedIn, misread, granted)
    /\ \A p \in Proc : JobSound(p, job[p], optedIn, misread, granted)

\* The history variables only ever grow.
Grows ==
    /\ optedIn => optedIn'
    /\ misread => misread'
    /\ \A f \in Fields : granted[f] \subseteq granted'[f]

LEMMA StaysBacked ==
    ASSUME Grows, NEW s, Backed(s, optedIn, misread, granted)
    PROVE  Backed(s, optedIn', misread', granted')
  BY DEF Grows, Backed

LEMMA StaysSound ==
    ASSUME Grows, NEW p, NEW j, JobSound(p, j, optedIn, misread, granted)
    PROVE  JobSound(p, j, optedIn', misread', granted')
  BY StaysBacked DEF Grows, JobSound

\* A step of p that leaves a sound job and a backed settings row.
LEMMA StepSound ==
    ASSUME TypeOK, Sound, Grows, NEW p \in Proc, NEW j, Become(p, j),
           JobSound(p, j, optedIn', misread', granted'),
           UNCHANGED settings \/ Backed(settings', optedIn', misread', granted')
    PROVE  Sound'
<1>1. \A q \in Proc : JobSound(q, job'[q], optedIn', misread', granted')
  <2>1. TAKE q \in Proc
  <2>2. CASE q = p
    BY <2>2 DEF Become, TypeOK
  <2>3. CASE q # p
    <3>1. job'[q] = job[q]
      BY <2>3 DEF Become, TypeOK
    <3>2. JobSound(q, job[q], optedIn', misread', granted')
      BY StaysSound DEF Sound
    <3> QED BY <3>1, <3>2
  <2> QED BY <2>2, <2>3
<1>2. Backed(settings', optedIn', misread', granted')
  BY StaysBacked DEF Sound
<1> QED BY <1>1, <1>2 DEF Sound

LEMMA FinishSound ==
    ASSUME TypeOK, Sound, Grows, NEW p \in Proc, Finish(p),
           UNCHANGED settings \/ Backed(settings', optedIn', misread', granted')
    PROVE  Sound'
<1>1. JobSound(p, Idle, optedIn', misread', granted')
  BY DEF JobSound, Idle, DefaultSettings
<1> QED BY <1>1, StepSound DEF Finish

\* A job that stays in memory but carries another outcome or label.
LEMMA MovedSound ==
    ASSUME TypeOK, Sound, Grows, NEW p \in Proc, ~At(p, "idle"), NEW j,
           j.snap = job[p].snap, j.known = job[p].known,
           j.pc \notin {"quota", "weigh", "persist", "resume", "save"},
           j.outcome = "applied" => optedIn \/ p = "owner"
    PROVE  JobSound(p, j, optedIn', misread', granted')
<1>1. JobSound(p, job[p], optedIn', misread', granted')
  BY StaysSound DEF Sound
<1> QED BY <1>1 DEF JobSound, At, Grows

LEMMA ReturnSound ==
    ASSUME TypeOK, Sound, Grows, NEW p \in Proc, ~At(p, "idle"),
           NEW o \in Outcomes, o = "applied" => optedIn \/ p = "owner",
           Return(p, o),
           UNCHANGED settings \/ Backed(settings', optedIn', misread', granted')
    PROVE  Sound'
<1>1. CASE Finish(p)
  BY <1>1, FinishSound
<1>2. CASE Become(p, [job[p] EXCEPT !.pc = job[p].back, !.outcome = o])
  <2> DEFINE j == [job[p] EXCEPT !.pc = job[p].back, !.outcome = o]
  <2>1. j \in Job /\ j.snap = job[p].snap /\ j.known = job[p].known
        /\ j.pc \in Calls /\ j.outcome = o
    <3>1. job[p] \in Job /\ Calls \subseteq Labels \ Holding
      BY DEF TypeOK, Calls, Labels, Holding
    <3> QED BY <3>1 DEF Job
  <2>2. JobSound(p, j, optedIn', misread', granted')
    <3> HIDE DEF j
    <3> QED BY <2>1, MovedSound DEF Calls
  <2> QED BY <1>2, <2>2, StepSound
<1> QED BY <1>1, <1>2 DEF Return

\* A job that goes on with other settings, read in this very step.
LEMMA ReadSound ==
    ASSUME TypeOK, Sound, NEW p \in Proc, NEW s,
           LenientRead(s) \/ (s = settings /\ UNCHANGED misread),
           UNCHANGED <<optedIn, granted>>
    PROVE  Grows /\ Backed(s, optedIn', misread', granted')
<1>1. CASE s = settings /\ UNCHANGED misread
  BY <1>1 DEF Sound, Grows
<1>2. CASE s = DefaultSettings /\ misread' = TRUE
  BY <1>2 DEF Grows, Backed, DefaultSettings
<1> QED BY <1>1, <1>2 DEF LenientRead

LEMMA SettingsForSound ==
    ASSUME TypeOK, Sound, NEW p \in Proc, NEW s, SettingsFor(p, s),
           ~At(p, "idle"), UNCHANGED <<optedIn, granted>>
    PROVE  /\ Grows
           /\ s.widen => optedIn
           /\ p = "owner" => Backed(s, optedIn', misread', granted')
<1>1. CASE p = "owner" /\ ~job[p].known
  BY <1>1, ReadSound DEF SettingsFor, Backed
<1>2. CASE ~(p = "owner" /\ ~job[p].known)
  <2>1. s = job[p].snap /\ UNCHANGED misread
    BY <1>2 DEF SettingsFor
  <2>2. Grows
    BY <2>1 DEF Grows
  <2>3. JobSound(p, job[p], optedIn, misread, granted) /\ TypeOK
    BY DEF Sound
  <2>4. job[p].known \in BOOLEAN
    BY DEF TypeOK, Job
  <2> QED BY <1>2, <2>1, <2>2, <2>3, <2>4, StaysBacked DEF JobSound, At
<1> QED BY <1>1, <1>2

LEMMA FindSound ==
    ASSUME TypeOK, Sound, NEW p \in Proc, Find(p) PROVE Sound'
<1>0. ~At(p, "idle") /\ UNCHANGED <<settings, optedIn, granted>>
  BY DEF Find, At, tables
<1>1. CASE Return(p, "none") /\ UNCHANGED misread
  <2>1. Grows
    BY <1>0, <1>1 DEF Grows
  <2> QED BY <1>0, <1>1, <2>1, ReturnSound DEF Outcomes
<1>2. ASSUME NEW s \in SettingsSeen(p), SettingsFor(p, s),
             Become(p, Planned([job[p] EXCEPT !.row = StalePending,
                                              !.snap = s], s))
      PROVE  Sound'
  <2> DEFINE k == [job[p] EXCEPT !.row = StalePending, !.snap = s]
             j == Planned(k, s)
  <2>1. /\ Grows
        /\ s.widen => optedIn
        /\ p = "owner" => Backed(s, optedIn', misread', granted')
    BY <1>0, <1>2, SettingsForSound
  <2>2. k.snap = s /\ k \in Job
    <3>1. job[p] \in Job /\ StalePending \in 0..MaxRows /\ s \in SettingsRow
          /\ job[p].pc \notin Holding
      BY <1>2, RowReads, RowIds, ReadType DEF TypeOK, Find, At, Holding
    <3> QED BY <3>1 DEF Job
  <2>3. /\ j.snap = s
        /\ \/ j.pc = "mark" /\ j.outcome = "kept"
           \/ s.widen /\ j.pc \in {"weigh", "quota"} /\ j.outcome = "applied"
    <3> HIDE DEF k
    <3> QED BY <2>2 DEF Planned, Plan, Rule, Job
  <2>4. Become(p, j)
    BY <1>2
  <2>5. JobSound(p, j, optedIn', misread', granted')
    <3> HIDE DEF j
    <3>1. s.widen => optedIn'
      BY <2>1 DEF Grows
    <3>2. CASE j.pc = "mark" /\ j.outcome = "kept"
      BY <2>1, <2>3, <3>1, <3>2 DEF JobSound
    <3>3. CASE s.widen /\ j.pc \in {"weigh", "quota"} /\ j.outcome = "applied"
      BY <2>1, <2>3, <3>1, <3>3 DEF JobSound
    <3> QED BY <2>3, <3>2, <3>3
  <2> HIDE DEF j
  <2> QED BY <1>0, <2>1, <2>4, <2>5, StepSound
<1> QED BY <1>1, <1>2 DEF Find

LEMMA LocalGrows == ASSUME UNCHANGED history PROVE Grows
  BY DEF history, Grows

LEMMA CheckQuotaSound ==
    ASSUME TypeOK, Sound, NEW p \in Proc, CheckQuota(p) PROVE Sound'
<1>0. /\ job[p] \in Job /\ UNCHANGED <<settings, optedIn>> /\ Grows
      /\ At(p, "quota") /\ ~At(p, "idle")
  BY LocalGrows DEF CheckQuota, TypeOK, tables, history, At
<1>1. optedIn
  BY <1>0 DEF Sound, JobSound, At
<1>2. JobSound(p, job[p], optedIn', misread', granted')
  BY <1>0, StaysSound DEF Sound
<1>3. CASE Become(p, Rule(job[p], "mark", "expired", "auto:capped", "capped"))
  <2>1. JobSound(p, Rule(job[p], "mark", "expired", "auto:capped", "capped"),
                 optedIn', misread', granted')
    BY <1>0, <1>1, <1>2 DEF JobSound, Rule, Job, At, Backed
  <2> QED BY <1>0, <1>3, <2>1, StepSound
<1>4. CASE Goto(p, "weigh")
  <2>1. JobSound(p, [job[p] EXCEPT !.pc = "weigh"], optedIn', misread', granted')
    BY <1>0, <1>1, <1>2 DEF JobSound, Job, At, Backed
  <2> QED BY <1>0, <1>4, <2>1, StepSound DEF Goto
<1> QED BY <1>3, <1>4 DEF CheckQuota

LEMMA WeighSound == ASSUME TypeOK, Sound, NEW p \in Proc, Weigh(p) PROVE Sound'
<1>0. /\ job[p] \in Job /\ UNCHANGED <<settings, optedIn>> /\ Grows
      /\ At(p, "weigh") /\ ~At(p, "idle")
  BY LocalGrows DEF Weigh, TypeOK, tables, history, At
<1>1. optedIn
  BY <1>0 DEF Sound, JobSound, At
<1>2. JobSound(p, job[p], optedIn', misread', granted')
  BY <1>0, StaysSound DEF Sound
<1>3. CASE Become(p, Rule(job[p], "mark", "expired", "auto:no-breach",
                          "no-breach"))
  <2>1. JobSound(p, Rule(job[p], "mark", "expired", "auto:no-breach",
                         "no-breach"), optedIn', misread', granted')
    BY <1>0, <1>1, <1>2 DEF JobSound, Rule, Job, At, Backed
  <2> QED BY <1>0, <1>3, <2>1, StepSound
<1>4. CASE Goto(p, "persist")
  <2>1. Backed(job[p].snap, optedIn', misread', granted')
    BY <1>0, <1>1 DEF Backed
  <2>2. JobSound(p, [job[p] EXCEPT !.pc = "persist"], optedIn', misread',
                 granted')
    BY <1>0, <1>1, <1>2, <2>1 DEF JobSound, Job, At
  <2> QED BY <1>0, <1>4, <2>2, StepSound DEF Goto
<1> QED BY <1>3, <1>4 DEF Weigh

\* What an approval writes is backed once the owner's part is recorded.
LEMMA MergedBacked ==
    ASSUME TypeOK, NEW i \in Ids, NEW s \in SettingsRow, NEW o, NEW b,
           NEW g, NEW h, Backed(s, o, b, g), o \in BOOLEAN, b \in BOOLEAN,
           ~o => \A f \in Fields :
                    /\ g[f] \subseteq h[f]
                    /\ f \in Proposes(i, s) => rows[i].new[f] \in h[f]
    PROVE  Backed(Merged(i, s), o, b, h)
<1>1. /\ Merged(i, s).widen = s.widen
      /\ \A f \in Fields : Merged(i, s).limit[f] =
            IF f \in Proposes(i, s) THEN rows[i].new[f] ELSE s.limit[f]
  BY DEF Merged, SettingsRow
<1> QED BY <1>1 DEF Backed

LEMMA PersistSound ==
    ASSUME TypeOK, Sound, NEW p \in Proc, Persist(p) PROVE Sound'
<1> DEFINE i == job[p].row
           s == job[p].snap
<1>0. /\ job[p] \in Job /\ s \in SettingsRow /\ i \in Ids
      /\ UNCHANGED <<optedIn, misread>> /\ job[p].pc = "persist"
      /\ ~At(p, "idle")
      /\ optedIn \in BOOLEAN /\ misread \in BOOLEAN
  BY InHand DEF Persist, At, Holding, Job, TypeOK
<1>1. \A f \in Fields :
         /\ granted[f] \subseteq granted'[f]
         /\ job[p].by = "owner" /\ f \in Proposes(i, s) =>
               rows[i].new[f] \in granted'[f]
  BY DEF Persist
<1>2. Grows
  BY <1>0, <1>1 DEF Grows
<1>3. JobSound(p, job[p], optedIn, misread, granted)
  BY DEF Sound
<1>4. Backed(Merged(i, s), optedIn', misread', granted')
  <2>1. Backed(s, optedIn, misread, granted) /\ (optedIn \/ job[p].by = "owner")
    BY <1>0, <1>3 DEF JobSound
  <2>2. Backed(Merged(i, s), optedIn, misread, granted')
    BY <1>0, <1>1, <2>1, MergedBacked
  <2> QED BY <1>0, <2>2
<1>5. UNCHANGED settings \/ Backed(settings', optedIn', misread', granted')
  BY <1>4 DEF Persist
<1>6. job[p].outcome = "applied" => optedIn \/ p = "owner"
  BY <1>0, <1>3 DEF JobSound
<1>7. CASE Return(p, "failed")
  BY <1>0, <1>2, <1>5, <1>7, ReturnSound DEF Outcomes
<1>8. ASSUME NEW j, Become(p, j), j.pc = "mark", j.snap = job[p].snap,
             j.known = job[p].known, j.outcome = "applied" => optedIn \/ p = "owner"
      PROVE  Sound'
  BY <1>0, <1>2, <1>5, <1>8, MovedSound, StepSound
<1>9. CASE Become(p, [job[p] EXCEPT !.pc = "mark", !.outcome = "skipped"])
  <2> DEFINE j == [job[p] EXCEPT !.pc = "mark", !.outcome = "skipped"]
  <2>1. j.pc = "mark" /\ j.snap = s /\ j.known = job[p].known
        /\ j.outcome = "skipped"
    BY <1>0 DEF Job
  <2> HIDE DEF j
  <2> QED BY <1>8, <1>9, <2>1 DEF j
<1>10. CASE Goto(p, "mark")
  <2> DEFINE j == [job[p] EXCEPT !.pc = "mark"]
  <2>1. j.pc = "mark" /\ j.snap = s /\ j.known = job[p].known
        /\ j.outcome = job[p].outcome
    BY <1>0 DEF Job
  <2>2. j.outcome = "applied" => optedIn \/ p = "owner"
    BY <1>6, <2>1
  <2> QED BY <1>8, <1>10, <2>1, <2>2 DEF Goto
<1> QED BY <1>7, <1>9, <1>10 DEF Persist

\* A step of p that only moves its job along, the settings read kept.
LEMMA MoveStep ==
    ASSUME TypeOK, Sound, NEW p \in Proc, ~At(p, "idle"),
           UNCHANGED settings, UNCHANGED history, NEW j, Become(p, j),
           j.snap = job[p].snap, j.known = job[p].known,
           j.pc \notin {"quota", "weigh", "persist", "resume", "save"},
           j.outcome = "applied" => job[p].outcome = "applied"
    PROVE  Sound'
<1>1. Grows
  BY LocalGrows
<1>2. job[p].outcome = "applied" => optedIn \/ p = "owner"
  BY DEF Sound, JobSound
<1> QED BY <1>1, <1>2, MovedSound, StepSound

LEMMA GotoSound ==
    ASSUME TypeOK, Sound, NEW p \in Proc, ~At(p, "idle"),
           UNCHANGED settings, UNCHANGED history, NEW l, Goto(p, l),
           l \notin {"quota", "weigh", "persist", "resume", "save"}
    PROVE  Sound'
<1> DEFINE j == [job[p] EXCEPT !.pc = l]
<1>1. /\ j.pc = l /\ j.snap = job[p].snap /\ j.known = job[p].known
      /\ j.outcome = job[p].outcome
  BY DEF TypeOK, Job
<1>2. Become(p, j)
  BY DEF Goto
<1> HIDE DEF j
<1> QED BY <1>1, <1>2, MoveStep

LEMMA AnswerSound ==
    ASSUME TypeOK, Sound, NEW p \in Proc, ~At(p, "idle"),
           UNCHANGED settings, UNCHANGED history, NEW o \in Outcomes,
           o = "applied" => job[p].outcome = "applied", Return(p, o)
    PROVE  Sound'
<1>1. Grows
  BY LocalGrows
<1>2. job[p].outcome = "applied" => optedIn \/ p = "owner"
  BY DEF Sound, JobSound
<1> QED BY <1>1, <1>2, ReturnSound

LEMMA SettleRestSound ==
    ASSUME TypeOK, Sound, NEW p \in Proc,
           Mark(p) \/ Scan(p) \/ Sweep(p) \/ Swept(p) \/ Resume(p) \/ Recheck(p)
    PROVE  Sound'
<1>0. job[p] \in Job /\ UNCHANGED settings /\ UNCHANGED history
      /\ ~At(p, "idle") /\ job[p].outcome \in Outcomes
  BY DEF TypeOK, Job, Mark, Scan, Sweep, Swept, Resume, Recheck, tables, At
<1>1. CASE Mark(p)
  BY <1>0, <1>1, GotoSound DEF Mark
<1>2. CASE Scan(p)
  <2> DEFINE j == [job[p] EXCEPT !.pc = "sweep",
                                 !.others = Siblings(job[p].row)]
  <2>1. /\ j.pc = "sweep" /\ j.snap = job[p].snap /\ j.known = job[p].known
        /\ j.outcome = job[p].outcome
    BY <1>0 DEF Job
  <2>2. Become(p, j)
    BY <1>2 DEF Scan
  <2> HIDE DEF j
  <2> QED BY <1>0, <2>1, <2>2, MoveStep
<1>3. CASE Sweep(p)
  <2> DEFINE j == [job[p] EXCEPT !.others = @ \ {Newest(job[p].others)}]
  <2>1. /\ j.pc = "sweep" /\ j.snap = job[p].snap /\ j.known = job[p].known
        /\ j.outcome = job[p].outcome
    BY <1>0, <1>3 DEF Job, Sweep, At
  <2>2. Become(p, j)
    BY <1>3 DEF Sweep
  <2> HIDE DEF j
  <2> QED BY <1>0, <2>1, <2>2, MoveStep
<1>4. CASE Swept(p)
  <2>1. CASE job[p].outcome = "applied" /\ Goto(p, "resume")
    <3> DEFINE j == [job[p] EXCEPT !.pc = "resume"]
    <3>1. /\ j.pc = "resume" /\ j.snap = job[p].snap
          /\ j.known = job[p].known /\ j.outcome = job[p].outcome
      BY <1>0 DEF Job
    <3>2. Grows /\ JobSound(p, job[p], optedIn', misread', granted')
      BY <1>0, LocalGrows, StaysSound DEF Sound
    <3>3. JobSound(p, j, optedIn', misread', granted')
      <4> HIDE DEF j
      <4> QED BY <1>0, <2>1, <3>1, <3>2 DEF JobSound, At
    <3> QED BY <1>0, <2>1, <3>2, <3>3, StepSound DEF Goto
  <2>2. CASE Goto(p, "keep")
    BY <1>0, <2>2, GotoSound
  <2>3. CASE Return(p, job[p].outcome)
    BY <1>0, <2>3, AnswerSound
  <2> QED BY <1>4, <2>1, <2>2, <2>3 DEF Swept, Resuming
<1>5. CASE Resume(p)
  BY <1>0, <1>5, GotoSound DEF Resume
<1>6. CASE Recheck(p)
  BY <1>0, <1>6, AnswerSound DEF Recheck
<1> QED BY <1>1, <1>2, <1>3, <1>4, <1>5, <1>6

LEMMA AskSound == ASSUME TypeOK, Sound, NEW p \in Proc, Ask(p) PROVE Sound'
<1>0. job[p] \in Job /\ UNCHANGED settings /\ UNCHANGED history
      /\ ~At(p, "idle")
  BY DEF TypeOK, Ask, Capped, Look, Cool, Insert, Reread, tables, At
<1>1. ASSUME NEW o, o # "applied",
             Become(p, [job[p] EXCEPT !.pc = "answer", !.outcome = o])
      PROVE  Sound'
  <2> DEFINE j == [job[p] EXCEPT !.pc = "answer", !.outcome = o]
  <2>1. /\ j.pc = "answer" /\ j.snap = job[p].snap
        /\ j.known = job[p].known /\ j.outcome = o
    BY <1>0 DEF Job
  <2> HIDE DEF j
  <2> QED BY <1>0, <1>1, <2>1, MoveStep DEF j
<1>2. CASE Capped(p)
  <2>1. CASE Become(p, [job[p] EXCEPT !.pc = "look", !.back = "answer"])
    <3> DEFINE j == [job[p] EXCEPT !.pc = "look", !.back = "answer"]
    <3>1. /\ j.pc = "look" /\ j.snap = job[p].snap
          /\ j.known = job[p].known /\ j.outcome = job[p].outcome
      BY <1>0 DEF Job
    <3> HIDE DEF j
    <3> QED BY <1>0, <2>1, <3>1, MoveStep DEF j
  <2>2. ASSUME NEW o \in {"auto_applied", "auto_capped"},
               Become(p, [job[p] EXCEPT !.pc = "answer", !.outcome = o])
        PROVE  Sound'
    BY <1>1, <2>2
  <2> QED BY <1>2, <2>1, <2>2 DEF Capped
<1>3. CASE Look(p)
  <2>1. CASE Return(p, "no_breach") \/ Return(p, "already_pending")
    BY <1>0, <2>1, AnswerSound DEF Outcomes
  <2>2. CASE Become(p, [job[p] EXCEPT !.pc = "cool",
                                      !.quote = Quote(job[p].snap)])
    <3> DEFINE j == [job[p] EXCEPT !.pc = "cool", !.quote = Quote(job[p].snap)]
    <3>1. /\ j.pc = "cool" /\ j.snap = job[p].snap
          /\ j.known = job[p].known /\ j.outcome = job[p].outcome
      BY <1>0 DEF Job
    <3> HIDE DEF j
    <3> QED BY <1>0, <2>2, <3>1, MoveStep DEF j
  <2> QED BY <1>3, <2>1, <2>2 DEF Look
<1>4. CASE Cool(p)
  <2>1. CASE Return(p, "cooldown")
    BY <1>0, <2>1, AnswerSound DEF Outcomes
  <2>2. CASE Become(p, [job[p] EXCEPT !.pc = "insert", !.row = stamped + 1])
    <3> DEFINE j == [job[p] EXCEPT !.pc = "insert", !.row = stamped + 1]
    <3>1. /\ j.pc = "insert" /\ j.snap = job[p].snap
          /\ j.known = job[p].known /\ j.outcome = job[p].outcome
      BY <1>0 DEF Job
    <3> HIDE DEF j
    <3> QED BY <1>0, <2>2, <3>1, MoveStep DEF j
  <2>3. CASE Goto(p, "reread")
    BY <1>0, <2>3, GotoSound
  <2> QED BY <1>4, <2>1, <2>2, <2>3 DEF Cool
<1>5. CASE Insert(p)
  BY <1>0, <1>5, GotoSound DEF Insert
<1>6. CASE Reread(p)
  <2>1. CASE Return(p, "insert_failed")
    BY <1>0, <2>1, AnswerSound DEF Outcomes
  <2>2. CASE Become(p, [job[p] EXCEPT !.pc = "scan", !.row = PendingRequest,
                                      !.outcome = "created"])
    <3> DEFINE j == [job[p] EXCEPT !.pc = "scan", !.row = PendingRequest,
                                   !.outcome = "created"]
    <3>1. /\ j.pc = "scan" /\ j.snap = job[p].snap
          /\ j.known = job[p].known /\ j.outcome = "created"
      BY <1>0 DEF Job
    <3> HIDE DEF j
    <3> QED BY <1>0, <2>2, <3>1, MoveStep DEF j
  <2> QED BY <1>6, <2>1, <2>2 DEF Reread
<1> QED BY <1>2, <1>3, <1>4, <1>5, <1>6 DEF Ask

\* A step that puts settings read just now in the job, or drops the outcome.
LEMMA StartSound ==
    ASSUME TypeOK, Sound, Grows, NEW p \in Proc, UNCHANGED settings, NEW j,
           Become(p, j), j.outcome = "applied" => optedIn \/ p = "owner",
           j.pc \notin {"quota", "weigh", "persist", "resume"},
           j.snap.widen => optedIn',
           j.pc = "save" \/ (p = "owner" /\ j.known) =>
              Backed(j.snap, optedIn', misread', granted')
    PROVE  Sound'
<1>1. JobSound(p, j, optedIn', misread', granted')
  BY DEF JobSound, Grows
<1> QED BY <1>1, StepSound

LEMMA MonitorSound == ASSUME TypeOK, Sound, Monitor PROVE Sound'
<1>0. job["monitor"] \in Job /\ UNCHANGED settings /\ UNCHANGED optedIn
  BY DEF TypeOK, Monitor, MonitorStart, MonitorJudge, MonitorPause,
         MonitorAnswer, tables, history
<1>1. CASE MonitorStart
  <2> DEFINE j == [Idle EXCEPT !.pc = "find", !.snap = settings, !.back = "judge"]
  <2>1. j.pc = "find" /\ j.snap = settings /\ j.outcome = ""
    BY DEF Idle
  <2>2. Grows /\ (settings.widen => optedIn)
    BY <1>1, LocalGrows DEF MonitorStart, Sound, Backed
  <2>3. Become("monitor", j)
    BY <1>1 DEF MonitorStart
  <2> HIDE DEF j
  <2> QED BY <1>0, <2>1, <2>2, <2>3, StartSound
<1>2. CASE MonitorJudge
  <2>0. ~At("monitor", "idle") /\ UNCHANGED granted
    BY <1>2 DEF MonitorJudge, At
  <2>1. PICK s \in SettingsSeen("monitor") :
           /\ \/ LenientRead(s)
              \/ s = job["monitor"].snap /\ UNCHANGED misread
           /\ \/ Become("monitor", [job["monitor"] EXCEPT !.pc = "pause",
                                                          !.snap = s])
              \/ Finish("monitor")
    BY <1>2 DEF MonitorJudge
  <2>2. Grows
    BY <1>0, <2>0, <2>1 DEF LenientRead, Grows
  <2>3. s.widen => optedIn'
    <3>1. CASE LenientRead(s)
      BY <1>0, <2>0, <3>1, ReadSound DEF Backed
    <3>2. CASE s = job["monitor"].snap
      BY <1>0, <3>2 DEF Sound, JobSound
    <3> QED BY <2>1, <3>1, <3>2
  <2>4. CASE Finish("monitor")
    BY <1>0, <2>2, <2>4, FinishSound
  <2>5. CASE Become("monitor", [job["monitor"] EXCEPT !.pc = "pause",
                                                      !.snap = s])
    <3> DEFINE j == [job["monitor"] EXCEPT !.pc = "pause", !.snap = s]
    <3>1. /\ j.pc = "pause" /\ j.snap = s
          /\ j.outcome = job["monitor"].outcome
      BY <1>0 DEF Job
    <3>2. job["monitor"].outcome = "applied" => optedIn
      BY DEF Sound, JobSound
    <3> HIDE DEF j
    <3> QED BY <1>0, <2>2, <2>3, <2>5, <3>1, <3>2, StartSound DEF j
  <2> QED BY <2>1, <2>4, <2>5
<1>3. CASE MonitorPause
  <2> DEFINE j == [job["monitor"] EXCEPT !.pc = "find", !.back = "capped?"]
  <2>1. /\ j.pc = "find" /\ j.snap = job["monitor"].snap
        /\ j.known = job["monitor"].known
        /\ j.outcome = job["monitor"].outcome
    BY <1>0 DEF Job
  <2>2. Become("monitor", j) /\ UNCHANGED history /\ ~At("monitor", "idle")
    BY <1>3 DEF MonitorPause, At
  <2> HIDE DEF j
  <2> QED BY <1>0, <2>1, <2>2, MoveStep
<1>4. CASE MonitorAnswer
  BY <1>0, <1>4, LocalGrows, FinishSound DEF MonitorAnswer
<1> QED BY <1>1, <1>2, <1>3, <1>4 DEF Monitor

LEMMA GuardSound == ASSUME TypeOK, Sound, Guard PROVE Sound'
<1>0. /\ job["guard"] \in Job /\ UNCHANGED settings /\ UNCHANGED history
      /\ Grows
      /\ settings.widen => optedIn'
      /\ job["guard"].snap.widen => optedIn'
      /\ job["guard"].outcome = "applied" => optedIn
  <2>1. job["guard"] \in Job /\ UNCHANGED settings /\ UNCHANGED history
    BY DEF TypeOK, Guard, GuardStart, GuardHold, GuardStale, GuardRejudge,
           GuardAnswer, GuardClose, tables
  <2>2. /\ settings.widen => optedIn
        /\ job["guard"].snap.widen => optedIn
        /\ job["guard"].outcome = "applied" => optedIn
    BY DEF Sound, JobSound, Backed
  <2> QED BY <2>1, <2>2, LocalGrows DEF history
<1>1. ASSUME NEW j, Become("guard", j), j.pc \in {"hold", "find", "close"},
             j.snap \in {settings, job["guard"].snap, DefaultSettings},
             j.outcome \in {"", job["guard"].outcome}
      PROVE  Sound'
  <2>1. j.snap.widen => optedIn'
    <3>1. CASE j.snap = DefaultSettings
      BY <3>1 DEF DefaultSettings
    <3>2. CASE j.snap \in {settings, job["guard"].snap}
      BY <1>0, <3>2
    <3> QED BY <1>1, <3>1, <3>2
  <2> QED BY <1>0, <1>1, <2>1, StartSound
<1>2. CASE Finish("guard")
  BY <1>0, <1>2, FinishSound
<1>3. CASE GuardStart
  <2>1. CASE Become("guard", [Idle EXCEPT !.pc = "hold", !.snap = settings])
    <3> DEFINE j == [Idle EXCEPT !.pc = "hold", !.snap = settings]
    <3>1. j.pc = "hold" /\ j.snap = settings /\ j.outcome = ""
      BY DEF Idle
    <3> HIDE DEF j
    <3> QED BY <1>1, <2>1, <3>1 DEF j
  <2>2. CASE Become("guard", [Idle EXCEPT !.pc = "hold", !.known = FALSE])
    <3> DEFINE j == [Idle EXCEPT !.pc = "hold", !.known = FALSE]
    <3>1. j.pc = "hold" /\ j.snap = DefaultSettings /\ j.outcome = ""
      BY DEF Idle
    <3> HIDE DEF j
    <3> QED BY <1>1, <2>2, <3>1 DEF j
  <2> QED BY <1>3, <2>1, <2>2 DEF GuardStart
<1>4. CASE GuardHold
  BY <1>0, <1>2, <1>4, GotoSound DEF GuardHold, At
<1>5. CASE GuardStale
  <2>1. ASSUME NEW l, Become("guard", [job["guard"] EXCEPT !.pc = "find",
                                                           !.back = l])
        PROVE  Sound'
    <3> DEFINE j == [job["guard"] EXCEPT !.pc = "find", !.back = l]
    <3>1. /\ j.pc = "find" /\ j.snap = job["guard"].snap
          /\ j.outcome = job["guard"].outcome
      BY <1>0 DEF Job
    <3> HIDE DEF j
    <3> QED BY <1>1, <2>1, <3>1 DEF j
  <2> QED BY <1>2, <1>5, <2>1 DEF GuardStale
<1>6. CASE GuardRejudge
  <2>0. ~At("guard", "idle")
    BY <1>6 DEF GuardRejudge, At
  <2>1. ASSUME NEW s \in {settings, job["guard"].snap}, NEW k,
               Become("guard", [job["guard"] EXCEPT !.pc = "close", !.snap = s,
                                                    !.known = k])
        PROVE  Sound'
    <3> DEFINE j == [job["guard"] EXCEPT !.pc = "close", !.snap = s, !.known = k]
    <3>1. /\ j.pc = "close" /\ j.snap = s
          /\ j.outcome = job["guard"].outcome
      BY <1>0 DEF Job
    <3> HIDE DEF j
    <3> QED BY <1>1, <2>1, <3>1 DEF j
  <2>2. CASE Goto("guard", "close")
    BY <1>0, <2>0, <2>2, GotoSound
  <2> QED BY <1>2, <1>6, <2>1, <2>2 DEF GuardRejudge
<1>7. CASE GuardAnswer
  BY <1>0, <1>2, <1>7, GotoSound DEF GuardAnswer, At
<1>8. CASE GuardClose
  BY <1>2, <1>8 DEF GuardClose
<1> QED BY <1>3, <1>4, <1>5, <1>6, <1>7, <1>8 DEF Guard

LEMMA OwnerSound == ASSUME TypeOK, Sound, Owner PROVE Sound'
<1>0. /\ job["owner"] \in Job
      /\ UNCHANGED settings /\ UNCHANGED <<optedIn, granted>>
  BY DEF TypeOK, Owner, OwnerStart, OwnerPress, OwnerKeep, OwnerToggle, tables,
         history
<1>1. ASSUME NEW d \in {"approve", "reject"}, OwnerStart(d) PROVE Sound'
  <2>1. PICK s \in {settings, DefaultSettings}, ui \in BOOLEAN :
           /\ \/ ui /\ LenientRead(s)
              \/ ~ui /\ s = DefaultSettings /\ UNCHANGED misread
           /\ Become("owner", [Idle EXCEPT !.pc = "find", !.snap = s,
                                 !.back = "press", !.known = ui, !.word = d])
    BY <1>1 DEF OwnerStart
  <2> DEFINE j == [Idle EXCEPT !.pc = "find", !.snap = s, !.back = "press",
                               !.known = ui, !.word = d]
  <2>2. j.pc = "find" /\ j.snap = s /\ j.known = ui /\ j.outcome = ""
    BY DEF Idle
  <2>3. /\ Grows
        /\ s.widen => optedIn'
        /\ ui => Backed(s, optedIn', misread', granted')
    <3>1. CASE ui /\ LenientRead(s)
      BY <1>0, <3>1, ReadSound DEF Backed
    <3>2. CASE ~ui /\ s = DefaultSettings /\ UNCHANGED misread
      BY <1>0, <3>2 DEF DefaultSettings, Grows
    <3> QED BY <2>1, <3>1, <3>2
  <2>4. Become("owner", j)
    BY <2>1
  <2> HIDE DEF j
  <2> QED BY <1>0, <2>2, <2>3, <2>4, StartSound
<1>2. CASE OwnerPress
  <2> DEFINE j == [job["owner"] EXCEPT !.row = Newest(Pending), !.back = "idle"]
  <2>0. ~At("owner", "idle")
    BY <1>2 DEF OwnerPress, At
  <2>1. CASE Finish("owner") /\ UNCHANGED misread
    <3>1. Grows
      BY <1>0, <2>1 DEF Grows
    <3> QED BY <1>0, <2>1, <3>1, FinishSound
  <2>2. CASE Become("owner", Rule(j, "mark", "rejected", "owner", "rejected"))
             /\ UNCHANGED misread
    <3> DEFINE k == Rule(j, "mark", "rejected", "owner", "rejected")
    <3>1. /\ k.pc = "mark" /\ k.snap = job["owner"].snap
          /\ k.known = job["owner"].known /\ k.outcome = "rejected"
      BY <1>0 DEF Job, Rule
    <3>2. Become("owner", k) /\ UNCHANGED history
      BY <1>2, <2>2 DEF OwnerPress, history
    <3> HIDE DEF k
    <3> QED BY <1>0, <2>0, <3>1, <3>2, MoveStep
  <2>3. ASSUME NEW s \in SettingsSeen("owner"), SettingsFor("owner", s),
               Become("owner", Rule([j EXCEPT !.snap = s], "persist",
                                    "approved", "owner", "applied"))
        PROVE  Sound'
    <3> DEFINE k == Rule([j EXCEPT !.snap = s], "persist", "approved", "owner",
                         "applied")
    <3>1. k.pc = "persist" /\ k.snap = s /\ k.by = "owner"
      BY <1>0 DEF Job, Rule
    <3>2. /\ Grows
          /\ s.widen => optedIn
          /\ Backed(s, optedIn', misread', granted')
      BY <1>0, <2>0, <2>3, SettingsForSound
    <3>3. JobSound("owner", k, optedIn', misread', granted')
      <4> HIDE DEF k
      <4> QED BY <3>1, <3>2 DEF JobSound, Grows
    <3>4. Become("owner", k)
      BY <2>3
    <3> HIDE DEF k
    <3> QED BY <1>0, <3>2, <3>3, <3>4, StepSound
  <2> QED BY <1>2, <2>1, <2>2, <2>3 DEF OwnerPress
<1>3. CASE OwnerKeep
  BY <1>0, <1>3, LocalGrows, FinishSound DEF OwnerKeep
<1>4. CASE OwnerToggle
  BY <1>4 DEF OwnerToggle, Sound, history
<1> QED BY <1>1, <1>2, <1>3, <1>4 DEF Owner

LEMMA DeskSound == ASSUME TypeOK, Sound, Desk PROVE Sound'
<1>1. CASE DeskStart
  <2> DEFINE j == [Idle EXCEPT !.pc = "save", !.snap = settings]
  <2>1. j.pc = "save" /\ j.snap = settings /\ j.outcome = ""
    BY DEF Idle
  <2>2. /\ Grows /\ UNCHANGED settings /\ Become("desk", j)
        /\ UNCHANGED history
    BY <1>1, LocalGrows DEF DeskStart, tables
  <2>3. /\ settings.widen => optedIn'
        /\ Backed(settings, optedIn', misread', granted')
    BY <2>2 DEF Sound, Backed, history
  <2> HIDE DEF j
  <2> QED BY <2>1, <2>2, <2>3, StartSound
<1>2. CASE DeskSave
  <2>0. /\ Finish("desk") /\ UNCHANGED misread
        /\ job["desk"].snap \in SettingsRow /\ At("desk", "save")
    BY <1>2 DEF DeskSave, TypeOK, Job
  <2>1. Backed(job["desk"].snap, optedIn, misread, granted)
    BY <2>0 DEF Sound, JobSound, At
  <2>2. ASSUME NEW f \in Fields, NEW v \in Levels, DeskLimit(f, v)
        PROVE  Grows /\ Backed(settings', optedIn', misread', granted')
    <3>1. /\ settings'.widen = job["desk"].snap.widen
          /\ \A g \in Fields : settings'.limit[g] =
                IF g = f THEN v ELSE job["desk"].snap.limit[g]
      BY <2>0, <2>2 DEF DeskLimit, SettingsRow
    <3>2. \A g \in Fields : granted'[g] =
                IF g = f THEN granted[g] \cup {v} ELSE granted[g]
      BY <2>2 DEF DeskLimit, TypeOK
    <3> QED BY <2>0, <2>1, <2>2, <3>1, <3>2 DEF Backed, Grows, DeskLimit
  <2>3. ASSUME NEW w \in BOOLEAN, NEW a \in BOOLEAN, DeskPolicy(w, a)
        PROVE  Grows /\ Backed(settings', optedIn', misread', granted')
    <3>1. settings'.widen = w /\ settings'.limit = job["desk"].snap.limit
      BY <2>0, <2>3 DEF DeskPolicy, SettingsRow
    <3> QED BY <2>0, <2>1, <2>3, <3>1 DEF Backed, Grows, DeskPolicy
  <2>4. ASSUME DeskReset
        PROVE  Grows /\ Backed(settings', optedIn', misread', granted')
    BY <2>0, <2>4 DEF DeskReset, Backed, Grows, DefaultSettings
  <2>5. Grows /\ Backed(settings', optedIn', misread', granted')
    BY <1>2, <2>2, <2>3, <2>4 DEF DeskSave
  <2> QED BY <2>0, <2>5, FinishSound
<1> QED BY <1>1, <1>2 DEF Desk

LEMMA WorldSound == ASSUME TypeOK, Sound, World PROVE Sound'
<1>1. CASE OpenTrade \/ MetricMove
  BY <1>1 DEF OpenTrade, MetricMove, tables, history, Sound
<1>2. CASE Tick \/ Restart
  <2>1. UNCHANGED <<settings, optedIn, misread, granted>>
    BY <1>2 DEF Tick, Restart, tables, history
  <2>2. ASSUME NEW p \in Proc
        PROVE  JobSound(p, job'[p], optedIn, misread, granted)
    <3>1. CASE Restart
      BY <3>1 DEF Restart, JobSound, Idle, DefaultSettings
    <3>2. CASE Tick /\ job'[p] = job[p]
      BY <3>2 DEF Sound
    <3>3. CASE Tick /\ job'[p] # job[p]
      <4> DEFINE j == [job[p] EXCEPT !.ticked = TRUE]
      <4>1. job'[p] = j
        BY <3>3 DEF Tick
      <4>2. /\ j.pc = job[p].pc /\ j.snap = job[p].snap
            /\ j.by = job[p].by /\ j.outcome = job[p].outcome
            /\ j.known = job[p].known
        BY DEF TypeOK, Job
      <4>3. JobSound(p, job[p], optedIn, misread, granted)
        BY DEF Sound
      <4> HIDE DEF j
      <4> QED BY <4>1, <4>2, <4>3 DEF JobSound
    <3> QED BY <1>2, <3>1, <3>2, <3>3
  <2> QED BY <2>1, <2>2 DEF Sound
<1> QED BY <1>1, <1>2 DEF World

LEMMA InitSound == Init => Sound
<1> SUFFICES ASSUME Init PROVE Sound
  OBVIOUS
<1>1. settings.limit = [f \in Fields |-> InitLimit]
  <2>1. PICK w \in InitWiden, a \in InitApply :
           settings = [limit |-> [f \in Fields |-> InitLimit],
                       widen |-> w, apply |-> a]
    BY DEF Init
  <2> QED BY <2>1
<1>2. Backed(settings, optedIn, misread, granted)
  BY <1>1 DEF Init, Backed
<1>3. \A p \in Proc : JobSound(p, job[p], optedIn, misread, granted)
  BY DEF Init, JobSound, Idle, DefaultSettings
<1> QED BY <1>2, <1>3 DEF Sound

LEMMA NextSound == TypeOK /\ Sound /\ [Next]_vars => Sound'
<1> SUFFICES ASSUME TypeOK, Sound, [Next]_vars PROVE Sound'
  OBVIOUS
<1>1. CASE UNCHANGED vars
  BY <1>1 DEF vars, Sound, tables, history
<1>2. CASE Next
  <2>1. \A p \in Proc : Settle(p) => Sound'
    BY FindSound, CheckQuotaSound, WeighSound, PersistSound, SettleRestSound
    DEF Settle
  <2>2. \A p \in Proc : Ask(p) => Sound'
    BY AskSound
  <2> QED
    BY <1>2, <2>1, <2>2, MonitorSound, GuardSound, OwnerSound, DeskSound,
       WorldSound DEF Next
<1> QED BY <1>1, <1>2

LEMMA AlwaysSound == Spec => [](TypeOK /\ Sound)
<1>1. Init => TypeOK /\ Sound
  BY InitType, InitSound
<1>2. TypeOK /\ Sound /\ [Next]_vars => (TypeOK /\ Sound)'
  BY NextType, NextSound
<1> QED BY <1>1, <1>2, PTL DEF Spec

\* With auto-widen never on and no read that fell back to the defaults, every
\* limit in force is one the owner chose: for any number of requests, presses,
\* saves, restarts and failed writes, whatever the interleaving.
THEOREM OwnerOnly == Spec => []OnlyGrantedLimits
<1>1. Sound => OnlyGrantedLimits
  BY DEF Sound, Backed, OnlyGrantedLimits
<1> QED BY <1>1, AlwaysSound, PTL

\* A step that lifts the pause is the owner's, or rests on the opt-in.
LEMMA UnpauseStep ==
    ASSUME TypeOK, Sound, [Next]_vars, paused, ~paused'
    PROVE  optedIn \/ At("owner", "resume") \/ job' = job
<1>1. ASSUME NEW p \in Proc, Resume(p)
      PROVE  optedIn \/ At("owner", "resume")
  BY <1>1 DEF Resume, At, Sound, JobSound
<1>2. ASSUME NEW p \in Proc, Settle(p) PROVE Resume(p)
  BY <1>2 DEF Settle, Find, CheckQuota, Weigh, Persist, Mark, Scan, Sweep,
              Swept, Recheck, tables, TypeOK
<1>3. ASSUME NEW p \in Proc, Ask(p) PROVE FALSE
  BY <1>3 DEF Ask, Capped, Look, Cool, Insert, Reread, tables
<1>4. CASE Monitor
  BY <1>4 DEF Monitor, MonitorStart, MonitorJudge, MonitorPause, MonitorAnswer,
              tables
<1>5. CASE Guard
  BY <1>5 DEF Guard, GuardStart, GuardHold, GuardStale, GuardRejudge,
              GuardAnswer, GuardClose, tables
<1>6. CASE Owner
  BY <1>6 DEF Owner, OwnerStart, OwnerPress, OwnerKeep, OwnerToggle, tables
<1>7. CASE Desk
  BY <1>7 DEF Desk, DeskStart, DeskSave, tables
<1>8. CASE World
  BY <1>8 DEF World, OpenTrade, MetricMove, Tick, Restart, tables
<1>9. CASE UNCHANGED vars
  BY <1>9 DEF vars, tables
<1> QED
  BY <1>1, <1>2, <1>3, <1>4, <1>5, <1>6, <1>7, <1>8, <1>9 DEF Next

\* With auto-widen never on, silence lifts no pause: every step that resumes
\* trading is the owner's approval or the owner's own /resume.
THEOREM NoSilentUnpause == Spec => NoSilentResume
<1>1. TypeOK /\ Sound /\ [Next]_vars =>
         [paused /\ ~paused' => optedIn \/ At("owner", "resume")
                                \/ job' = job]_vars
  BY UnpauseStep
<1> QED BY <1>1, AlwaysSound, PTL DEF Spec, NoSilentResume

(***************************************************************************)
(* Rows in hand                                                            *)
(*                                                                         *)
(* A row is marked long after it was read and inserted long after its      *)
(* place was taken.  Filed says what is still true of it then: a row about *)
(* to be ruled on is there, one about to be inserted is not, and only the  *)
(* owner rejects.                                                          *)
(***************************************************************************)
Ruling == Holding \cup {"mark"}

JobFiled(p, j, table, last) ==
    /\ j.pc \in Ruling => /\ j.row \in Ids /\ table[j.row].status # "absent"
                          /\ j.status \in {"approved", "rejected", "expired"}
    /\ j.pc = "insert" => j.row \in 1..last /\ table[j.row].status = "absent"
    /\ \A i \in j.others : table[i].status # "absent"
    /\ j.status = "rejected" \/ j.by = "owner" => p = "owner"
    /\ j.pc \in Holding /\ j.by = "owner" => table[j.row].status # "rejected"

Filed ==
    /\ \A i \in Ids : i > stamped => rows[i].status = "absent"
    /\ \A p \in Proc : JobFiled(p, job[p], rows, stamped)
    /\ \A p, q \in Proc : p # q /\ At(p, "insert") /\ At(q, "insert") =>
          job[p].row # job[q].row

LEMMA IdleFiled ==
    ASSUME NEW p \in Proc, NEW table, NEW last
    PROVE  JobFiled(p, Idle, table, last)
  BY DEF JobFiled, Idle, Ruling, Holding

LEMMA InitFiled == Init => Filed
<1> SUFFICES ASSUME Init PROVE Filed
  OBVIOUS
<1>1. \A i \in Ids : rows[i].status = "absent"
  BY DEF Init
<1>2. \A p \in Proc : job[p] = Idle /\ ~At(p, "insert")
  BY DEF Init, Idle, At
<1> QED BY <1>1, <1>2, IdleFiled DEF Filed

\* A step of p that touches no row and leaves a job the table bears out.
LEMMA StepFiled ==
    ASSUME TypeOK, Filed, NEW p \in Proc, NEW j, Become(p, j),
           UNCHANGED <<rows, stamped>>, j.pc # "insert",
           JobFiled(p, j, rows, stamped)
    PROVE  Filed'
<1>1. \A q \in Proc : job'[q] = IF q = p THEN j ELSE job[q]
  BY DEF Become, TypeOK
<1>2. \A q \in Proc : JobFiled(q, job'[q], rows', stamped')
  BY <1>1 DEF Filed
<1> QED BY <1>1, <1>2 DEF Filed, At

\* A job on its way elsewhere, with the ruling and the queue it had.
LEMMA CalmStep ==
    ASSUME TypeOK, Filed, NEW p \in Proc, NEW j, Become(p, j),
           UNCHANGED <<rows, stamped>>, j.pc \notin Ruling \cup {"insert"},
           j.others \subseteq job[p].others \/ j.others \subseteq Inserted,
           j.status = job[p].status \/ j.status = "absent",
           j.by = job[p].by \/ j.by = ""
    PROVE  Filed'
<1>1. JobFiled(p, job[p], rows, stamped)
  BY DEF Filed
<1>2. \A i \in j.others : rows[i].status # "absent"
  BY <1>1 DEF JobFiled, Inserted
<1>3. j.status = "rejected" \/ j.by = "owner" => p = "owner"
  BY <1>1 DEF JobFiled
<1>4. JobFiled(p, j, rows, stamped)
  BY <1>2, <1>3 DEF JobFiled, Ruling, Holding
<1> QED BY <1>4, StepFiled

LEMMA FinishFiled ==
    ASSUME TypeOK, Filed, NEW p \in Proc, Finish(p), UNCHANGED <<rows, stamped>>
    PROVE  Filed'
  BY CalmStep DEF Finish, Idle, Ruling, Holding

LEMMA GotoFiled ==
    ASSUME TypeOK, Filed, NEW p \in Proc, NEW l, Goto(p, l),
           UNCHANGED <<rows, stamped>>, l \notin Ruling \cup {"insert"}
    PROVE  Filed'
<1> DEFINE j == [job[p] EXCEPT !.pc = l]
<1>1. /\ j.pc = l /\ j.others = job[p].others
      /\ j.status = job[p].status /\ j.by = job[p].by
  BY DEF TypeOK, Job
<1>2. Become(p, j)
  BY DEF Goto
<1> HIDE DEF j
<1> QED BY <1>1, <1>2, CalmStep

LEMMA ReturnFiled ==
    ASSUME TypeOK, Filed, NEW p \in Proc, NEW o, Return(p, o),
           UNCHANGED <<rows, stamped>>
    PROVE  Filed'
<1>1. CASE Finish(p)
  BY <1>1, FinishFiled
<1>2. CASE Become(p, [job[p] EXCEPT !.pc = job[p].back, !.outcome = o])
  <2> DEFINE j == [job[p] EXCEPT !.pc = job[p].back, !.outcome = o]
  <2>1. /\ j.pc \in Calls /\ j.others = job[p].others
        /\ j.status = job[p].status /\ j.by = job[p].by
    BY DEF TypeOK, Job
  <2> HIDE DEF j
  <2> QED BY <1>2, <2>1, CalmStep DEF Calls, Ruling, Holding, j
<1> QED BY <1>1, <1>2 DEF Return

(***************************************************************************)
(* settle_expired and _approve                                             *)
(***************************************************************************)
LEMMA PendingThere ==
    /\ Newest(Pending) # NoRow =>
          Newest(Pending) \in Ids /\ rows[Newest(Pending)].status = "pending"
    /\ StalePending # NoRow =>
          StalePending \in Ids /\ rows[StalePending].status = "pending"
<1>1. Pending \in SUBSET Ids
  BY DEF Pending
<1>2. Newest(Pending) # NoRow => Newest(Pending) \in Pending
  BY <1>1, NewestIn
<1> QED BY <1>2 DEF Pending, StalePending

\* A ruling that is the policy's own is on a row that is there.
LEMMA RuleFiled ==
    ASSUME TypeOK, Filed, NEW p \in Proc, NEW k \in Job, k.row \in Ids,
           rows[k.row].status # "absent", k.others = job[p].others,
           NEW l \in {"scan", "quota", "weigh", "persist", "mark"},
           NEW status \in {"approved", "rejected", "expired"}, NEW by, NEW o,
           status = "rejected" \/ by = "owner" => p = "owner",
           l \in Holding /\ by = "owner" => rows[k.row].status # "rejected",
           Become(p, Rule(k, l, status, by, o)), UNCHANGED <<rows, stamped>>
    PROVE  Filed'
<1> DEFINE j == Rule(k, l, status, by, o)
<1>1. /\ j.pc = l /\ j.status = status /\ j.by = by /\ j.row = k.row
      /\ j.others = k.others
  BY DEF Rule, Job
<1>2. JobFiled(p, job[p], rows, stamped)
  BY DEF Filed
<1>3. JobFiled(p, j, rows, stamped)
  <2> HIDE DEF j
  <2> QED BY <1>1, <1>2 DEF JobFiled
<1> HIDE DEF j
<1> QED BY <1>1, <1>3, StepFiled DEF j

LEMMA FindFiled == ASSUME TypeOK, Filed, NEW p \in Proc, Find(p) PROVE Filed'
<1>0. UNCHANGED <<rows, stamped>>
  BY DEF Find, tables
<1>1. CASE Return(p, "none")
  BY <1>0, <1>1, ReturnFiled
<1>2. ASSUME NEW s \in SettingsSeen(p), StalePending # NoRow,
             Become(p, Planned([job[p] EXCEPT !.row = StalePending,
                                              !.snap = s], s))
      PROVE  Filed'
  <2> DEFINE k == [job[p] EXCEPT !.row = StalePending, !.snap = s]
  <2>1. k \in Job /\ k.row = StalePending /\ k.others = job[p].others
    <3>1. job[p] \in Job /\ s \in SettingsRow /\ StalePending \in Ids
      BY <1>2, PendingThere, DefaultType DEF TypeOK, SettingsSeen, Job
    <3>2. Ids \subseteq 0..MaxRows
      BY RowIds
    <3> QED BY <3>1, <3>2 DEF Job
  <2>2. StalePending \in Ids /\ rows[StalePending].status = "pending"
    BY <1>2, PendingThere
  <2>3. PICK l \in {"mark", "weigh", "quota"}, status \in {"approved", "expired"},
             by \in {"auto:kept", "auto:expired", "auto:once"}, o \in Outcomes :
           Planned(k, s) = Rule(k, l, status, by, o)
    BY DEF Planned, Plan, Outcomes
  <2>4. Become(p, Rule(k, l, status, by, o))
    BY <1>2, <2>3
  <2> HIDE DEF k
  <2> QED BY <1>0, <2>1, <2>2, <2>4, RuleFiled
<1> QED BY <1>1, <1>2 DEF Find

\* A ruling on the row the job has in hand already.
LEMMA InHandFiled ==
    ASSUME TypeOK, Filed, NEW p \in Proc, job[p].pc \in Ruling
    PROVE  /\ job[p] \in Job /\ job[p].row \in Ids
           /\ rows[job[p].row].status # "absent"
           /\ job[p].status \in {"approved", "rejected", "expired"}
           /\ job[p].status = "rejected" \/ job[p].by = "owner" => p = "owner"
  BY DEF TypeOK, Filed, JobFiled

LEMMA WeighingFiled ==
    ASSUME TypeOK, Filed, NEW p \in Proc, CheckQuota(p) \/ Weigh(p)
    PROVE  Filed'
<1>0. /\ UNCHANGED <<rows, stamped>> /\ job[p].pc \in {"quota", "weigh"}
      /\ job[p].pc \in Ruling
  BY DEF CheckQuota, Weigh, tables, At, Ruling, Holding
<1>1. ASSUME NEW by \in {"auto:capped", "auto:no-breach"}, NEW o,
             Become(p, Rule(job[p], "mark", "expired", by, o))
      PROVE  Filed'
  BY <1>0, <1>1, InHandFiled, RuleFiled
<1>2. ASSUME NEW l \in {"weigh", "persist"}, Goto(p, l) PROVE Filed'
  <2> DEFINE j == [job[p] EXCEPT !.pc = l]
  <2>1. /\ j.pc = l /\ j.row = job[p].row /\ j.others = job[p].others
        /\ j.status = job[p].status /\ j.by = job[p].by
    BY DEF TypeOK, Job
  <2>2. JobFiled(p, j, rows, stamped)
    <3> HIDE DEF j
    <3>1. JobFiled(p, job[p], rows, stamped)
      BY DEF Filed
    <3> QED BY <1>0, <1>2, <2>1, <3>1 DEF JobFiled, Ruling, Holding
  <2>3. Become(p, j)
    BY <1>2 DEF Goto
  <2> HIDE DEF j
  <2> QED BY <1>0, <1>2, <2>1, <2>2, <2>3, StepFiled
<1> QED BY <1>1, <1>2 DEF CheckQuota, Weigh

LEMMA PersistFiled == ASSUME TypeOK, Filed, NEW p \in Proc, Persist(p) PROVE Filed'
<1>0. /\ UNCHANGED <<rows, stamped>> /\ job[p].pc \in Ruling
  BY DEF Persist, At, Ruling, Holding
<1>1. ASSUME NEW j, Become(p, j), j.pc = "mark", j.row = job[p].row,
             j.others = job[p].others, j.status = job[p].status, j.by = job[p].by
      PROVE  Filed'
  <2>1. JobFiled(p, job[p], rows, stamped)
    BY DEF Filed
  <2>2. JobFiled(p, j, rows, stamped)
    BY <1>0, <1>1, <2>1 DEF JobFiled, Ruling, Holding
  <2> QED BY <1>0, <1>1, <2>2, StepFiled
<1>2. CASE Become(p, [job[p] EXCEPT !.pc = "mark", !.outcome = "skipped"])
  <2> DEFINE j == [job[p] EXCEPT !.pc = "mark", !.outcome = "skipped"]
  <2>1. /\ j.pc = "mark" /\ j.row = job[p].row /\ j.others = job[p].others
        /\ j.status = job[p].status /\ j.by = job[p].by
    BY DEF TypeOK, Job
  <2> HIDE DEF j
  <2> QED BY <1>1, <1>2, <2>1 DEF j
<1>3. CASE Goto(p, "mark")
  <2> DEFINE j == [job[p] EXCEPT !.pc = "mark"]
  <2>1. /\ j.pc = "mark" /\ j.row = job[p].row /\ j.others = job[p].others
        /\ j.status = job[p].status /\ j.by = job[p].by
    BY DEF TypeOK, Job
  <2>2. Become(p, j)
    BY <1>3 DEF Goto
  <2> HIDE DEF j
  <2> QED BY <1>1, <2>1, <2>2
<1>4. CASE Return(p, "failed")
  BY <1>0, <1>4, ReturnFiled
<1> QED BY <1>2, <1>3, <1>4 DEF Persist

(***************************************************************************)
(* Writes to the table                                                     *)
(***************************************************************************)
\* The write p makes never unfiles a row, files none but the one it holds a
\* place for, and rejects none but as the owner.
WrittenBy(p) ==
    /\ \A i \in Ids : rows[i].status # "absent" => rows'[i].status # "absent"
    /\ \A i \in Ids : rows[i].status = "absent" /\ rows'[i].status # "absent"
                         => At(p, "insert") /\ i = job[p].row
    /\ \A i \in Ids : rows'[i].status = "rejected"
                         => rows[i].status = "rejected" \/ p = "owner"

LEMMA WriteFiled ==
    ASSUME TypeOK, Filed, NEW p \in Proc, NEW j, Become(p, j), UNCHANGED stamped,
           WrittenBy(p), j.pc \notin Ruling \cup {"insert"},
           j.others \subseteq job[p].others,
           j.status = job[p].status, j.by = job[p].by
    PROVE  Filed'
<1>1. \A q \in Proc : job'[q] = IF q = p THEN j ELSE job[q]
  BY DEF Become, TypeOK
<1>2. \A q \in Proc : job[q] \in Job /\ job[q].others \subseteq Ids
                      /\ JobFiled(q, job[q], rows, stamped)
  BY DEF TypeOK, Job, Filed
<1>3. JobFiled(p, j, rows', stamped')
  BY <1>2 DEF JobFiled, WrittenBy, Ruling
<1>4. ASSUME NEW q \in Proc, q # p PROVE JobFiled(q, job[q], rows', stamped')
  <2>1. job[q].pc = "insert" => job[q].row \in 1..stamped
                                /\ rows'[job[q].row].status = "absent"
    <3> SUFFICES ASSUME job[q].pc = "insert"
                 PROVE  job[q].row \in 1..stamped
                        /\ rows'[job[q].row].status = "absent"
      OBVIOUS
    <3>1. job[q].row \in 1..stamped /\ rows[job[q].row].status = "absent"
      BY <1>2 DEF JobFiled
    <3>2. job[q].row \in Ids
      BY <3>1, LimitExpandAssumption DEF TypeOK, Ids
    <3>3. At(p, "insert") => job[p].row # job[q].row
      BY <1>4 DEF Filed, At
    <3> QED BY <3>1, <3>2, <3>3 DEF WrittenBy
  <2>2. job[q].pc \in Holding => job[q].row \in Ids
    BY <1>2 DEF Job
  <2>3. job[q].pc \in Holding /\ job[q].by = "owner"
           => rows'[job[q].row].status # "rejected"
    BY <1>2, <1>4, <2>2 DEF JobFiled, WrittenBy
  <2>4. job[q].pc \in Ruling => job[q].row \in Ids
                                /\ rows'[job[q].row].status # "absent"
                                /\ job[q].status \in {"approved", "rejected",
                                                      "expired"}
    BY <1>2 DEF JobFiled, WrittenBy
  <2>5. \A i \in job[q].others : rows'[i].status # "absent"
    BY <1>2 DEF JobFiled, WrittenBy
  <2> QED BY <1>2, <2>1, <2>3, <2>4, <2>5 DEF JobFiled
<1>5. \A i \in Ids : i > stamped => rows'[i].status = "absent"
  <2> SUFFICES ASSUME NEW i \in Ids, i > stamped, rows'[i].status # "absent"
               PROVE  FALSE
    OBVIOUS
  <2>1. rows[i].status = "absent"
    BY DEF Filed
  <2>2. At(p, "insert") /\ i = job[p].row
    BY <2>1 DEF WrittenBy
  <2>3. i \in 1..stamped
    BY <1>2, <2>2 DEF JobFiled, At
  <2> QED BY <2>3 DEF TypeOK
<1> QED BY <1>1, <1>3, <1>4, <1>5 DEF Filed, At

LEMMA MarkFiled == ASSUME TypeOK, Filed, NEW p \in Proc, Mark(p) PROVE Filed'
<1>0. /\ UNCHANGED stamped /\ job[p].pc \in Ruling /\ Goto(p, "scan")
  BY DEF Mark, At, Ruling, Holding
<1>1. CASE UNCHANGED rows
  BY <1>0, <1>1, GotoFiled DEF Ruling, Holding
<1>2. CASE rows' = [rows EXCEPT ![job[p].row].status = job[p].status,
                                ![job[p].row].by = job[p].by]
  <2>1. /\ job[p].row \in Ids /\ rows[job[p].row].status # "absent"
        /\ job[p].status \in {"approved", "rejected", "expired"}
        /\ job[p].status = "rejected" => p = "owner"
        /\ job[p] \in Job
    BY <1>0, InHandFiled
  <2>2. \A k \in Ids : rows'[k].status = IF k = job[p].row THEN job[p].status
                                         ELSE rows[k].status
    BY <1>2, <2>1 DEF TypeOK, Request
  <2>3. WrittenBy(p)
    BY <2>1, <2>2 DEF WrittenBy
  <2> DEFINE j == [job[p] EXCEPT !.pc = "scan"]
  <2>4. /\ j.pc = "scan" /\ j.others = job[p].others
        /\ j.status = job[p].status /\ j.by = job[p].by /\ Become(p, j)
    BY <1>0, <2>1 DEF Job, Goto
  <2> HIDE DEF j
  <2> QED BY <1>0, <2>3, <2>4, WriteFiled DEF Ruling, Holding
<1> QED BY <1>1, <1>2 DEF Mark

LEMMA SweepFiled == ASSUME TypeOK, Filed, NEW p \in Proc, Sweep(p) PROVE Filed'
<1> DEFINE i == Newest(job[p].others)
           j == [job[p] EXCEPT !.others = @ \ {i}]
<1>1. /\ i \in job[p].others /\ job[p] \in Job /\ job[p].others \in SUBSET Ids
  <2>1. job[p] \in Job /\ job[p].others \in SUBSET Ids /\ job[p].others # {}
    BY DEF Sweep, TypeOK, Job
  <2> QED BY <2>1, NewestIn
<1>2. /\ j.pc = "sweep" /\ j.others = job[p].others \ {i}
      /\ j.status = job[p].status /\ j.by = job[p].by
  BY <1>1 DEF Job, Sweep, At
<1>3. Become(p, j) /\ UNCHANGED stamped
  BY DEF Sweep
<1>4. CASE UNCHANGED rows
  <2> HIDE DEF j
  <2> QED BY <1>2, <1>3, <1>4, CalmStep DEF Ruling, Holding
<1>5. CASE rows' = [rows EXCEPT ![i].status = "superseded",
                                ![i].by = "auto:superseded"]
  <2> HIDE DEF i
  <2>1. i \in Ids /\ rows[i].status # "absent"
    BY <1>1 DEF Filed, JobFiled
  <2>2. \A k \in Ids : rows'[k].status = IF k = i THEN "superseded"
                                         ELSE rows[k].status
    BY <1>5, <2>1 DEF TypeOK, Request
  <2>3. WrittenBy(p)
    BY <2>1, <2>2 DEF WrittenBy
  <2> HIDE DEF j
  <2> QED BY <1>2, <1>3, <2>3, WriteFiled DEF Ruling, Holding
<1> QED BY <1>4, <1>5 DEF Sweep

LEMMA SettleFiled == ASSUME TypeOK, Filed, NEW p \in Proc, Settle(p) PROVE Filed'
<1>1. CASE Scan(p)
  <2> DEFINE j == [job[p] EXCEPT !.pc = "sweep",
                                 !.others = Siblings(job[p].row)]
  <2>1. /\ j.pc = "sweep" /\ j.others = Siblings(job[p].row)
        /\ j.status = job[p].status /\ j.by = job[p].by
    BY DEF TypeOK, Job
  <2>2. Become(p, j) /\ UNCHANGED <<rows, stamped>>
    BY <1>1 DEF Scan, tables
  <2>3. Siblings(job[p].row) \subseteq Inserted
    BY DEF Siblings, Pending, Inserted
  <2> HIDE DEF j
  <2> QED BY <2>1, <2>2, <2>3, CalmStep DEF Ruling, Holding
<1>2. CASE Swept(p)
  <2>1. UNCHANGED <<rows, stamped>>
    BY <1>2 DEF Swept, tables
  <2> QED BY <1>2, <2>1, GotoFiled, ReturnFiled DEF Swept, Ruling, Holding
<1>3. CASE Resume(p)
  BY <1>3, GotoFiled DEF Resume, Ruling, Holding
<1>4. CASE Recheck(p)
  BY <1>4, ReturnFiled DEF Recheck
<1> QED BY <1>1, <1>2, <1>3, <1>4, FindFiled, WeighingFiled, PersistFiled,
           MarkFiled, SweepFiled DEF Settle

(***************************************************************************)
(* request_and_notify                                                      *)
(***************************************************************************)

LEMMA InsertFiled == ASSUME TypeOK, Filed, NEW p \in Proc, Insert(p) PROVE Filed'
<1>0. UNCHANGED stamped /\ Goto(p, "reread") /\ At(p, "insert")
  BY DEF Insert
<1>1. CASE UNCHANGED rows
  BY <1>0, <1>1, GotoFiled DEF Ruling, Holding
<1>2. CASE rows' = [rows EXCEPT ![job[p].row].status = "pending",
                                ![job[p].row].new = job[p].quote]
  <2>1. job[p] \in Job /\ job[p].row \in Ids
    BY <1>0, LimitExpandAssumption DEF TypeOK, Filed, JobFiled, At, Ids
  <2>2. \A k \in Ids : rows'[k].status = IF k = job[p].row THEN "pending"
                                         ELSE rows[k].status
    BY <1>2, <2>1 DEF TypeOK, Request
  <2>3. WrittenBy(p)
    BY <1>0, <2>1, <2>2 DEF WrittenBy
  <2> DEFINE j == [job[p] EXCEPT !.pc = "reread"]
  <2>4. /\ j.pc = "reread" /\ j.others = job[p].others
        /\ j.status = job[p].status /\ j.by = job[p].by /\ Become(p, j)
    BY <1>0, <2>1 DEF Job, Goto
  <2> HIDE DEF j
  <2> QED BY <1>0, <2>3, <2>4, WriteFiled DEF Ruling, Holding
<1> QED BY <1>1, <1>2 DEF Insert

\* the place a new row takes is its own
LEMMA StampFiled ==
    ASSUME TypeOK, Filed, NEW p \in Proc, UNCHANGED rows, stamped < MaxRows,
           stamped' = stamped + 1,
           Become(p, [job[p] EXCEPT !.pc = "insert", !.row = stamped + 1])
    PROVE  Filed'
<1> DEFINE j == [job[p] EXCEPT !.pc = "insert", !.row = stamped + 1]
<1>1. /\ j.pc = "insert" /\ j.row = stamped + 1 /\ j.others = job[p].others
      /\ j.status = job[p].status /\ j.by = job[p].by
  BY DEF TypeOK, Job
<1>2. \A q \in Proc : job'[q] = IF q = p THEN j ELSE job[q]
  BY DEF Become, TypeOK
<1> HIDE DEF j
<1>3. stamped \in Nat /\ stamped + 1 \in Ids /\ MaxRows \in Nat
  <2>1. stamped \in 0..MaxRows
    BY DEF TypeOK
  <2> QED BY <2>1, LimitExpandAssumption DEF Ids
<1>4. \A i \in Ids : i > stamped' => rows'[i].status = "absent"
  BY <1>3 DEF Filed, Ids
<1>5. \A q \in Proc : JobFiled(q, job[q], rows, stamped)
  BY DEF Filed
<1>6. rows[stamped + 1].status = "absent"
  BY <1>3 DEF Filed
<1>7. JobFiled(p, j, rows', stamped')
  BY <1>1, <1>3, <1>5, <1>6 DEF JobFiled, Ruling, Holding
<1>8. ASSUME NEW q \in Proc, q # p
      PROVE  /\ JobFiled(q, job[q], rows', stamped')
             /\ At(q, "insert") => job[q].row # stamped + 1
  BY <1>3, <1>5 DEF JobFiled, At
<1> QED BY <1>1, <1>2, <1>4, <1>7, <1>8 DEF Filed, At

LEMMA AskFiled == ASSUME TypeOK, Filed, NEW p \in Proc, Ask(p) PROVE Filed'
<1>0. job[p] \in Job
  BY DEF TypeOK
<1>1. CASE Capped(p)
  <2>0. UNCHANGED <<rows, stamped>>
    BY <1>1 DEF Capped, tables
  <2>1. CASE Become(p, [job[p] EXCEPT !.pc = "look", !.back = "answer"])
    <3> DEFINE j == [job[p] EXCEPT !.pc = "look", !.back = "answer"]
    <3>1. /\ j.pc = "look" /\ j.others = job[p].others
          /\ j.status = job[p].status /\ j.by = job[p].by
      BY <1>0 DEF Job
    <3> HIDE DEF j
    <3> QED BY <2>0, <2>1, <3>1, CalmStep DEF Ruling, Holding, j
  <2>2. ASSUME NEW o,
               Become(p, [job[p] EXCEPT !.pc = "answer", !.outcome = o])
        PROVE  Filed'
    <3> DEFINE j == [job[p] EXCEPT !.pc = "answer", !.outcome = o]
    <3>1. /\ j.pc = "answer" /\ j.others = job[p].others
          /\ j.status = job[p].status /\ j.by = job[p].by
      BY <1>0 DEF Job
    <3> HIDE DEF j
    <3> QED BY <2>0, <2>2, <3>1, CalmStep DEF Ruling, Holding, j
  <2> QED BY <1>1, <2>1, <2>2 DEF Capped
<1>2. CASE Look(p)
  <2>0. UNCHANGED <<rows, stamped>>
    BY <1>2 DEF Look, tables
  <2>1. CASE Become(p, [job[p] EXCEPT !.pc = "cool",
                                      !.quote = Quote(job[p].snap)])
    <3> DEFINE j == [job[p] EXCEPT !.pc = "cool", !.quote = Quote(job[p].snap)]
    <3>1. /\ j.pc = "cool" /\ j.others = job[p].others
          /\ j.status = job[p].status /\ j.by = job[p].by
      BY <1>0 DEF Job
    <3> HIDE DEF j
    <3> QED BY <2>0, <2>1, <3>1, CalmStep DEF Ruling, Holding, j
  <2> QED BY <1>2, <2>0, <2>1, ReturnFiled DEF Look
<1>3. CASE Cool(p)
  BY <1>3, ReturnFiled, GotoFiled, StampFiled DEF Cool, Ruling, Holding
<1>4. CASE Reread(p)
  <2>0. UNCHANGED <<rows, stamped>>
    BY <1>4 DEF Reread, tables
  <2>1. CASE Become(p, [job[p] EXCEPT !.pc = "scan", !.row = PendingRequest,
                                      !.outcome = "created"])
    <3> DEFINE j == [job[p] EXCEPT !.pc = "scan", !.row = PendingRequest,
                                   !.outcome = "created"]
    <3>1. /\ j.pc = "scan" /\ j.others = job[p].others
          /\ j.status = job[p].status /\ j.by = job[p].by
      BY <1>0 DEF Job
    <3> HIDE DEF j
    <3> QED BY <2>0, <2>1, <3>1, CalmStep DEF Ruling, Holding, j
  <2> QED BY <1>4, <2>0, <2>1, ReturnFiled DEF Reread
<1> QED BY <1>1, <1>2, <1>3, <1>4, InsertFiled DEF Ask

(***************************************************************************)
(* The four callers                                                        *)
(***************************************************************************)
\* A flow that begins has nothing in hand.
LEMMA FreshStep ==
    ASSUME TypeOK, Filed, NEW p \in Proc, NEW j, Become(p, j),
           UNCHANGED <<rows, stamped>>, j.pc \notin Ruling \cup {"insert"},
           j.others = {}, j.status = "absent", j.by = ""
    PROVE  Filed'
  BY CalmStep

LEMMA MonitorFiled == ASSUME TypeOK, Filed, Monitor PROVE Filed'
<1>0. "monitor" \in Proc /\ job["monitor"] \in Job /\ UNCHANGED <<rows, stamped>>
  BY DEF Monitor, MonitorStart, MonitorJudge, MonitorPause, MonitorAnswer,
         tables, TypeOK, Proc
<1>1. CASE MonitorStart
  <2> DEFINE j == [Idle EXCEPT !.pc = "find", !.snap = settings, !.back = "judge"]
  <2>1. j.pc = "find" /\ j.others = {} /\ j.status = "absent" /\ j.by = ""
    BY DEF Idle
  <2>2. Become("monitor", j)
    BY <1>1 DEF MonitorStart
  <2> HIDE DEF j
  <2> QED BY <1>0, <2>1, <2>2, FreshStep DEF Ruling, Holding
<1>2. ASSUME NEW s, Become("monitor", [job["monitor"] EXCEPT !.pc = "pause",
                                                             !.snap = s])
      PROVE  Filed'
  <2> DEFINE j == [job["monitor"] EXCEPT !.pc = "pause", !.snap = s]
  <2>1. /\ j.pc = "pause" /\ j.others = job["monitor"].others
        /\ j.status = job["monitor"].status /\ j.by = job["monitor"].by
    BY <1>0 DEF Job
  <2> HIDE DEF j
  <2> QED BY <1>0, <1>2, <2>1, CalmStep DEF Ruling, Holding, j
<1>3. CASE MonitorJudge
  BY <1>0, <1>2, <1>3, FinishFiled DEF MonitorJudge
<1>4. CASE MonitorPause
  <2> DEFINE j == [job["monitor"] EXCEPT !.pc = "find", !.back = "capped?"]
  <2>1. /\ j.pc = "find" /\ j.others = job["monitor"].others
        /\ j.status = job["monitor"].status /\ j.by = job["monitor"].by
    BY <1>0 DEF Job
  <2>2. Become("monitor", j)
    BY <1>4 DEF MonitorPause
  <2> HIDE DEF j
  <2> QED BY <1>0, <2>1, <2>2, CalmStep DEF Ruling, Holding
<1>5. CASE MonitorAnswer
  BY <1>0, <1>5, FinishFiled DEF MonitorAnswer
<1> QED BY <1>1, <1>3, <1>4, <1>5 DEF Monitor

LEMMA GuardFiled == ASSUME TypeOK, Filed, Guard PROVE Filed'
<1>0. "guard" \in Proc /\ job["guard"] \in Job /\ UNCHANGED <<rows, stamped>>
  BY DEF Guard, GuardStart, GuardHold, GuardStale, GuardRejudge, GuardAnswer,
         GuardClose, tables, TypeOK, Proc
<1>1. CASE GuardStart
  <2>1. CASE Become("guard", [Idle EXCEPT !.pc = "hold", !.snap = settings])
    <3> DEFINE j == [Idle EXCEPT !.pc = "hold", !.snap = settings]
    <3>1. j.pc = "hold" /\ j.others = {} /\ j.status = "absent" /\ j.by = ""
      BY DEF Idle
    <3> HIDE DEF j
    <3> QED BY <1>0, <2>1, <3>1, FreshStep DEF Ruling, Holding, j
  <2>2. CASE Become("guard", [Idle EXCEPT !.pc = "hold", !.known = FALSE])
    <3> DEFINE j == [Idle EXCEPT !.pc = "hold", !.known = FALSE]
    <3>1. j.pc = "hold" /\ j.others = {} /\ j.status = "absent" /\ j.by = ""
      BY DEF Idle
    <3> HIDE DEF j
    <3> QED BY <1>0, <2>2, <3>1, FreshStep DEF Ruling, Holding, j
  <2> QED BY <1>1, <2>1, <2>2 DEF GuardStart
<1>2. CASE GuardHold \/ GuardAnswer \/ GuardClose
  BY <1>0, <1>2, FinishFiled, GotoFiled
  DEF GuardHold, GuardAnswer, GuardClose, Ruling, Holding
<1>3. CASE GuardStale
  <2>1. ASSUME NEW l, Become("guard", [job["guard"] EXCEPT !.pc = "find",
                                                           !.back = l])
        PROVE  Filed'
    <3> DEFINE j == [job["guard"] EXCEPT !.pc = "find", !.back = l]
    <3>1. /\ j.pc = "find" /\ j.others = job["guard"].others
          /\ j.status = job["guard"].status /\ j.by = job["guard"].by
      BY <1>0 DEF Job
    <3> HIDE DEF j
    <3> QED BY <1>0, <2>1, <3>1, CalmStep DEF Ruling, Holding, j
  <2> QED BY <1>0, <1>3, <2>1, FinishFiled DEF GuardStale
<1>4. CASE GuardRejudge
  <2>1. ASSUME NEW s, NEW k,
               Become("guard", [job["guard"] EXCEPT !.pc = "close", !.snap = s,
                                                    !.known = k])
        PROVE  Filed'
    <3> DEFINE j == [job["guard"] EXCEPT !.pc = "close", !.snap = s, !.known = k]
    <3>1. /\ j.pc = "close" /\ j.others = job["guard"].others
          /\ j.status = job["guard"].status /\ j.by = job["guard"].by
      BY <1>0 DEF Job
    <3> HIDE DEF j
    <3> QED BY <1>0, <2>1, <3>1, CalmStep DEF Ruling, Holding, j
  <2>2. CASE Goto("guard", "close")
    BY <1>0, <2>2, GotoFiled DEF Ruling, Holding
  <2> QED BY <1>0, <1>4, <2>1, <2>2, FinishFiled DEF GuardRejudge
<1> QED BY <1>1, <1>2, <1>3, <1>4 DEF Guard

LEMMA OwnerFiled == ASSUME TypeOK, Filed, Owner PROVE Filed'
<1>0. "owner" \in Proc /\ job["owner"] \in Job /\ UNCHANGED <<rows, stamped>>
  BY DEF Owner, OwnerStart, OwnerPress, OwnerKeep, OwnerToggle, tables, TypeOK,
         Proc
<1>1. ASSUME NEW d, OwnerStart(d) PROVE Filed'
  <2>1. PICK s \in {settings, DefaultSettings}, ui \in BOOLEAN :
           Become("owner", [Idle EXCEPT !.pc = "find", !.snap = s,
                              !.back = "press", !.known = ui, !.word = d])
    BY <1>1 DEF OwnerStart
  <2> DEFINE j == [Idle EXCEPT !.pc = "find", !.snap = s, !.back = "press",
                               !.known = ui, !.word = d]
  <2>2. j.pc = "find" /\ j.others = {} /\ j.status = "absent" /\ j.by = ""
    BY DEF Idle
  <2>3. Become("owner", j)
    BY <2>1
  <2> HIDE DEF j
  <2> QED BY <1>0, <2>2, <2>3, FreshStep DEF Ruling, Holding
<1>2. CASE OwnerPress
  <2> DEFINE i == Newest(Pending)
             k == [job["owner"] EXCEPT !.row = i, !.back = "idle"]
  <2>1. CASE Finish("owner")
    BY <1>0, <2>1, FinishFiled
  <2>2. ASSUME i # NoRow, NEW s \in SettingsRow,
               NEW l \in {"mark", "persist"},
               NEW status \in {"approved", "rejected"}, NEW o,
               Become("owner", Rule([k EXCEPT !.snap = s], l, status, "owner", o))
        PROVE  Filed'
    <3> DEFINE h == [k EXCEPT !.snap = s]
    <3>1. i \in Ids /\ rows[i].status = "pending" /\ i \in 0..MaxRows
      BY <2>2, PendingThere, RowIds
    <3>2. h \in Job /\ h.row = i /\ h.others = job["owner"].others
      <4> HIDE DEF i
      <4> QED BY <1>0, <3>1 DEF Job, Calls
    <3>3. Become("owner", Rule(h, l, status, "owner", o))
      BY <2>2
    <3> HIDE DEF h, k, i
    <3> QED BY <1>0, <2>2, <3>1, <3>2, <3>3, RuleFiled
  <2>3. CASE i # NoRow /\ Become("owner", Rule(k, "mark", "rejected", "owner",
                                               "rejected"))
    <3>1. k = [k EXCEPT !.snap = k.snap] /\ k.snap \in SettingsRow
      BY <1>0 DEF Job
    <3> QED BY <2>2, <2>3, <3>1
  <2>4. \A s \in SettingsSeen("owner") : s \in SettingsRow
    BY <1>0, DefaultType DEF SettingsSeen, TypeOK, Job
  <2>5. CASE i # NoRow /\ \E s \in SettingsSeen("owner") :
                Become("owner", Rule([k EXCEPT !.snap = s], "persist",
                                     "approved", "owner", "applied"))
    BY <2>2, <2>4, <2>5
  <2>6. \/ Finish("owner")
        \/ i # NoRow /\ Become("owner", Rule(k, "mark", "rejected", "owner",
                                             "rejected"))
        \/ i # NoRow /\ \E s \in SettingsSeen("owner") :
                Become("owner", Rule([k EXCEPT !.snap = s], "persist",
                                     "approved", "owner", "applied"))
    <3>1. k.row = i
      <4> HIDE DEF i
      <4> QED BY <1>0 DEF Job
    <3> QED BY <1>2, <3>1 DEF OwnerPress
  <2> QED BY <2>1, <2>3, <2>5, <2>6
<1>3. CASE OwnerKeep
  BY <1>0, <1>3, FinishFiled DEF OwnerKeep
<1>4. CASE OwnerToggle
  BY <1>4 DEF OwnerToggle, Filed, At
<1> QED BY <1>1, <1>2, <1>3, <1>4 DEF Owner

LEMMA DeskFiled == ASSUME TypeOK, Filed, Desk PROVE Filed'
<1>0. "desk" \in Proc
  BY DEF Proc
<1>1. CASE DeskStart
  <2> DEFINE j == [Idle EXCEPT !.pc = "save", !.snap = settings]
  <2>1. j.pc = "save" /\ j.others = {} /\ j.status = "absent" /\ j.by = ""
    BY DEF Idle
  <2>2. Become("desk", j) /\ UNCHANGED <<rows, stamped>>
    BY <1>1 DEF DeskStart, tables
  <2> HIDE DEF j
  <2> QED BY <1>0, <2>1, <2>2, FreshStep DEF Ruling, Holding
<1>2. CASE DeskSave
  BY <1>0, <1>2, FinishFiled DEF DeskSave
<1> QED BY <1>1, <1>2 DEF Desk

LEMMA WorldFiled == ASSUME TypeOK, Filed, World PROVE Filed'
<1>1. CASE OpenTrade \/ MetricMove
  BY <1>1 DEF OpenTrade, MetricMove, tables, Filed, At
<1>2. CASE Tick
  <2>1. /\ \A i \in Ids : rows'[i].status = rows[i].status
        /\ UNCHANGED stamped
    BY <1>2 DEF Tick, TypeOK, Request
  <2>2. \A p \in Proc : /\ job'[p].pc = job[p].pc /\ job'[p].row = job[p].row
                        /\ job'[p].others = job[p].others
                        /\ job'[p].status = job[p].status
                        /\ job'[p].by = job[p].by
    BY <1>2 DEF Tick, TypeOK, Job
  <2>3. \A p \in Proc : JobFiled(p, job'[p], rows', stamped')
    <3>1. TAKE p \in Proc
    <3>2. /\ job[p].others \in SUBSET Ids
          /\ job[p].pc = "insert" => job[p].row \in Ids
      BY LimitExpandAssumption DEF TypeOK, Job, Filed, JobFiled, Ids
    <3>3. JobFiled(p, job[p], rows, stamped)
      BY DEF Filed
    <3>4. job[p].pc \in Holding => job[p].row \in Ids
      BY DEF TypeOK, Job
    <3> QED BY <2>1, <2>2, <3>2, <3>3, <3>4 DEF JobFiled
  <2> QED BY <2>1, <2>2, <2>3 DEF Filed, At
<1>3. CASE Restart
  <2>1. /\ \A p \in Proc : job'[p] = Idle
        /\ UNCHANGED <<rows, stamped>>
    BY <1>3 DEF Restart, tables
  <2>2. Idle.pc = "idle"
    BY DEF Idle
  <2> QED BY <2>1, <2>2, IdleFiled DEF Filed, At
<1> QED BY <1>1, <1>2, <1>3 DEF World

LEMMA NextFiled == TypeOK /\ Filed /\ [Next]_vars => Filed'
<1> SUFFICES ASSUME TypeOK, Filed, [Next]_vars PROVE Filed'
  OBVIOUS
<1>1. CASE UNCHANGED vars
  BY <1>1 DEF vars, tables, Filed, At
<1>2. CASE Next
  <2>1. \A p \in {"monitor", "guard", "owner"} : p \in Proc
    BY DEF Proc
  <2> QED BY <1>2, <2>1, SettleFiled, AskFiled, MonitorFiled, GuardFiled,
             OwnerFiled, DeskFiled, WorldFiled DEF Next
<1> QED BY <1>1, <1>2

LEMMA AlwaysFiled == Spec => [](TypeOK /\ Sound /\ Filed)
<1>1. TypeOK /\ Filed /\ [Next]_vars => Filed'
  BY NextFiled
<1> QED BY <1>1, InitFiled, AlwaysSound, PTL DEF Spec

\* With auto-widen never on, a "no" holds: no process, whatever it read before
\* the owner rejected a request, is about to write the limits of that request.
THEOREM NoIsNo == Spec => []RejectionHolds
<1>1. TypeOK /\ Sound /\ Filed => RejectionHolds
  <2> SUFFICES ASSUME Sound, Filed, NEW p \in Proc, At(p, "persist"), ~optedIn
               PROVE  rows[job[p].row].status # "rejected"
    BY DEF RejectionHolds
  <2>1. job[p].by = "owner"
    BY DEF Sound, JobSound, At
  <2> QED BY <2>1 DEF Filed, JobFiled, At, Holding
<1> QED BY <1>1, AlwaysFiled, PTL

(***************************************************************************)
(* One question at a time                                                  *)
(*                                                                         *)
(* Two requests are pending while two askers race: neither saw the row of  *)
(* the other when it looked.  Attended says that such a pair always has a  *)
(* process on its way to close one of the two: it inserted one of them and *)
(* is about to read the queue again, or it is about to sweep the queue.    *)
(* The read finds a question still open because the row just inserted is   *)
(* at most a tick old and no row is older than those before it: Young.     *)
(***************************************************************************)
Late(j) == IF j.ticked THEN 1 ELSE 0

Young ==
    /\ \A i, k \in Ids : i <= k => rows[k].age <= rows[i].age
    /\ \A i \in Ids : i > stamped => rows[i].age = 0
    /\ \A p \in Proc : At(p, "insert") => rows[job[p].row].age <= Late(job[p])

Attends(p, i, k) ==
    \/ At(p, "reread") /\ job[p].row \in {i, k}
                       /\ rows[job[p].row].age <= Late(job[p])
    \/ At(p, "scan")
    \/ At(p, "sweep") /\ job[p].others \cap {i, k} # {}

Attended ==
    faults = 0 /\ restarts = 0 =>
       \A i, k \in Pending : i # k => \E p \in Proc : Attends(p, i, k)

\* A step of p that neither touches the queue nor leaves it unattended.
Elsewhere(p) ==
    /\ UNCHANGED <<rows, stamped>>
    /\ job[p].pc \notin {"reread", "scan"}
    /\ At(p, "sweep") => job[p].others = {}
    /\ job'[p].pc # "insert"

StepOf(p) ==
    /\ \A q \in Proc : q # p => job'[q] = job[q]
    /\ \/ Mark(p) \/ Scan(p) \/ Sweep(p) \/ Cool(p) \/ Insert(p) \/ Reread(p)
       \/ Elsewhere(p)

LEMMA InitAttended == Init => Young /\ Attended
<1> SUFFICES ASSUME Init PROVE Young /\ Attended
  OBVIOUS
<1>1. \A i \in Ids : rows[i].status = "absent" /\ rows[i].age = 0
  BY DEF Init
<1>2. \A p \in Proc : ~At(p, "insert")
  BY DEF Init, Idle, At
<1> QED BY <1>1, <1>2 DEF Young, Attended, Pending

(***************************************************************************)
(* Who moves, and where to                                                 *)
(***************************************************************************)
LEMMA BecomeMoves ==
    ASSUME TypeOK, NEW p \in Proc, NEW j, Become(p, j)
    PROVE  job'[p] = j /\ \A q \in Proc : q # p => job'[q] = job[q]
  BY DEF Become, TypeOK

LEMMA FinishMoves ==
    ASSUME TypeOK, NEW p \in Proc, Finish(p)
    PROVE  job'[p] = Idle /\ job'[p].pc = "idle"
<1>1. Idle.pc = "idle" BY DEF Idle
<1> QED BY <1>1, BecomeMoves DEF Finish

LEMMA GotoMoves ==
    ASSUME TypeOK, NEW p \in Proc, NEW l, Goto(p, l)
    PROVE  /\ job'[p].pc = l /\ job'[p].row = job[p].row
           /\ job'[p].ticked = job[p].ticked /\ job'[p].others = job[p].others
<1> DEFINE j == [job[p] EXCEPT !.pc = l]
<1>1. job[p] \in Job BY DEF TypeOK
<1>2. /\ j.pc = l /\ j.row = job[p].row
      /\ j.ticked = job[p].ticked /\ j.others = job[p].others
  BY <1>1 DEF Job
<1>3. Become(p, j) BY DEF Goto
<1> HIDE DEF j
<1> QED BY <1>2, <1>3, BecomeMoves

LEMMA ReturnMoves ==
    ASSUME TypeOK, NEW p \in Proc, NEW o, Return(p, o)
    PROVE  job'[p].pc \in Calls
<1> DEFINE j == [job[p] EXCEPT !.pc = job[p].back, !.outcome = o]
<1>1. j.pc \in Calls BY DEF TypeOK, Job
<1> HIDE DEF j
<1>2. CASE Finish(p) BY <1>2, FinishMoves DEF Calls
<1>3. CASE Become(p, j) BY <1>1, <1>3, BecomeMoves
<1> QED BY <1>2, <1>3 DEF Return, j

LEMMA Leaves ==
    ASSUME TypeOK, NEW p \in Proc, NEW j, Become(p, j), j.pc # "insert",
           UNCHANGED <<rows, stamped>>, job[p].pc \notin {"reread", "scan"},
           At(p, "sweep") => job[p].others = {}
    PROVE  StepOf(p)
  BY BecomeMoves DEF StepOf, Elsewhere

LEMMA GotoLeaves ==
    ASSUME TypeOK, NEW p \in Proc, NEW l, Goto(p, l), l # "insert",
           UNCHANGED <<rows, stamped>>, job[p].pc \notin {"reread", "scan"},
           At(p, "sweep") => job[p].others = {}
    PROVE  StepOf(p)
<1> DEFINE j == [job[p] EXCEPT !.pc = l]
<1>1. j.pc # "insert" /\ Become(p, j) BY DEF Goto, TypeOK, Job
<1> HIDE DEF j
<1> QED BY <1>1, Leaves

LEMMA FinishLeaves ==
    ASSUME TypeOK, NEW p \in Proc, Finish(p),
           UNCHANGED <<rows, stamped>>, job[p].pc \notin {"reread", "scan"},
           At(p, "sweep") => job[p].others = {}
    PROVE  StepOf(p)
<1>1. Idle.pc # "insert" BY DEF Idle
<1> QED BY <1>1, Leaves DEF Finish

LEMMA ReturnLeaves ==
    ASSUME TypeOK, NEW p \in Proc, NEW o, Return(p, o),
           UNCHANGED <<rows, stamped>>, job[p].pc \notin {"reread", "scan"},
           At(p, "sweep") => job[p].others = {}
    PROVE  StepOf(p)
<1> DEFINE j == [job[p] EXCEPT !.pc = job[p].back, !.outcome = o]
<1>1. j.pc # "insert" BY DEF TypeOK, Job, Calls
<1> HIDE DEF j
<1>2. CASE Finish(p) BY <1>2, FinishLeaves
<1>3. CASE Become(p, j) BY <1>1, <1>3, Leaves
<1> QED BY <1>2, <1>3 DEF Return, j

LEMMA RuleLeaves ==
    ASSUME TypeOK, NEW p \in Proc, NEW k \in Job, NEW l, NEW s, NEW b, NEW o,
           Become(p, Rule(k, l, s, b, o)), l # "insert",
           UNCHANGED <<rows, stamped>>, job[p].pc \notin {"reread", "scan"},
           At(p, "sweep") => job[p].others = {}
    PROVE  StepOf(p)
<1> DEFINE j == Rule(k, l, s, b, o)
<1>1. j.pc # "insert" /\ Become(p, j) BY DEF Rule, Job
<1> HIDE DEF j
<1> QED BY <1>1, Leaves

\* The steps that touch the queue are steps of p alone, whatever they do.
LEMMA QueueStep ==
    ASSUME TypeOK, NEW p \in Proc,
           Mark(p) \/ Scan(p) \/ Sweep(p) \/ Cool(p) \/ Insert(p) \/ Reread(p)
    PROVE  StepOf(p)
<1>1. \E j : Become(p, j)
  BY DEF Mark, Scan, Sweep, Cool, Insert, Reread, Goto, Return, Finish
<1> QED BY <1>1, BecomeMoves DEF StepOf

LEMMA SettleMoves == ASSUME TypeOK, NEW p \in Proc, Settle(p) PROVE StepOf(p)
<1>0. job[p] \in Job BY DEF TypeOK
<1>1. CASE Find(p)
  <2>1. UNCHANGED <<rows, stamped>> /\ At(p, "find") BY <1>1 DEF Find, tables
  <2>2. CASE Return(p, "none") BY <2>1, <2>2, ReturnLeaves DEF At
  <2>3. ASSUME NEW s \in SettingsSeen(p), StalePending # NoRow,
               Become(p, Planned([job[p] EXCEPT !.row = StalePending,
                                                !.snap = s], s))
        PROVE  StepOf(p)
    <3> DEFINE k == [job[p] EXCEPT !.row = StalePending, !.snap = s]
    <3>1. k \in Job
      <4>1. s \in SettingsRow /\ StalePending \in Ids /\ Ids \subseteq 0..MaxRows
        BY <2>3, PendingThere, DefaultType, RowIds DEF TypeOK, SettingsSeen, Job
      <4> QED BY <1>0, <4>1 DEF Job
    <3>2. PICK l \in {"mark", "weigh", "quota"}, t \in Statuses, b \in Deciders,
               o \in Outcomes : Planned(k, s) = Rule(k, l, t, b, o)
      BY DEF Planned, Plan, Statuses, Deciders, Silent, Outcomes
    <3>3. Become(p, Rule(k, l, t, b, o)) BY <2>3, <3>2
    <3> HIDE DEF k
    <3> QED BY <2>1, <3>1, <3>3, RuleLeaves DEF At
  <2> QED BY <1>1, <2>2, <2>3 DEF Find
<1>2. CASE CheckQuota(p) \/ Weigh(p)
  <2>1. UNCHANGED <<rows, stamped>> /\ job[p].pc \in {"quota", "weigh"}
    BY <1>2 DEF CheckQuota, Weigh, tables, At
  <2> QED BY <1>0, <1>2, <2>1, RuleLeaves, GotoLeaves DEF CheckQuota, Weigh, At
<1>3. CASE Persist(p)
  <2>1. UNCHANGED <<rows, stamped>> /\ At(p, "persist") BY <1>3 DEF Persist
  <2>2. CASE Become(p, [job[p] EXCEPT !.pc = "mark", !.outcome = "skipped"])
    <3> DEFINE j == [job[p] EXCEPT !.pc = "mark", !.outcome = "skipped"]
    <3>1. j.pc # "insert" BY <1>0 DEF Job
    <3> HIDE DEF j
    <3> QED BY <2>1, <2>2, <3>1, Leaves DEF At, j
  <2>3. CASE Goto(p, "mark") BY <2>1, <2>3, GotoLeaves DEF At
  <2>4. CASE Return(p, "failed") BY <2>1, <2>4, ReturnLeaves DEF At
  <2> QED BY <1>3, <2>2, <2>3, <2>4 DEF Persist
<1>4. CASE Swept(p)
  <2>1. UNCHANGED <<rows, stamped>> /\ At(p, "sweep") /\ job[p].others = {}
    BY <1>4 DEF Swept, tables
  <2> QED BY <1>4, <2>1, GotoLeaves, ReturnLeaves DEF Swept, At
<1>5. CASE Resume(p)
  BY <1>5, GotoLeaves DEF Resume, At
<1>6. CASE Recheck(p)
  BY <1>6, ReturnLeaves DEF Recheck, At
<1> QED BY <1>1, <1>2, <1>3, <1>4, <1>5, <1>6, QueueStep DEF Settle

LEMMA AskMoves == ASSUME TypeOK, NEW p \in Proc, Ask(p) PROVE StepOf(p)
<1>0. job[p] \in Job BY DEF TypeOK
<1>1. CASE Capped(p)
  <2>1. UNCHANGED <<rows, stamped>> /\ At(p, "capped?") BY <1>1 DEF Capped, tables
  <2>2. CASE Become(p, [job[p] EXCEPT !.pc = "look", !.back = "answer"])
    <3> DEFINE j == [job[p] EXCEPT !.pc = "look", !.back = "answer"]
    <3>1. j.pc # "insert" BY <1>0 DEF Job
    <3> HIDE DEF j
    <3> QED BY <2>1, <2>2, <3>1, Leaves DEF At, j
  <2>3. ASSUME NEW o,
               Become(p, [job[p] EXCEPT !.pc = "answer", !.outcome = o])
        PROVE  StepOf(p)
    <3> DEFINE j == [job[p] EXCEPT !.pc = "answer", !.outcome = o]
    <3>1. j.pc # "insert" BY <1>0 DEF Job
    <3> HIDE DEF j
    <3> QED BY <2>1, <2>3, <3>1, Leaves DEF At, j
  <2> QED BY <1>1, <2>2, <2>3 DEF Capped
<1>2. CASE Look(p)
  <2>1. UNCHANGED <<rows, stamped>> /\ At(p, "look") BY <1>2 DEF Look, tables
  <2>2. CASE Become(p, [job[p] EXCEPT !.pc = "cool",
                                      !.quote = Quote(job[p].snap)])
    <3> DEFINE j == [job[p] EXCEPT !.pc = "cool", !.quote = Quote(job[p].snap)]
    <3>1. j.pc # "insert" BY <1>0 DEF Job
    <3> HIDE DEF j
    <3> QED BY <2>1, <2>2, <3>1, Leaves DEF At, j
  <2> QED BY <1>2, <2>1, <2>2, ReturnLeaves DEF Look, At
<1> QED BY <1>1, <1>2, QueueStep DEF Ask

LEMMA CallersMove ==
    ASSUME TypeOK, Monitor \/ Guard \/ Owner \/ Desk
    PROVE  UNCHANGED <<rows, stamped, job>> \/ \E p \in Proc : StepOf(p)
<1>1. ASSUME Monitor PROVE StepOf("monitor")
  <2> DEFINE m == "monitor"
  <2>1. /\ UNCHANGED <<rows, stamped>> /\ m \in Proc /\ job[m] \in Job
        /\ job[m].pc \in {"idle", "judge", "pause", "answer"}
    BY <1>1 DEF Monitor, MonitorStart, MonitorJudge, MonitorPause, MonitorAnswer,
                tables, At, TypeOK
  <2>2. job[m].pc \notin {"reread", "scan"} /\ ~At(m, "sweep") BY <2>1 DEF At
  <2>3. ASSUME NEW s,
               Become(m, [Idle EXCEPT !.pc = "find", !.snap = s, !.back = "judge"])
        PROVE  StepOf(m)
    <3> DEFINE j == [Idle EXCEPT !.pc = "find", !.snap = s, !.back = "judge"]
    <3>1. j.pc # "insert" BY DEF Idle
    <3> HIDE DEF j
    <3> QED BY <2>1, <2>2, <2>3, <3>1, Leaves DEF j
  <2>4. ASSUME NEW s, Become(m, [job[m] EXCEPT !.pc = "pause", !.snap = s])
        PROVE  StepOf(m)
    <3> DEFINE j == [job[m] EXCEPT !.pc = "pause", !.snap = s]
    <3>1. j.pc # "insert" BY <2>1 DEF Job
    <3> HIDE DEF j
    <3> QED BY <2>1, <2>2, <2>4, <3>1, Leaves DEF j
  <2>5. CASE Become(m, [job[m] EXCEPT !.pc = "find", !.back = "capped?"])
    <3> DEFINE j == [job[m] EXCEPT !.pc = "find", !.back = "capped?"]
    <3>1. j.pc # "insert" BY <2>1 DEF Job
    <3> HIDE DEF j
    <3> QED BY <2>1, <2>2, <2>5, <3>1, Leaves DEF j
  <2>6. CASE Finish(m) BY <2>1, <2>2, <2>6, FinishLeaves
  <2> QED BY <1>1, <2>3, <2>4, <2>5, <2>6
          DEF Monitor, MonitorStart, MonitorJudge, MonitorPause, MonitorAnswer
<1>2. ASSUME Guard PROVE StepOf("guard")
  <2> DEFINE g == "guard"
  <2>1. /\ UNCHANGED <<rows, stamped>> /\ g \in Proc /\ job[g] \in Job
        /\ job[g].pc \in {"idle", "hold", "stale", "rejudge", "answer", "close"}
    BY <1>2 DEF Guard, GuardStart, GuardHold, GuardStale, GuardRejudge,
                GuardAnswer, GuardClose, tables, At, TypeOK
  <2>2. job[g].pc \notin {"reread", "scan"} /\ ~At(g, "sweep") BY <2>1 DEF At
  <2>3. CASE GuardStart
    <3>1. CASE Become(g, [Idle EXCEPT !.pc = "hold", !.snap = settings])
      <4> DEFINE j == [Idle EXCEPT !.pc = "hold", !.snap = settings]
      <4>1. j.pc # "insert" BY DEF Idle
      <4> HIDE DEF j
      <4> QED BY <2>1, <2>2, <3>1, <4>1, Leaves DEF j
    <3>2. CASE Become(g, [Idle EXCEPT !.pc = "hold", !.known = FALSE])
      <4> DEFINE j == [Idle EXCEPT !.pc = "hold", !.known = FALSE]
      <4>1. j.pc # "insert" BY DEF Idle
      <4> HIDE DEF j
      <4> QED BY <2>1, <2>2, <3>2, <4>1, Leaves DEF j
    <3> QED BY <2>3, <3>1, <3>2 DEF GuardStart
  <2>4. CASE Finish(g) BY <2>1, <2>2, <2>4, FinishLeaves
  <2>5. ASSUME NEW l \in {"stale", "close"}, Goto(g, l) PROVE StepOf(g)
    BY <2>1, <2>2, <2>5, GotoLeaves
  <2>6. ASSUME NEW l, Become(g, [job[g] EXCEPT !.pc = "find", !.back = l])
        PROVE  StepOf(g)
    <3> DEFINE j == [job[g] EXCEPT !.pc = "find", !.back = l]
    <3>1. j.pc # "insert" BY <2>1 DEF Job
    <3> HIDE DEF j
    <3> QED BY <2>1, <2>2, <2>6, <3>1, Leaves DEF j
  <2>7. ASSUME NEW s, NEW k,
               Become(g, [job[g] EXCEPT !.pc = "close", !.snap = s, !.known = k])
        PROVE  StepOf(g)
    <3> DEFINE j == [job[g] EXCEPT !.pc = "close", !.snap = s, !.known = k]
    <3>1. j.pc # "insert" BY <2>1 DEF Job
    <3> HIDE DEF j
    <3> QED BY <2>1, <2>2, <2>7, <3>1, Leaves DEF j
  <2>8. CASE GuardHold \/ GuardAnswer \/ GuardClose
    BY <2>4, <2>5, <2>8 DEF GuardHold, GuardAnswer, GuardClose
  <2>9. CASE GuardStale BY <2>4, <2>6, <2>9 DEF GuardStale
  <2>10. CASE GuardRejudge BY <2>4, <2>5, <2>7, <2>10 DEF GuardRejudge
  <2> QED BY <1>2, <2>3, <2>8, <2>9, <2>10 DEF Guard
<1>3. ASSUME Owner PROVE UNCHANGED <<rows, stamped, job>> \/ StepOf("owner")
  <2> DEFINE o == "owner"
  <2>1. /\ UNCHANGED <<rows, stamped>> /\ o \in Proc /\ job[o] \in Job
    BY <1>3 DEF Owner, OwnerStart, OwnerPress, OwnerKeep, OwnerToggle, tables,
                TypeOK
  <2>2. CASE OwnerToggle BY <2>1, <2>2 DEF OwnerToggle
  <2>3. ASSUME ~OwnerToggle
        PROVE  job[o].pc \notin {"reread", "scan"} /\ ~At(o, "sweep")
    BY <1>3, <2>3 DEF Owner, OwnerStart, OwnerPress, OwnerKeep, At, LoopFree
  <2>4. ASSUME NEW d, OwnerStart(d), ~OwnerToggle PROVE StepOf(o)
    <3>1. PICK s \in {settings, DefaultSettings}, ui \in BOOLEAN :
             Become(o, [Idle EXCEPT !.pc = "find", !.snap = s,
                          !.back = "press", !.known = ui, !.word = d])
      BY <2>4 DEF OwnerStart
    <3> DEFINE j == [Idle EXCEPT !.pc = "find", !.snap = s,
                        !.back = "press", !.known = ui, !.word = d]
    <3>2. j.pc # "insert" BY DEF Idle
    <3>3. Become(o, j) BY <3>1
    <3> HIDE DEF j
    <3> QED BY <2>1, <2>3, <2>4, <3>2, <3>3, Leaves
  <2>5. CASE OwnerKeep /\ ~OwnerToggle
    BY <2>1, <2>3, <2>5, FinishLeaves DEF OwnerKeep
  <2>6. CASE OwnerPress /\ ~OwnerToggle
    <3> DEFINE i == Newest(Pending)
               k == [job[o] EXCEPT !.row = i, !.back = "idle"]
    <3>1. k \in Job /\ \A s \in SettingsSeen(o) : [k EXCEPT !.snap = s] \in Job
      <4>1. i \in 0..MaxRows
        BY RowReads, RowIds
      <4>2. \A s \in SettingsSeen(o) : s \in SettingsRow
        BY <2>1, DefaultType DEF SettingsSeen, TypeOK, Job
      <4>3. At(o, "press") BY <2>6 DEF OwnerPress
      <4> HIDE DEF i
      <4>4. k \in Job BY <2>1, <4>1, <4>3 DEF Job, Calls, Holding, At
      <4>5. \A s \in SettingsRow : [k EXCEPT !.snap = s] \in Job
        <5> HIDE DEF k
        <5> QED BY <4>4 DEF Job
      <4> QED BY <4>2, <4>4, <4>5
    <3>2. CASE Finish(o) BY <2>1, <2>3, <2>6, <3>2, FinishLeaves
    <3>3. CASE Become(o, Rule(k, "mark", "rejected", "owner", "rejected"))
      <4> HIDE DEF k
      <4> QED BY <2>1, <2>3, <2>6, <3>1, <3>3, RuleLeaves
    <3>4. ASSUME NEW s \in SettingsSeen(o),
                 Become(o, Rule([k EXCEPT !.snap = s], "persist",
                                "approved", "owner", "applied"))
          PROVE  StepOf(o)
      <4> DEFINE h == [k EXCEPT !.snap = s]
      <4>1. h \in Job BY <3>1
      <4>2. Become(o, Rule(h, "persist", "approved", "owner", "applied")) BY <3>4
      <4> HIDE DEF h
      <4> QED BY <2>1, <2>3, <2>6, <4>1, <4>2, RuleLeaves
    <3> QED BY <2>6, <3>2, <3>3, <3>4 DEF OwnerPress
  <2> QED BY <1>3, <2>2, <2>4, <2>5, <2>6 DEF Owner
<1>4. ASSUME Desk PROVE StepOf("desk")
  <2> DEFINE d == "desk"
  <2>1. /\ UNCHANGED <<rows, stamped>> /\ d \in Proc
        /\ job[d].pc \notin {"reread", "scan"} /\ ~At(d, "sweep")
    BY <1>4 DEF Desk, DeskStart, DeskSave, tables, At
  <2>2. CASE Finish(d) BY <2>1, <2>2, FinishLeaves
  <2>3. CASE Become(d, [Idle EXCEPT !.pc = "save", !.snap = settings])
    <3> DEFINE j == [Idle EXCEPT !.pc = "save", !.snap = settings]
    <3>1. j.pc # "insert" BY DEF Idle
    <3> HIDE DEF j
    <3> QED BY <2>1, <2>3, <3>1, Leaves DEF j
  <2> QED BY <1>4, <2>2, <2>3 DEF Desk, DeskStart, DeskSave
<1> QED BY <1>1, <1>2, <1>3, <1>4

LEMMA OneMoves ==
    ASSUME TypeOK, Next
    PROVE  \/ Tick \/ Restart \/ UNCHANGED <<rows, stamped, job>>
           \/ \E p \in Proc : StepOf(p)
<1>1. World => Tick \/ Restart \/ UNCHANGED <<rows, stamped, job>>
  BY DEF World, OpenTrade, MetricMove, tables
<1> QED BY <1>1, SettleMoves, AskMoves, CallersMove DEF Next

(***************************************************************************)
(* The ages of the rows                                                    *)
(***************************************************************************)
LEMMA TickYoung == ASSUME TypeOK, Filed, Young, Tick PROVE Young'
<1>1. \A i \in Ids : /\ rows[i].age \in 0..Horizon
                     /\ rows'[i].age = IF i <= stamped /\ rows[i].age < Horizon
                                       THEN rows[i].age + 1 ELSE rows[i].age
  BY DEF Tick, TypeOK, Request
<1>2. Horizon \in Nat /\ stamped \in Nat /\ stamped' = stamped /\ MaxRows \in Nat
  BY LimitExpandAssumption DEF Tick, TypeOK
<1>3. \A i, k \in Ids : i <= k => rows'[k].age <= rows'[i].age
  <2> SUFFICES ASSUME NEW i \in Ids, NEW k \in Ids, i <= k
               PROVE  rows'[k].age <= rows'[i].age
    OBVIOUS
  <2>1. rows[k].age <= rows[i].age BY DEF Young
  <2>2. i \in Nat /\ k \in Nat BY <1>2 DEF Ids
  <2> QED BY <1>1, <1>2, <2>1, <2>2
<1>4. \A i \in Ids : i > stamped' => rows'[i].age = 0
  <2> SUFFICES ASSUME NEW i \in Ids, i > stamped PROVE rows'[i].age = 0
    BY <1>2
  <2>1. rows[i].age = 0 /\ i \in Nat BY <1>2 DEF Young, Ids
  <2> QED BY <1>1, <1>2, <2>1
<1>5. ASSUME NEW p \in Proc, At(p, "insert")'
      PROVE  rows'[job'[p].row].age <= Late(job'[p])
  <2>1. /\ At(p, "insert") /\ ~job[p].ticked
        /\ job'[p].row = job[p].row /\ job'[p].ticked
    BY <1>5 DEF Tick, At, TypeOK, Job, Idle
  <2>2. job[p].row \in Ids
    BY <2>1, LimitExpandAssumption DEF TypeOK, Filed, JobFiled, At, Ids
  <2>3. rows[job[p].row].age <= 0 BY <2>1 DEF Young, Late
  <2> QED BY <1>1, <2>1, <2>2, <2>3 DEF Late
<1> QED BY <1>3, <1>4, <1>5 DEF Young

\* No step but Tick touches an age, and only Cool hands out an id.
LEMMA StepAges ==
    ASSUME TypeOK, NEW p \in Proc, StepOf(p)
    PROVE  /\ \A i \in Ids : rows'[i].age = rows[i].age
           /\ UNCHANGED stamped \/ (Cool(p) /\ stamped' = stamped + 1)
           /\ job'[p].pc = "insert" => Cool(p) /\ stamped' = stamped + 1
                                       /\ job'[p].row = stamped + 1
<1>0. job[p] \in Job /\ \A j : Become(p, j) => job'[p] = j
  BY BecomeMoves DEF TypeOK
<1>1. CASE Elsewhere(p) BY <1>1 DEF Elsewhere
<1>2. CASE Mark(p)
  <2>1. UNCHANGED stamped /\ Goto(p, "scan") BY <1>2 DEF Mark
  <2>2. \A i \in Ids : rows'[i].age = rows[i].age
    BY <1>2 DEF Mark, TypeOK, Request
  <2> QED BY <2>1, <2>2, GotoMoves
<1>3. CASE Scan(p)
  BY <1>0, <1>3 DEF Scan, tables, Job
<1>4. CASE Sweep(p)
  <2> DEFINE i == Newest(job[p].others)
  <2>1. \/ UNCHANGED rows
        \/ rows' = [rows EXCEPT ![i].status = "superseded",
                                ![i].by = "auto:superseded"]
    BY <1>4 DEF Sweep
  <2> HIDE DEF i
  <2>2. \A k \in Ids : rows'[k].age = rows[k].age
    BY <2>1 DEF TypeOK, Request
  <2>3. \E o : Become(p, [job[p] EXCEPT !.others = o]) /\ At(p, "sweep")
    BY <1>4 DEF Sweep
  <2>4. job'[p].pc = "sweep" BY <1>0, <2>3 DEF Job, At
  <2> QED BY <1>4, <2>2, <2>4 DEF Sweep
<1>5. CASE Cool(p)
  <2>1. UNCHANGED rows BY <1>5 DEF Cool
  <2>2. CASE Return(p, "cooldown") /\ UNCHANGED stamped
    <3>1. job'[p].pc # "insert"
      BY <2>2, ReturnMoves DEF Calls
    <3> QED BY <2>1, <2>2, <3>1
  <2>3. CASE stamped' = stamped + 1
             /\ Become(p, [job[p] EXCEPT !.pc = "insert", !.row = stamped + 1])
    BY <1>0, <1>5, <2>1, <2>3 DEF Job
  <2>4. CASE Goto(p, "reread") /\ UNCHANGED stamped
    BY <1>0, <2>1, <2>4 DEF Goto, Job
  <2> QED BY <1>5, <2>2, <2>3, <2>4 DEF Cool
<1>6. CASE Insert(p)
  <2>1. UNCHANGED stamped /\ Goto(p, "reread") BY <1>6 DEF Insert
  <2>2. \A i \in Ids : rows'[i].age = rows[i].age
    BY <1>6 DEF Insert, TypeOK, Request
  <2> QED BY <2>1, <2>2, GotoMoves
<1>7. CASE Reread(p)
  <2>1. UNCHANGED <<rows, stamped>> BY <1>7 DEF Reread, tables
  <2>2. job'[p].pc # "insert"
    <3>1. CASE Return(p, "insert_failed")
      BY <3>1, ReturnMoves DEF Calls
    <3>2. CASE Become(p, [job[p] EXCEPT !.pc = "scan", !.row = PendingRequest,
                                        !.outcome = "created"])
      BY <1>0, <3>2 DEF Job
    <3> QED BY <1>7, <3>1, <3>2 DEF Reread
  <2> QED BY <2>1, <2>2
<1> QED BY <1>1, <1>2, <1>3, <1>4, <1>5, <1>6, <1>7 DEF StepOf

LEMMA StepYoung ==
    ASSUME TypeOK, Filed, Young, NEW p \in Proc, StepOf(p) PROVE Young'
<1>1. /\ \A i \in Ids : rows'[i].age = rows[i].age
      /\ UNCHANGED stamped \/ (Cool(p) /\ stamped' = stamped + 1)
      /\ job'[p].pc = "insert" => Cool(p) /\ stamped' = stamped + 1
                                  /\ job'[p].row = stamped + 1
  BY StepAges
<1>2. stamped \in Nat /\ MaxRows \in Nat /\ stamped <= MaxRows
  BY LimitExpandAssumption DEF TypeOK
<1>3. \A i \in Ids : i > stamped' => rows'[i].age = 0
  BY <1>1, <1>2 DEF Young, Ids
<1>4. ASSUME NEW q \in Proc, At(q, "insert")'
      PROVE  rows'[job'[q].row].age <= Late(job'[q])
  <2>1. CASE q # p
    <3>1. job'[q] = job[q] BY <2>1 DEF StepOf
    <3>2. job[q].row \in Ids /\ At(q, "insert")
      BY <1>2, <1>4, <3>1 DEF Filed, JobFiled, At, Ids
    <3> QED BY <1>1, <3>1, <3>2 DEF Young
  <2>2. CASE q = p
    <3>1. /\ Cool(p) /\ stamped' = stamped + 1 /\ job'[p].row = stamped + 1
      BY <1>1, <1>4, <2>2 DEF At
    <3>2. stamped < MaxRows
      BY <3>1, <1>2 DEF Cool
    <3>3. stamped + 1 \in Ids BY <1>2, <3>2 DEF Ids
    <3>4. rows'[stamped + 1].age = 0 BY <1>1, <1>2, <3>3 DEF Young
    <3> QED BY <2>2, <3>1, <3>4 DEF Late
  <2> QED BY <2>1, <2>2
<1> QED BY <1>1, <1>3, <1>4 DEF Young

(***************************************************************************)
(* Every pair of open questions is attended to                             *)
(***************************************************************************)
\* A call that has failed, or a restart, is never taken back.
LEMMA TroubleStays ==
    ASSUME TypeOK, Next
    PROVE  /\ faults' = 0 => faults = 0
           /\ restarts' = 0 => restarts = 0 /\ ~Restart
<1>1. faults \in Nat /\ restarts \in Nat
  BY LimitExpandAssumption DEF TypeOK
<1>2. \A k : Fault(k) => faults' = faults + 1
  BY DEF Fault
<1>3. ASSUME NEW p \in Proc, Settle(p)
      PROVE  UNCHANGED restarts /\ (UNCHANGED faults \/ faults' = faults + 1)
  BY <1>2, <1>3 DEF Settle, Find, CheckQuota, Weigh, Persist, Mark, Scan, Sweep,
       Swept, Resume, Recheck, world, usage, SettingsFor, LenientRead
<1>4. ASSUME NEW p \in Proc, Ask(p)
      PROVE  UNCHANGED restarts /\ (UNCHANGED faults \/ faults' = faults + 1)
  BY <1>2, <1>4 DEF Ask, Capped, Look, Cool, Insert, Reread, world, usage
<1>5. ASSUME Monitor \/ Guard
      PROVE  UNCHANGED restarts /\ (UNCHANGED faults \/ faults' = faults + 1)
  BY <1>2, <1>5 DEF Monitor, MonitorStart, MonitorJudge, MonitorPause,
       MonitorAnswer, Guard, GuardStart, GuardHold, GuardStale, GuardRejudge,
       GuardAnswer, GuardClose, world, usage, LenientRead
<1>6. ASSUME Owner \/ Desk
      PROVE  UNCHANGED restarts /\ (UNCHANGED faults \/ faults' = faults + 1)
  BY <1>2, <1>6 DEF Owner, OwnerStart, OwnerPress, OwnerKeep, OwnerToggle, Desk,
       DeskStart, DeskSave, world, usage, LenientRead, SettingsFor
<1>7. ASSUME World
      PROVE  UNCHANGED faults /\ (UNCHANGED restarts \/ restarts' = restarts + 1)
  BY <1>7 DEF World, OpenTrade, MetricMove, Tick, Restart, world, usage
<1>8. Restart => restarts' = restarts + 1 BY DEF Restart
<1> QED BY <1>1, <1>3, <1>4, <1>5, <1>6, <1>7, <1>8 DEF Next

\* The queue p reads after its insert is not empty: the row p inserted is still
\* inside its window, and so is the newest one.
LEMMA RereadFinds ==
    ASSUME TypeOK, Young, NEW j \in Job, j.row \in Pending,
           rows[j.row].age <= Late(j)
    PROVE  PendingRequest # NoRow
<1> DEFINE r == Newest(Pending)
<1>1. Pending \in SUBSET Ids BY DEF Pending
<1>2. r \in Pending /\ j.row <= r BY <1>1, NewestIn
<1> HIDE DEF r
<1>3. r \in Ids /\ j.row \in Ids /\ r # NoRow BY <1>1, <1>2, RowIds
<1>4. rows[r].age <= rows[j.row].age BY <1>2, <1>3 DEF Young
<1>5. rows[r].age \in Nat /\ rows[j.row].age \in Nat
  BY <1>3, LimitExpandAssumption DEF TypeOK, Request
<1>6. Late(j) <= TTL /\ Late(j) \in Nat BY LimitExpandAssumption DEF Late
<1>7. rows[r].age <= TTL BY <1>4, <1>5, <1>6, LimitExpandAssumption
<1> QED BY <1>3, <1>7 DEF PendingRequest, r

LEMMA TickAttended ==
    ASSUME TypeOK, Young, Tick, NEW i \in Ids, NEW k \in Ids, NEW p \in Proc,
           Attends(p, i, k)
    PROVE  Attends(p, i, k)'
<1>1. /\ ~job[p].ticked /\ job'[p].pc = job[p].pc /\ job'[p].row = job[p].row
      /\ job'[p].others = job[p].others
      /\ job[p].pc # "idle" => job'[p].ticked
  BY DEF Tick, At, TypeOK, Job
<1>2. CASE At(p, "reread")
  <2>1. job[p].row \in {i, k} /\ rows[job[p].row].age <= 0
    BY <1>1, <1>2 DEF Attends, Late, At
  <2>2. /\ rows[job[p].row].age \in 0..Horizon /\ job[p].row \in Ids
        /\ rows'[job[p].row].age \in {rows[job[p].row].age, rows[job[p].row].age + 1}
    BY <2>1 DEF Tick, TypeOK, Request
  <2>3. rows'[job[p].row].age <= 1 BY <2>1, <2>2, LimitExpandAssumption
  <2> QED BY <1>1, <1>2, <2>1, <2>3 DEF Attends, At, Late
<1>3. CASE ~At(p, "reread")
  BY <1>1, <1>3 DEF Attends, At
<1> QED BY <1>2, <1>3

\* A pair open before the step of p and after it is attended to after it.
LEMMA PairStays ==
    ASSUME TypeOK, Young, NEW p \in Proc, StepOf(p), faults' = 0, faults = 0,
           NEW i \in Pending, NEW k \in Pending, i # k,
           i \in Pending', k \in Pending', \E q \in Proc : Attends(q, i, k)
    PROVE  \E q \in Proc : Attends(q, i, k)'
<1>0. /\ job[p] \in Job /\ \A j : Become(p, j) => job'[p] = j
      /\ \A kind : ~Fault(kind)
  BY BecomeMoves DEF TypeOK, Fault
<1>1. i \in Ids /\ k \in Ids BY DEF Pending
<1>2. PICK q \in Proc : Attends(q, i, k) OBVIOUS
<1>3. CASE q # p
  <2>1. job'[q] = job[q] BY <1>3 DEF StepOf
  <2>2. \A r \in Ids : rows'[r].age = rows[r].age BY StepAges
  <2> QED BY <1>1, <1>2, <2>1, <2>2 DEF Attends, At
<1>4. CASE q = p
  <2>1. CASE Scan(p)
    <3>1. job'[p].pc = "sweep" /\ job'[p].others = Siblings(job[p].row)
      BY <1>0, <2>1 DEF Scan, Job
    <3> QED BY <3>1 DEF Attends, At, Siblings
  <2>2. CASE Sweep(p)
    <3> DEFINE n == Newest(job[p].others)
    <3>1. /\ job'[p].pc = "sweep" /\ job'[p].others = job[p].others \ {n}
          /\ rows' = [rows EXCEPT ![n].status = "superseded",
                                  ![n].by = "auto:superseded"]
      BY <1>0, <2>2 DEF Sweep, Job, At
    <3> HIDE DEF n
    <3>2. n \in Ids => rows'[n].status # "pending"
      BY <3>1 DEF TypeOK, Request
    <3>3. n \notin {i, k} BY <1>1, <3>2 DEF Pending
    <3>4. job[p].others \cap {i, k} # {}
      BY <1>2, <1>4, <2>2 DEF Sweep, Attends, At
    <3> QED BY <3>1, <3>3, <3>4 DEF Attends, At
  <2>3. CASE Reread(p)
    <3>1. /\ job[p].row \in {i, k} /\ rows[job[p].row].age <= Late(job[p])
      BY <1>2, <1>4, <2>3 DEF Reread, Attends, At
    <3>2. PendingRequest # NoRow BY <1>0, <3>1, RereadFinds
    <3>3. job'[p].pc = "scan" BY <1>0, <2>3, <3>2 DEF Reread, Job
    <3> QED BY <3>3 DEF Attends, At
  <2>4. CASE Mark(p) \/ Cool(p) \/ Insert(p) \/ Elsewhere(p)
    BY <1>2, <1>4, <2>4 DEF Mark, Cool, Insert, Elsewhere, Attends, At
  <2> QED BY <2>1, <2>2, <2>3, <2>4 DEF StepOf
<1> QED BY <1>3, <1>4

\* Only Insert opens a question: the row its own process is to read again.
LEMMA PairOpens ==
    ASSUME TypeOK, Filed, Young, NEW p \in Proc, StepOf(p), faults' = 0, faults = 0,
           NEW i \in Pending', i \notin Pending
    PROVE  job'[p].pc = "reread" /\ job'[p].row = i
           /\ rows'[i].age <= Late(job'[p])
<1>0. /\ job[p] \in Job /\ \A j : Become(p, j) => job'[p] = j
      /\ \A kind : ~Fault(kind)
  BY BecomeMoves DEF TypeOK, Fault
<1>1. i \in Ids /\ rows'[i].status = "pending" /\ rows[i].status # "pending"
  BY DEF Pending
<1>2. ~(Elsewhere(p) \/ Scan(p) \/ Cool(p) \/ Reread(p))
  BY <1>1 DEF Elsewhere, Scan, Cool, Reread, tables
<1>3. ~Mark(p)
  <2> SUFFICES ASSUME Mark(p) PROVE FALSE
    OBVIOUS
  <2>1. job[p].pc \in Ruling /\ rows' = [rows EXCEPT ![job[p].row].status = job[p].status,
                                                     ![job[p].row].by = job[p].by]
    BY <1>0 DEF Mark, At, Ruling
  <2>2. job[p].row \in Ids /\ job[p].status \in {"approved", "rejected", "expired"}
    BY <2>1, InHandFiled
  <2> QED BY <1>1, <2>1, <2>2 DEF TypeOK, Request
<1>4. ~Sweep(p)
  <2> SUFFICES ASSUME Sweep(p) PROVE FALSE
    OBVIOUS
  <2> DEFINE n == Newest(job[p].others)
  <2>1. rows' = [rows EXCEPT ![n].status = "superseded",
                             ![n].by = "auto:superseded"]
    BY <1>0 DEF Sweep
  <2> HIDE DEF n
  <2> QED BY <1>1, <2>1 DEF TypeOK, Request
<1>5. Insert(p) BY <1>2, <1>3, <1>4 DEF StepOf
<1>6. /\ At(p, "insert") /\ Goto(p, "reread")
      /\ rows' = [rows EXCEPT ![job[p].row].status = "pending",
                              ![job[p].row].new = job[p].quote]
  BY <1>0, <1>5 DEF Insert
<1>7. i = job[p].row BY <1>1, <1>6 DEF TypeOK, Request
<1>8. job'[p].pc = "reread" /\ job'[p].row = i /\ job'[p].ticked = job[p].ticked
  BY <1>0, <1>6, <1>7 DEF Goto, Job
<1>9. rows'[i].age = rows[i].age BY <1>1, StepAges
<1> QED BY <1>6, <1>7, <1>8, <1>9 DEF Young, Late

LEMMA StepAttended ==
    ASSUME TypeOK, Filed, Young, Attended, NEW p \in Proc, StepOf(p),
           faults' = 0, faults = 0, restarts = 0,
           NEW i \in Pending', NEW k \in Pending', i # k
    PROVE  \E q \in Proc : Attends(q, i, k)'
<1>1. CASE i \in Pending /\ k \in Pending
  BY <1>1, PairStays DEF Attended
<1>2. CASE i \notin Pending
  <2>1. job'[p].pc = "reread" /\ job'[p].row = i /\ rows'[i].age <= Late(job'[p])
    BY <1>2, PairOpens
  <2> QED BY <2>1 DEF Attends, At
<1>3. CASE k \notin Pending
  <2>1. job'[p].pc = "reread" /\ job'[p].row = k /\ rows'[k].age <= Late(job'[p])
    BY <1>3, PairOpens
  <2> QED BY <2>1 DEF Attends, At
<1> QED BY <1>1, <1>2, <1>3

LEMMA NextAttended ==
    TypeOK /\ Filed /\ Young /\ Attended /\ [Next]_vars => Young' /\ Attended'
<1> SUFFICES ASSUME TypeOK, Filed, Young, Attended, [Next]_vars
             PROVE  Young' /\ Attended'
  OBVIOUS
<1>1. CASE UNCHANGED vars
  BY <1>1 DEF vars, tables, world, usage, Young, Attended, Attends, Pending, At
<1>2. CASE Next
  <2>1. Young'
    <3>1. CASE Tick BY <3>1, TickYoung
    <3>2. CASE Restart
      <4>1. UNCHANGED <<rows, stamped>> /\ \A p \in Proc : job'[p] = Idle
        BY <3>2 DEF Restart, tables
      <4>2. Idle.pc # "insert" BY DEF Idle
      <4> QED BY <4>1, <4>2 DEF Young, At
    <3>3. CASE UNCHANGED <<rows, stamped, job>> BY <3>3 DEF Young, At
    <3> QED BY <1>2, <3>1, <3>2, <3>3, OneMoves, StepYoung
  <2>2. ASSUME faults' = 0, restarts' = 0, NEW i \in Pending', NEW k \in Pending',
               i # k
        PROVE  \E q \in Proc : Attends(q, i, k)'
    <3>1. faults = 0 /\ restarts = 0 /\ ~Restart BY <1>2, <2>2, TroubleStays
    <3>2. CASE Tick
      <4>1. i \in Ids /\ k \in Ids /\ i \in Pending /\ k \in Pending
        BY <3>2 DEF Tick, TypeOK, Request, Pending
      <4>2. PICK q \in Proc : Attends(q, i, k) BY <2>2, <3>1, <4>1 DEF Attended
      <4>3. Attends(q, i, k)' BY <3>2, <4>1, <4>2, TickAttended
      <4> QED BY <4>3
    <3>3. CASE UNCHANGED <<rows, stamped, job>>
      BY <2>2, <3>1, <3>3 DEF Attended, Attends, Pending, At
    <3>4. CASE \E p \in Proc : StepOf(p)
      BY <2>2, <3>1, <3>4, StepAttended
    <3> QED BY <1>2, <3>1, <3>2, <3>3, <3>4, OneMoves
  <2>3. Attended' BY <2>2 DEF Attended
  <2> QED BY <2>1, <2>3
<1> QED BY <1>1, <1>2

\* One decision settles the whole queue: with every cycle at rest, and none
\* lost or failed to write, at most one request is open, whoever asked, answered
\* or let it lapse, in whatever order.
THEOREM OneAtATime == Spec => []OneQuestion
<1>1. Attended => OneQuestion
  <2> SUFFICES ASSUME Attended, Quiet PROVE Cardinality(Pending) <= 1
    BY DEF OneQuestion
  <2>1. \A i, k \in Pending : i = k
    BY DEF Quiet, Attended, Attends, At
  <2>2. CASE Pending = {}
    BY <2>2, FS_EmptySet
  <2>3. ASSUME NEW i \in Pending PROVE Cardinality(Pending) <= 1
    <3>1. Pending = {i} BY <2>1, <2>3
    <3>2. Cardinality({i}) = 1 BY FS_Singleton
    <3> QED BY <3>1, <3>2
  <2> QED BY <2>2, <2>3
<1>2. TypeOK /\ Filed /\ Young /\ Attended /\ [Next]_vars => Young' /\ Attended'
  BY NextAttended
<1> QED BY <1>1, <1>2, InitAttended, AlwaysFiled, PTL DEF Spec

(***************************************************************************)
(* The refinement                                                          *)
(***************************************************************************)
LEMMA InitImplements == Init => Policy!Init
<1> SUFFICES ASSUME Init PROVE Policy!Init
  OBVIOUS
<1>1. PICK w \in InitWiden, a \in InitApply :
         settings = [limit |-> [f \in Fields |-> InitLimit],
                     widen |-> w, apply |-> a]
  BY DEF Init
<1>2. /\ settings.limit = [f \in Fields |-> InitLimit] /\ settings.widen = w
      /\ w \in BOOLEAN /\ InitLimit \in Nat
  BY <1>1, LimitExpandAssumption
<1>3. granted = [f \in Fields |-> {settings.limit[f]}]
  BY <1>2 DEF Init
<1>4. (optedIn \/ misread) \in BOOLEAN
  OBVIOUS
<1>5. [i \in Ids |-> Question(i)] = [i \in Ids |-> "unasked"]
  BY DEF Init, Question
<1> QED BY <1>2, <1>3, <1>4, <1>5 DEF Policy!Init

\* A step that changes no status is a decision, or silence the owner trusts.
LEMMA LimitStep ==
    ASSUME TypeOK, TypeOK', Sound', Grows,
           \A i \in Ids : rows'[i].status = rows[i].status
    PROVE  [Policy!Next]_(Policy!vars)
<1>1. [i \in Ids |-> Question(i)]' = [i \in Ids |-> Question(i)]
  BY DEF Question
<1>2. /\ settings'.limit \in [Fields -> Nat]
      /\ granted' \in [Fields -> SUBSET Nat]
  BY DEF TypeOK, SettingsRow
<1>3. \A f \in Fields : granted[f] \subseteq granted'[f]
  BY DEF Grows
<1>4. CASE optedIn' \/ misread'
  <2>1. Policy!Trust
    BY <1>1, <1>2, <1>3, <1>4 DEF Policy!Trust, Policy!Remembered
  <2> QED BY <2>1 DEF Policy!Next
<1>5. CASE ~(optedIn' \/ misread')
  <2>1. (optedIn \/ misread)' = (optedIn \/ misread)
    BY <1>5 DEF Grows
  <2>2. \A f \in Fields : settings'.limit[f] \in granted'[f]
    BY <1>5 DEF Sound, Backed
  <2>3. Policy!Decide
    BY <1>1, <1>2, <1>3, <2>1, <2>2
    DEF Policy!Decide, Policy!Remembered, Policy!Chosen
  <2> QED BY <2>3 DEF Policy!Next
<1> QED BY <1>4, <1>5

\* A step that writes one row puts its question, closes it, or changes nothing.
LEMMA QuestionStep ==
    ASSUME TypeOK, UNCHANGED <<settings, granted, optedIn, misread>>,
           NEW i \in Ids, NEW status, status # "absent",
           \A k \in Ids : rows'[k].status = IF k = i THEN status
                                                     ELSE rows[k].status,
           rows[i].status = "absent" <=> status = "pending"
    PROVE  [Policy!Next]_(Policy!vars)
<1>1. \A k \in Ids : Question(k)' = IF k = i THEN Question(i)' ELSE Question(k)
  BY DEF Question
<1>2. [k \in Ids |-> Question(k)]'
         = [[k \in Ids |-> Question(k)] EXCEPT ![i] = Question(i)']
  BY <1>1
<1>3. CASE rows[i].status = "absent"
  <2>1. Question(i) = "unasked" /\ Question(i)' = "open"
    BY <1>3 DEF Question
  <2>2. Policy!Ask(i)
    BY <1>2, <2>1 DEF Policy!Ask
  <2> QED BY <2>2 DEF Policy!Next
<1>4. CASE rows[i].status = "pending"
  <2>1. Question(i) = "open" /\ Question(i)' = "closed"
    BY <1>4 DEF Question
  <2>2. Policy!Close(i)
    BY <1>2, <2>1 DEF Policy!Close
  <2> QED BY <2>2 DEF Policy!Next
<1>5. CASE rows[i].status \notin {"absent", "pending"}
  <2>1. Question(i) = "closed" /\ Question(i)' = "closed"
    BY <1>5 DEF Question
  <2>2. [k \in Ids |-> Question(k)]' = [k \in Ids |-> Question(k)]
    BY <1>2, <2>1
  <2> QED BY <2>2 DEF Policy!vars
<1> QED BY <1>3, <1>4, <1>5

\* What the history remembers is never forgotten.
LEMMA NextGrows == ASSUME TypeOK, Next PROVE Grows
<1>1. ASSUME NEW p \in Proc, Settle(p) PROVE Grows
  <2>1. CASE Persist(p)
    <3>1. UNCHANGED <<optedIn, misread>>
      BY <2>1 DEF Persist
    <3>2. \A f \in Fields : granted[f] \subseteq granted'[f]
      BY <2>1 DEF Persist
    <3> QED BY <3>1, <3>2 DEF Grows
  <2>2. CASE Find(p)
    BY <2>2 DEF Find, SettingsFor, LenientRead, Grows
  <2>3. CASE UNCHANGED history
    BY <2>3, LocalGrows
  <2> QED BY <1>1, <2>1, <2>2, <2>3 DEF Settle, CheckQuota, Weigh, Mark, Scan,
             Sweep, Swept, Resume, Recheck
<1>2. ASSUME NEW p \in Proc, Ask(p) PROVE Grows
  BY <1>2, LocalGrows DEF Ask, Capped, Look, Cool, Insert, Reread
<1>3. CASE Monitor
  <2>1. CASE MonitorJudge
    <3>1. UNCHANGED <<optedIn, granted>> /\ (UNCHANGED misread \/ misread' = TRUE)
      BY <2>1 DEF MonitorJudge, LenientRead
    <3> QED BY <3>1 DEF Grows
  <2> QED BY <1>3, <2>1, LocalGrows DEF Monitor, MonitorStart, MonitorPause,
             MonitorAnswer
<1>4. CASE Guard
  BY <1>4, LocalGrows DEF Guard, GuardStart, GuardHold, GuardStale,
              GuardRejudge, GuardAnswer, GuardClose
<1>5. CASE Owner
  <2>1. UNCHANGED <<optedIn, granted>>
    BY <1>5 DEF Owner, OwnerStart, OwnerPress, OwnerKeep, OwnerToggle, history
  <2>2. UNCHANGED misread \/ misread' = TRUE
    BY <1>5 DEF Owner, OwnerStart, OwnerPress, OwnerKeep, OwnerToggle, history,
                SettingsFor, LenientRead
  <2> QED BY <2>1, <2>2 DEF Grows
<1>6. CASE Desk
  <2>1. CASE DeskStart
    BY <2>1, LocalGrows DEF DeskStart
  <2>2. ASSUME NEW f \in Fields, NEW v, DeskLimit(f, v), UNCHANGED misread
        PROVE  Grows
    BY <2>2 DEF DeskLimit, Grows, TypeOK
  <2>3. ASSUME NEW w, NEW a, DeskPolicy(w, a), UNCHANGED misread PROVE Grows
    BY <2>3 DEF DeskPolicy, Grows
  <2>4. CASE DeskReset /\ UNCHANGED misread
    BY <2>4 DEF DeskReset, Grows
  <2> QED BY <1>6, <2>1, <2>2, <2>3, <2>4 DEF Desk, DeskSave
<1>7. CASE World
  BY <1>7 DEF World, OpenTrade, MetricMove, Tick, Restart, history, Grows
<1> QED BY <1>1, <1>2, <1>3, <1>4, <1>5, <1>6, <1>7 DEF Next, Proc

\* Only three steps write a status.
LEMMA StatusKept ==
    ASSUME TypeOK, Next
    PROVE  \/ \A i \in Ids : rows'[i].status = rows[i].status
           \/ \E p \in Proc : Mark(p) \/ Sweep(p) \/ Insert(p)
<1> SUFFICES ASSUME \A p \in Proc : ~Mark(p) /\ ~Sweep(p) /\ ~Insert(p)
             PROVE  \A i \in Ids : rows'[i].status = rows[i].status
  OBVIOUS
<1>1. CASE Tick
  BY <1>1 DEF Tick, TypeOK, Request
<1>2. CASE UNCHANGED rows
  BY <1>2
<1>3. \A p \in Proc : Settle(p) \/ Ask(p) => UNCHANGED rows
  BY DEF Settle, Find, CheckQuota, Weigh, Persist, Scan, Swept, Resume, Recheck,
         Ask, Capped, Look, Cool, Reread, tables
<1>4. Monitor \/ Guard => UNCHANGED rows
  BY DEF Monitor, MonitorStart, MonitorJudge, MonitorPause, MonitorAnswer, Guard,
         GuardStart, GuardHold, GuardStale, GuardRejudge, GuardAnswer,
         GuardClose, tables
<1>5. Owner \/ Desk => UNCHANGED rows
  BY DEF Owner, OwnerStart, OwnerPress, OwnerKeep, OwnerToggle, Desk, DeskStart,
         DeskSave, tables
<1>6. World => Tick \/ UNCHANGED rows
  BY DEF World, OpenTrade, MetricMove, Restart, tables
<1> QED BY <1>1, <1>2, <1>3, <1>4, <1>5, <1>6 DEF Next, Proc

LEMMA StepImplements ==
    TypeOK /\ Filed /\ TypeOK' /\ Sound' /\ [Next]_vars
       => [Policy!Next]_(Policy!vars)
<1> SUFFICES ASSUME TypeOK, Filed, TypeOK', Sound', [Next]_vars
             PROVE  [Policy!Next]_(Policy!vars)
  OBVIOUS
<1>1. CASE UNCHANGED vars
  <2>1. UNCHANGED <<settings, rows, granted, optedIn, misread>>
    BY <1>1 DEF vars, tables, history
  <2>2. [i \in Ids |-> Question(i)]' = [i \in Ids |-> Question(i)]
    BY <2>1 DEF Question
  <2> QED BY <2>1, <2>2 DEF Policy!vars
<1>2. CASE Next /\ \A i \in Ids : rows'[i].status = rows[i].status
  BY <1>2, NextGrows, LimitStep
<1>3. ASSUME NEW p \in Proc, Mark(p),
             \E i \in Ids : rows'[i].status # rows[i].status
      PROVE  [Policy!Next]_(Policy!vars)
  <2>1. /\ UNCHANGED <<settings, granted, optedIn, misread>>
        /\ job[p].pc \in Ruling
    BY <1>3 DEF Mark, history, At, Ruling
  <2>2. /\ job[p].row \in Ids /\ rows[job[p].row].status # "absent"
        /\ job[p].status \in {"approved", "rejected", "expired"}
    BY <2>1, InHandFiled
  <2>3. rows' = [rows EXCEPT ![job[p].row].status = job[p].status,
                             ![job[p].row].by = job[p].by]
    BY <1>3 DEF Mark
  <2>4. \A k \in Ids : rows'[k].status = IF k = job[p].row THEN job[p].status
                                         ELSE rows[k].status
    BY <2>2, <2>3 DEF TypeOK, Request
  <2> QED BY <2>1, <2>2, <2>4, QuestionStep
<1>4. ASSUME NEW p \in Proc, Sweep(p),
             \E i \in Ids : rows'[i].status # rows[i].status
      PROVE  [Policy!Next]_(Policy!vars)
  <2> DEFINE i == Newest(job[p].others)
  <2>1. /\ UNCHANGED <<settings, granted, optedIn, misread>>
        /\ rows' = [rows EXCEPT ![i].status = "superseded",
                                ![i].by = "auto:superseded"]
        /\ job[p].others # {}
    BY <1>4 DEF Sweep, history
  <2>2. i \in Ids /\ rows[i].status # "absent"
    <3>1. job[p].others \in SUBSET Ids
      BY DEF TypeOK, Job
    <3>2. i \in job[p].others
      BY <2>1, <3>1, NewestIn
    <3> QED BY <3>1, <3>2 DEF Filed, JobFiled
  <2> HIDE DEF i
  <2>3. \A k \in Ids : rows'[k].status = IF k = i THEN "superseded"
                                         ELSE rows[k].status
    BY <2>1, <2>2 DEF TypeOK, Request
  <2> QED BY <2>1, <2>2, <2>3, QuestionStep
<1>5. ASSUME NEW p \in Proc, Insert(p),
             \E i \in Ids : rows'[i].status # rows[i].status
      PROVE  [Policy!Next]_(Policy!vars)
  <2>1. /\ UNCHANGED <<settings, granted, optedIn, misread>>
        /\ rows' = [rows EXCEPT ![job[p].row].status = "pending",
                                ![job[p].row].new = job[p].quote]
        /\ At(p, "insert")
    BY <1>5 DEF Insert, history
  <2>2. job[p].row \in Ids /\ rows[job[p].row].status = "absent"
    <3>1. stamped \in 0..MaxRows
      BY DEF TypeOK
    <3>2. job[p].row \in 1..stamped /\ rows[job[p].row].status = "absent"
      BY <2>1 DEF Filed, JobFiled, At
    <3> QED BY <3>1, <3>2, LimitExpandAssumption DEF Ids
  <2> DEFINE status == "pending"
  <2>3. \A k \in Ids : rows'[k].status = IF k = job[p].row THEN status
                                         ELSE rows[k].status
    BY <2>1, <2>2 DEF TypeOK, Request
  <2>4. status # "absent" /\ (rows[job[p].row].status = "absent" <=> status = "pending")
    BY <2>2
  <2>5. UNCHANGED <<settings, granted, optedIn, misread>> /\ job[p].row \in Ids
    BY <2>1, <2>2
  <2> HIDE DEF status
  <2> QED BY <2>3, <2>4, <2>5, QuestionStep
<1> QED BY <1>1, <1>2, <1>3, <1>4, <1>5, StatusKept

\* LimitExpand implements LimitPolicy: a question is put once and closed once,
\* and the limits change only by what the owner chose or trusts silence to
\* choose, whatever interleaves, fails or is lost.
THEOREM Refines == Spec => Implements
<1>1. Init => Policy!Init
  BY InitImplements
<1>2. TypeOK /\ Filed /\ TypeOK' /\ Sound' /\ [Next]_vars
         => [Policy!Next]_(Policy!vars)
  BY StepImplements
<1> QED BY <1>1, <1>2, AlwaysFiled, PTL DEF Spec, Implements, Policy!Spec

(***************************************************************************)
(* One Step per question                                                   *)
(*                                                                         *)
(* StepPerQuestion is not inductive either: what will be written is quoted *)
(* from a snapshot, kept in a job, stamped, then kept in a row.  Modest    *)
(* says of every limit on that way that it is at most a Step per stamped   *)
(* question above one the owner chose; a quote that waits for its stamp    *)
(* may be one Step ahead.  A job that could not read the limits neither    *)
(* quotes from the defaults it holds nor widens by them.                   *)
(***************************************************************************)
Under(limit, given, n) ==
    \A f \in Fields : \E v \in given[f] : limit[f] <= v + Step * n

Writing == {"quota", "weigh", "persist"}
Informed == {"capped?", "look", "cool", "insert"}

JobModest(p, j, given, n) ==
    /\ j.pc \in Writing \/ (j.known /\ j.pc # "idle") =>
          Under(j.snap.limit, given, n)
    /\ ~j.known => p = "owner" \/ (p = "guard" /\ ~j.snap.widen)
    /\ j.back \in {"capped?", "answer"} \/ j.pc \in Informed => j.known
    /\ j.pc = "cool" => Under(j.quote, given, n + 1)
    /\ j.pc = "insert" => Under(j.quote, given, n)

Modest ==
    ~misread =>
        /\ Under(settings.limit, granted, stamped)
        /\ \A i \in Ids : Under(rows[i].new, granted, stamped)
        /\ \A p \in Proc : JobModest(p, job[p], granted, stamped)

LEMMA StepsAdd ==
    /\ Step \in Nat
    /\ \A m, n \in Nat : m <= n => Step * m \in Nat /\ Step * n \in Nat
                                   /\ Step * m <= Step * n
    /\ \A n \in Nat : Step * (n + 1) = Step * n + Step
<1>1. Step \in Nat BY LimitExpandAssumption
<1>2. ASSUME NEW m \in Nat, NEW n \in Nat, m <= n
      PROVE  Step * m \in Nat /\ Step * n \in Nat /\ Step * m <= Step * n
  <2>1. n - m \in Nat /\ n = m + (n - m) BY <1>2
  <2>2. Step * n = Step * m + Step * (n - m) BY <1>1, <1>2, <2>1
  <2>3. Step * (n - m) \in Nat /\ Step * m \in Nat BY <1>1, <1>2, <2>1
  <2> QED BY <2>2, <2>3
<1> QED BY <1>1, <1>2

LEMMA UnderGrows ==
    ASSUME NEW limit \in [Fields -> Nat], NEW given \in [Fields -> SUBSET Nat],
           NEW given2, NEW m \in Nat, NEW n \in Nat, m <= n,
           \A f \in Fields : given[f] \subseteq given2[f], Under(limit, given, m)
    PROVE  Under(limit, given2, n)
<1> SUFFICES ASSUME NEW f \in Fields
             PROVE  \E v \in given2[f] : limit[f] <= v + Step * n
  BY DEF Under
<1>1. PICK v \in given[f] : limit[f] <= v + Step * m BY DEF Under
<1>2. v \in Nat /\ limit[f] \in Nat /\ v \in given2[f] OBVIOUS
<1>3. limit[f] <= v + Step * n BY <1>1, <1>2, StepsAdd
<1> QED BY <1>2, <1>3

\* One step above what the owner chose is reached with one question more.
LEMMA QuoteUnder ==
    ASSUME TypeOK, NEW s \in SettingsRow, Under(s.limit, granted, stamped)
    PROVE  Quote(s) \in [Fields -> Nat] /\ Under(Quote(s), granted, stamped + 1)
<1>1. Step \in Nat /\ stamped \in Nat BY LimitExpandAssumption DEF TypeOK
<1>2. Quote(s) \in [Fields -> Nat] BY <1>1 DEF Quote, SettingsRow
<1>3. ASSUME NEW f \in Fields
      PROVE  \E v \in granted[f] : Quote(s)[f] <= v + Step * (stamped + 1)
  <2>1. PICK v \in granted[f] : s.limit[f] <= v + Step * stamped BY DEF Under
  <2>2. v \in Nat /\ s.limit[f] \in Nat BY DEF TypeOK, SettingsRow
  <2>3. Quote(s)[f] \in {0, s.limit[f] + Step} BY DEF Quote
  <2>4. Step * stamped \in Nat /\ Step * (stamped + 1) = Step * stamped + Step
    BY <1>1, StepsAdd
  <2>5. Quote(s)[f] <= v + Step * (stamped + 1)
    BY <1>1, <2>1, <2>2, <2>3, <2>4
  <2> QED BY <2>5
<1> QED BY <1>2, <1>3 DEF Under

LEMMA MergedUnder ==
    ASSUME TypeOK, NEW i \in Ids, NEW s \in SettingsRow, NEW given, NEW n,
           Under(s.limit, given, n), Under(rows[i].new, given, n)
    PROVE  Under(Merged(i, s).limit, given, n)
<1>1. \A f \in Fields : Merged(i, s).limit[f] \in {rows[i].new[f], s.limit[f]}
  BY DEF Merged, SettingsRow
<1> QED BY <1>1 DEF Under

(***************************************************************************)
(* Steps                                                                   *)
(***************************************************************************)
\* The owner's word and the stamps only grow; nothing read is a default.
Further ==
    /\ Grows /\ ~misread'
    /\ stamped \in Nat /\ stamped' \in Nat /\ stamped <= stamped'

LEMMA FurtherStamps ==
    ASSUME Further
    PROVE  /\ stamped + 1 \in Nat /\ stamped' + 1 \in Nat
           /\ stamped + 1 <= stamped' + 1
<1>1. stamped \in Nat /\ stamped' \in Nat /\ stamped <= stamped'
  BY DEF Further
<1>2. \A m, n \in Nat : m <= n => m + 1 \in Nat /\ n + 1 \in Nat /\ m + 1 <= n + 1
  OBVIOUS
<1> QED BY <1>1, <1>2, Zenon

LEMMA LaterUnder ==
    ASSUME TypeOK, Further, NEW limit \in [Fields -> Nat],
           NEW m \in Nat, NEW n \in Nat, m <= n, Under(limit, granted, m)
    PROVE  Under(limit, granted', n)
<1>1. /\ granted \in [Fields -> SUBSET Nat]
      /\ \A f \in Fields : granted[f] \subseteq granted'[f]
  BY DEF TypeOK, Further, Grows
<1> QED BY <1>1, UnderGrows

LEMMA StaysUnder ==
    ASSUME TypeOK, Further, NEW limit \in [Fields -> Nat],
           Under(limit, granted, stamped)
    PROVE  Under(limit, granted', stamped')
  BY LaterUnder DEF Further

LEMMA StaysModest ==
    ASSUME TypeOK, Modest, Further, NEW p \in Proc
    PROVE  JobModest(p, job[p], granted', stamped')
<1>1. JobModest(p, job[p], granted, stamped) BY DEF Modest, Further, Grows
<1>2. job[p].snap.limit \in [Fields -> Nat] /\ job[p].quote \in [Fields -> Nat]
  BY DEF TypeOK, Job, SettingsRow
<1>3. Under(job[p].snap.limit, granted, stamped) =>
         Under(job[p].snap.limit, granted', stamped')
  BY <1>2, StaysUnder
<1>4. Under(job[p].quote, granted, stamped) =>
         Under(job[p].quote, granted', stamped')
  BY <1>2, StaysUnder
<1>5. Under(job[p].quote, granted, stamped + 1) =>
         Under(job[p].quote, granted', stamped' + 1)
  BY <1>2, FurtherStamps, LaterUnder
<1> QED BY <1>1, <1>3, <1>4, <1>5 DEF JobModest

\* A step of p that leaves a modest job, settings row and table.
LEMMA StepModest ==
    ASSUME TypeOK, Modest, Further, NEW p \in Proc, NEW j, Become(p, j),
           JobModest(p, j, granted', stamped'),
           UNCHANGED settings \/ Under(settings'.limit, granted', stamped'),
           \A i \in Ids : \/ rows'[i].new = rows[i].new
                          \/ Under(rows'[i].new, granted', stamped')
    PROVE  Modest'
<1>0. ~misread BY DEF Further, Grows
<1>1. \A q \in Proc : JobModest(q, job'[q], granted', stamped')
  <2>1. TAKE q \in Proc
  <2>2. job'[q] = IF q = p THEN j ELSE job[q] BY DEF Become, TypeOK
  <2> QED BY <2>2, StaysModest
<1>2. Under(settings'.limit, granted', stamped')
  BY <1>0, StaysUnder DEF Modest, TypeOK, SettingsRow
<1>3. \A i \in Ids : Under(rows'[i].new, granted', stamped')
  BY <1>0, StaysUnder DEF Modest, TypeOK, Request
<1> QED BY <1>1, <1>2, <1>3 DEF Modest

\* A job that goes on with the settings it holds, neither to write nor to quote.
LEMMA GoesOn ==
    ASSUME TypeOK, Modest, Further, NEW p \in Proc, ~At(p, "idle"), NEW j,
           j.snap = job[p].snap, j.known = job[p].known,
           j.pc \notin Writing \cup {"cool", "insert"},
           \/ j.back = job[p].back /\ j.pc # "look"
           \/ j.back \in {"idle", "rejudge"} /\ j.pc # "look"
           \/ job[p].known,
           j.pc = "capped?" => j.known
    PROVE  JobModest(p, j, granted', stamped')
<1>1. JobModest(p, job[p], granted', stamped') BY StaysModest
<1> QED BY <1>1 DEF JobModest, At, Writing, Informed

LEMMA MoveModest ==
    ASSUME TypeOK, Modest, Further, NEW p \in Proc, ~At(p, "idle"), NEW j,
           Become(p, j), UNCHANGED <<settings, rows>>,
           j.snap = job[p].snap, j.known = job[p].known,
           j.pc \notin Writing \cup {"cool", "insert"},
           \/ j.back = job[p].back /\ j.pc # "look"
           \/ j.back \in {"idle", "rejudge"} /\ j.pc # "look"
           \/ job[p].known,
           j.pc = "capped?" => j.known
    PROVE  Modest'
  BY GoesOn, StepModest

LEMMA GotoModest ==
    ASSUME TypeOK, Modest, Further, NEW p \in Proc, ~At(p, "idle"), NEW l,
           Goto(p, l), UNCHANGED <<settings, rows>>,
           l \notin Writing \cup Informed
    PROVE  Modest'
<1> DEFINE j == [job[p] EXCEPT !.pc = l]
<1>1. /\ j.pc = l /\ j.snap = job[p].snap /\ j.known = job[p].known
      /\ j.back = job[p].back
  BY DEF TypeOK, Job
<1>2. Become(p, j) BY DEF Goto
<1> HIDE DEF j
<1> QED BY <1>1, <1>2, MoveModest DEF Informed

LEMMA FinishModest ==
    ASSUME TypeOK, Modest, Further, NEW p \in Proc, Finish(p),
           UNCHANGED settings \/ Under(settings'.limit, granted', stamped'),
           UNCHANGED rows
    PROVE  Modest'
<1>1. JobModest(p, Idle, granted', stamped')
  BY DEF JobModest, Idle, Writing, Informed
<1> QED BY <1>1, StepModest DEF Finish

LEMMA ReturnModest ==
    ASSUME TypeOK, Modest, Further, NEW p \in Proc, ~At(p, "idle"), NEW o,
           Return(p, o), UNCHANGED rows,
           UNCHANGED settings \/ Under(settings'.limit, granted', stamped')
    PROVE  Modest'
<1> DEFINE j == [job[p] EXCEPT !.pc = job[p].back, !.outcome = o]
<1>1. /\ j.pc \in Calls /\ j.pc = job[p].back /\ j.back = job[p].back
      /\ j.snap = job[p].snap /\ j.known = job[p].known
  BY DEF TypeOK, Job
<1>2. j.pc = "capped?" => j.known
  BY <1>1 DEF Modest, Further, Grows, JobModest
<1>3. CASE Finish(p) BY <1>3, FinishModest
<1>4. CASE Become(p, j)
  <2> HIDE DEF j
  <2>1. JobModest(p, j, granted', stamped')
    BY <1>1, <1>2, GoesOn DEF Calls, Writing
  <2> QED BY <1>4, <2>1, StepModest
<1> QED BY <1>3, <1>4 DEF Return

\* The step that widens keeps the limits it names within their questions.
LEMMA PersistModest ==
    ASSUME TypeOK, Modest, Further, NEW p \in Proc, Persist(p)
    PROVE  Modest'
<1> DEFINE i == job[p].row
           s == job[p].snap
<1>0. /\ job[p] \in Job /\ s \in SettingsRow /\ i \in Ids /\ UNCHANGED rows
      /\ ~At(p, "idle") /\ job[p].pc = "persist"
  BY InHand DEF Persist, At, Holding, Job
<1>1. Under(s.limit, granted', stamped')
  BY <1>0, StaysModest DEF JobModest, Writing
<1>2. Under(rows[i].new, granted', stamped')
  BY <1>0, StaysUnder DEF Modest, Further, Grows, TypeOK, Request
<1>3. Under(Merged(i, s).limit, granted', stamped')
  BY <1>0, <1>1, <1>2, MergedUnder
<1>4. UNCHANGED settings \/ Under(settings'.limit, granted', stamped')
  BY <1>3 DEF Persist
<1>5. ASSUME NEW j, Become(p, j), j.pc = "mark", j.snap = s,
             j.known = job[p].known, j.back = job[p].back
      PROVE  Modest'
  <2>1. JobModest(p, j, granted', stamped')
    BY <1>0, <1>5, GoesOn DEF Writing
  <2> QED BY <1>0, <1>4, <1>5, <2>1, StepModest
<1>6. CASE Return(p, "failed") BY <1>0, <1>4, <1>6, ReturnModest
<1>7. CASE Become(p, [job[p] EXCEPT !.pc = "mark", !.outcome = "skipped"])
  <2> DEFINE j == [job[p] EXCEPT !.pc = "mark", !.outcome = "skipped"]
  <2>1. /\ j.pc = "mark" /\ j.snap = s /\ j.known = job[p].known
        /\ j.back = job[p].back
    BY <1>0 DEF Job
  <2> HIDE DEF j
  <2> QED BY <1>5, <1>7, <2>1 DEF j
<1>8. CASE Goto(p, "mark")
  <2> DEFINE j == [job[p] EXCEPT !.pc = "mark"]
  <2>1. /\ j.pc = "mark" /\ j.snap = s /\ j.known = job[p].known
        /\ j.back = job[p].back
    BY <1>0 DEF Job
  <2>2. Become(p, j) BY <1>8 DEF Goto
  <2> HIDE DEF j
  <2> QED BY <1>5, <2>1, <2>2
<1> QED BY <1>6, <1>7, <1>8 DEF Persist

\* A lenient read that is not the defaults is the row itself.
LEMMA ReadUnder ==
    ASSUME TypeOK, Modest, Further, NEW p \in Proc, NEW s,
           SettingsFor(p, s) \/ LenientRead(s)
    PROVE  \/ s = settings /\ Under(s.limit, granted', stamped')
           \/ s = job[p].snap /\ (job[p].known \/ p # "owner")
<1>1. Under(settings.limit, granted', stamped')
  BY StaysUnder DEF Modest, Further, Grows, TypeOK, SettingsRow
<1>2. LenientRead(s) => s = settings BY DEF LenientRead, Further
<1>3. job[p].known \in BOOLEAN BY DEF TypeOK, Job
<1> QED BY <1>1, <1>2, <1>3 DEF SettingsFor

LEMMA FindModest ==
    ASSUME TypeOK, Modest, Further, NEW p \in Proc, Find(p) PROVE Modest'
<1>0. ~At(p, "idle") /\ At(p, "find") /\ UNCHANGED <<settings, rows>>
  BY DEF Find, At, tables
<1>1. CASE Return(p, "none")
  BY <1>0, <1>1, ReturnModest
<1>2. ASSUME NEW s \in SettingsSeen(p), SettingsFor(p, s),
             Become(p, Planned([job[p] EXCEPT !.row = StalePending,
                                              !.snap = s], s))
      PROVE  Modest'
  <2> DEFINE k == [job[p] EXCEPT !.row = StalePending, !.snap = s]
             j == Planned(k, s)
  <2>1. k.snap = s /\ k.known = job[p].known /\ k.back = job[p].back
    BY DEF TypeOK, Job
  <2>2. /\ j.snap = s /\ j.known = job[p].known /\ j.back = job[p].back
        /\ \/ j.pc = "mark"
           \/ s.widen /\ j.pc \in {"weigh", "quota"}
    <3>1. k \in Job
      <4>1. job[p] \in Job /\ StalePending \in 0..MaxRows /\ s \in SettingsRow
            /\ job[p].pc \notin Holding
        BY <1>2, RowReads, RowIds, DefaultType
        DEF TypeOK, Job, SettingsSeen, Find, At, Holding
      <4> QED BY <4>1 DEF Job
    <3> HIDE DEF k
    <3> QED BY <2>1, <3>1 DEF Planned, Plan, Rule, Job
  <2>3. Become(p, j) BY <1>2
  <2>4. JobModest(p, job[p], granted', stamped') BY StaysModest
  <2>5. JobModest(p, j, granted', stamped')
    <3> HIDE DEF j
    <3>1. CASE s = settings /\ Under(s.limit, granted', stamped') /\ p = "owner"
      BY <2>2, <2>4, <3>1 DEF JobModest, Writing, Informed
    <3>2. CASE s = job[p].snap /\ (job[p].known \/ p # "owner")
      BY <1>0, <2>2, <2>4, <3>2 DEF JobModest, Writing, Informed, At
    <3>3. s = job[p].snap \/ p = "owner"
      BY <1>2 DEF SettingsFor
    <3> QED BY <1>2, <3>1, <3>2, <3>3, ReadUnder
  <2> HIDE DEF j
  <2> QED BY <1>0, <2>3, <2>5, StepModest
<1> QED BY <1>1, <1>2 DEF Find

\* The switch judged on the way from the plan to the write.
LEMMA WeighedModest ==
    ASSUME TypeOK, Modest, Further, NEW p \in Proc, CheckQuota(p) \/ Weigh(p)
    PROVE  Modest'
<1>0. /\ job[p] \in Job /\ UNCHANGED <<settings, rows>> /\ ~At(p, "idle")
      /\ job[p].pc \in {"quota", "weigh"}
  BY DEF CheckQuota, Weigh, TypeOK, tables, At
<1>1. JobModest(p, job[p], granted', stamped') BY StaysModest
<1>2. ASSUME NEW l \in {"weigh", "persist"}, Goto(p, l) PROVE Modest'
  <2> DEFINE j == [job[p] EXCEPT !.pc = l]
  <2>1. /\ j.pc = l /\ j.snap = job[p].snap /\ j.known = job[p].known
        /\ j.back = job[p].back
    BY <1>0 DEF Job
  <2>2. Become(p, j) BY <1>2 DEF Goto
  <2> HIDE DEF j
  <2>3. JobModest(p, j, granted', stamped')
    BY <1>0, <1>1, <2>1 DEF JobModest, Writing, Informed
  <2> QED BY <1>0, <2>2, <2>3, StepModest
<1>3. ASSUME NEW b, NEW o, Become(p, Rule(job[p], "mark", "expired", b, o))
      PROVE  Modest'
  <2> DEFINE j == Rule(job[p], "mark", "expired", b, o)
  <2>1. /\ j.pc = "mark" /\ j.snap = job[p].snap /\ j.known = job[p].known
        /\ j.back = job[p].back
    BY <1>0 DEF Job, Rule
  <2>2. Become(p, j) BY <1>3
  <2> HIDE DEF j
  <2> QED BY <1>0, <2>1, <2>2, MoveModest DEF Writing
<1> QED BY <1>2, <1>3 DEF CheckQuota, Weigh

LEMMA SettleRestModest ==
    ASSUME TypeOK, Modest, Further, NEW p \in Proc,
           Mark(p) \/ Scan(p) \/ Sweep(p) \/ Swept(p) \/ Resume(p) \/ Recheck(p)
    PROVE  Modest'
<1>0. job[p] \in Job /\ UNCHANGED settings /\ ~At(p, "idle")
  BY DEF TypeOK, Mark, Scan, Sweep, Swept, Resume, Recheck, tables, At
<1>1. \A i \in Ids : rows'[i].new = rows[i].new
  BY DEF TypeOK, Request, Mark, Scan, Sweep, Swept, Resume, Recheck, tables
<1>2. ASSUME NEW j, Become(p, j), j.snap = job[p].snap, j.known = job[p].known,
             j.back = job[p].back, j.pc \in {"scan", "sweep", "resume", "keep",
                                             "recheck"}
      PROVE  Modest'
  <2>1. JobModest(p, j, granted', stamped') BY <1>0, <1>2, GoesOn DEF Writing
  <2> QED BY <1>0, <1>1, <1>2, <2>1, StepModest
<1>3. ASSUME NEW l \in {"scan", "resume", "keep", "recheck"}, Goto(p, l)
      PROVE  Modest'
  <2> DEFINE j == [job[p] EXCEPT !.pc = l]
  <2>1. /\ j.pc = l /\ j.snap = job[p].snap /\ j.known = job[p].known
        /\ j.back = job[p].back
    BY <1>0 DEF Job
  <2>2. Become(p, j) BY <1>3 DEF Goto
  <2> HIDE DEF j
  <2> QED BY <1>2, <2>1, <2>2
<1>4. CASE Scan(p)
  <2> DEFINE j == [job[p] EXCEPT !.pc = "sweep", !.others = Siblings(job[p].row)]
  <2>1. /\ j.pc = "sweep" /\ j.snap = job[p].snap /\ j.known = job[p].known
        /\ j.back = job[p].back
    BY <1>0 DEF Job
  <2>2. Become(p, j) BY <1>4 DEF Scan
  <2> HIDE DEF j
  <2> QED BY <1>2, <2>1, <2>2
<1>5. CASE Sweep(p)
  <2> DEFINE j == [job[p] EXCEPT !.others = @ \ {Newest(job[p].others)}]
  <2>1. /\ j.pc = "sweep" /\ j.snap = job[p].snap /\ j.known = job[p].known
        /\ j.back = job[p].back
    BY <1>0, <1>5 DEF Job, Sweep, At
  <2>2. Become(p, j) BY <1>5 DEF Sweep
  <2> HIDE DEF j
  <2> QED BY <1>2, <2>1, <2>2
<1>6. CASE Swept(p) \/ Recheck(p)
  <2>1. UNCHANGED rows BY <1>6 DEF Swept, Recheck, tables
  <2> QED BY <1>0, <1>3, <1>6, <2>1, ReturnModest DEF Swept, Recheck
<1>7. CASE Mark(p) \/ Resume(p) BY <1>3, <1>7 DEF Mark, Resume
<1> QED BY <1>4, <1>5, <1>6, <1>7

LEMMA SettleModest ==
    ASSUME TypeOK, Modest, Further, NEW p \in Proc, Settle(p) PROVE Modest'
  BY FindModest, WeighedModest, PersistModest, SettleRestModest DEF Settle

\* A question quotes one Step, takes its stamp, and only then is a row.
LEMMA AskModest ==
    ASSUME TypeOK, Modest, Further, NEW p \in Proc, Ask(p) PROVE Modest'
<1>0. /\ job[p] \in Job /\ UNCHANGED settings /\ ~At(p, "idle")
  BY DEF TypeOK, Ask, Capped, Look, Cool, Insert, Reread, tables, At
<1>1. JobModest(p, job[p], granted', stamped') BY StaysModest
<1>2. CASE Capped(p)
  <2>0. UNCHANGED rows /\ job[p].known
    BY <1>1, <1>2 DEF Capped, tables, At, JobModest, Informed
  <2>1. ASSUME NEW j, Become(p, j), j.snap = job[p].snap, j.known = job[p].known,
               j.pc \in {"answer", "look"}
        PROVE  Modest'
    BY <1>0, <2>0, <2>1, MoveModest DEF Writing
  <2>2. CASE Become(p, [job[p] EXCEPT !.pc = "look", !.back = "answer"])
    <3> DEFINE j == [job[p] EXCEPT !.pc = "look", !.back = "answer"]
    <3>1. j.pc = "look" /\ j.snap = job[p].snap /\ j.known = job[p].known
      BY <1>0 DEF Job
    <3> HIDE DEF j
    <3> QED BY <2>1, <2>2, <3>1 DEF j
  <2>3. ASSUME NEW o, Become(p, [job[p] EXCEPT !.pc = "answer", !.outcome = o])
        PROVE  Modest'
    <3> DEFINE j == [job[p] EXCEPT !.pc = "answer", !.outcome = o]
    <3>1. j.pc = "answer" /\ j.snap = job[p].snap /\ j.known = job[p].known
      BY <1>0 DEF Job
    <3> HIDE DEF j
    <3> QED BY <2>1, <2>3, <3>1 DEF j
  <2> QED BY <1>2, <2>2, <2>3 DEF Capped
<1>3. CASE Look(p)
  <2>0. /\ UNCHANGED <<rows, stamped>> /\ job[p].known
        /\ job[p].snap \in SettingsRow
        /\ Under(job[p].snap.limit, granted, stamped)
    BY <1>0, <1>3 DEF Look, tables, At, Modest, Further, Grows, JobModest,
                      Informed, Job
  <2>1. CASE Become(p, [job[p] EXCEPT !.pc = "cool", !.quote = Quote(job[p].snap)])
    <3> DEFINE q == Quote(job[p].snap)
               j == [job[p] EXCEPT !.pc = "cool", !.quote = q]
    <3>1. /\ j.pc = "cool" /\ j.snap = job[p].snap /\ j.known = job[p].known
          /\ j.quote = q
      BY <1>0 DEF Job
    <3>2. q \in [Fields -> Nat] /\ Under(q, granted, stamped + 1)
      BY <2>0, QuoteUnder
    <3>3. Under(q, granted', stamped' + 1)
      <4> HIDE DEF q
      <4> QED BY <3>2, FurtherStamps, LaterUnder
    <3>4. Become(p, j) BY <2>1
    <3> HIDE DEF j, q
    <3>5. JobModest(p, j, granted', stamped')
      BY <1>0, <1>1, <2>0, <3>1, <3>3 DEF JobModest, Writing, At
    <3> QED BY <1>0, <2>0, <3>4, <3>5, StepModest
  <2> QED BY <1>0, <1>3, <2>0, <2>1, ReturnModest DEF Look
<1>4. CASE Cool(p)
  <2>0. UNCHANGED rows /\ job[p].known /\ Under(job[p].quote, granted, stamped + 1)
    BY <1>4 DEF Cool, At, Modest, Further, Grows, JobModest, Informed
  <2>1. CASE /\ stamped' = stamped + 1
             /\ Become(p, [job[p] EXCEPT !.pc = "insert", !.row = stamped + 1])
    <3> DEFINE j == [job[p] EXCEPT !.pc = "insert", !.row = stamped + 1]
    <3>1. /\ j.pc = "insert" /\ j.snap = job[p].snap /\ j.known = job[p].known
          /\ j.quote = job[p].quote
      BY <1>0 DEF Job
    <3>2. Under(job[p].quote, granted', stamped')
      <4>1. job[p].quote \in [Fields -> Nat] BY <1>0 DEF Job
      <4>2. Under(job[p].quote, granted, stamped') BY <2>0, <2>1
      <4>3. stamped' \in Nat /\ stamped' <= stamped' BY DEF Further
      <4> QED BY <4>1, <4>2, <4>3, LaterUnder
    <3>3. Become(p, j) BY <2>1
    <3> HIDE DEF j
    <3>4. JobModest(p, j, granted', stamped')
      BY <1>0, <1>1, <2>0, <3>1, <3>2 DEF JobModest, Writing, At
    <3> QED BY <1>0, <2>0, <3>3, <3>4, StepModest
  <2>2. CASE Goto(p, "reread")
    BY <1>0, <2>0, <2>2, GotoModest DEF Writing, Informed
  <2> QED BY <1>0, <1>4, <2>0, <2>1, <2>2, ReturnModest DEF Cool
<1>5. CASE Insert(p)
  <2>0. Under(job[p].quote, granted', stamped') /\ Goto(p, "reread")
    BY <1>1, <1>5 DEF Insert, At, JobModest
  <2>1. \A i \in Ids : rows'[i].new \in {rows[i].new, job[p].quote}
    BY <1>5 DEF Insert, TypeOK, Request
  <2> DEFINE j == [job[p] EXCEPT !.pc = "reread"]
  <2>2. /\ j.pc = "reread" /\ j.snap = job[p].snap /\ j.known = job[p].known
        /\ j.back = job[p].back
    BY <1>0 DEF Job
  <2>3. Become(p, j) BY <2>0 DEF Goto
  <2> HIDE DEF j
  <2>4. JobModest(p, j, granted', stamped') BY <1>0, <2>2, GoesOn DEF Writing
  <2> QED BY <1>0, <2>0, <2>1, <2>3, <2>4, StepModest
<1>6. CASE Reread(p)
  <2>0. UNCHANGED rows BY <1>6 DEF Reread, tables
  <2>1. CASE Become(p, [job[p] EXCEPT !.pc = "scan", !.row = PendingRequest,
                                      !.outcome = "created"])
    <3> DEFINE j == [job[p] EXCEPT !.pc = "scan", !.row = PendingRequest,
                                   !.outcome = "created"]
    <3>1. /\ j.pc = "scan" /\ j.snap = job[p].snap /\ j.known = job[p].known
          /\ j.back = job[p].back
      BY <1>0 DEF Job
    <3> HIDE DEF j
    <3> QED BY <1>0, <2>0, <2>1, <3>1, MoveModest DEF Writing, j
  <2> QED BY <1>0, <1>6, <2>0, <2>1, ReturnModest DEF Reread
<1> QED BY <1>2, <1>3, <1>4, <1>5, <1>6 DEF Ask

\* A job with settings read in this very step, or none it will use.
LEMMA StartModest ==
    ASSUME TypeOK, Modest, Further, NEW p \in Proc, UNCHANGED <<settings, rows>>,
           NEW j, Become(p, j), j.pc \notin Writing \cup {"cool", "insert"},
           j.known => Under(j.snap.limit, granted', stamped'),
           ~j.known => p = "owner" \/ (p = "guard" /\ ~j.snap.widen),
           j.back \in {"capped?", "answer"} \/ j.pc \in Informed => j.known
    PROVE  Modest'
<1>1. JobModest(p, j, granted', stamped') BY DEF JobModest
<1> QED BY <1>1, StepModest

LEMMA SettingsUnder ==
    ASSUME TypeOK, Modest, Further PROVE Under(settings.limit, granted', stamped')
  BY StaysUnder DEF Modest, Further, Grows, TypeOK, SettingsRow

LEMMA MonitorModest == ASSUME TypeOK, Modest, Further, Monitor PROVE Modest'
<1> DEFINE m == "monitor"
<1>0. job[m] \in Job /\ UNCHANGED <<settings, rows>>
  BY DEF TypeOK, Monitor, MonitorStart, MonitorJudge, MonitorPause,
         MonitorAnswer, tables
<1>1. JobModest(m, job[m], granted', stamped') BY StaysModest
<1>2. CASE MonitorStart
  <2> DEFINE j == [Idle EXCEPT !.pc = "find", !.snap = settings, !.back = "judge"]
  <2>1. /\ j.pc = "find" /\ j.snap = settings /\ j.back = "judge"
        /\ j.known = TRUE
    BY DEF Idle
  <2>2. Become(m, j) BY <1>2 DEF MonitorStart
  <2> HIDE DEF j
  <2> QED BY <1>0, <2>1, <2>2, SettingsUnder, StartModest DEF Writing, Informed
<1>3. CASE MonitorJudge
  <2>1. PICK s \in SettingsSeen(m) :
           /\ LenientRead(s) \/ s = job[m].snap
           /\ \/ Become(m, [job[m] EXCEPT !.pc = "pause", !.snap = s])
              \/ Finish(m)
    BY <1>3 DEF MonitorJudge
  <2>2. CASE Become(m, [job[m] EXCEPT !.pc = "pause", !.snap = s])
    <3> DEFINE j == [job[m] EXCEPT !.pc = "pause", !.snap = s]
    <3>1. /\ j.pc = "pause" /\ j.snap = s /\ j.back = job[m].back
          /\ j.known = job[m].known
      BY <1>0 DEF Job
    <3>2. job[m].known /\ job[m].pc # "idle"
      BY <1>1, <1>3 DEF MonitorJudge, At, JobModest
    <3>3. Under(s.limit, granted', stamped')
      BY <1>1, <2>1, <3>2, ReadUnder DEF JobModest
    <3>4. Become(m, j) BY <2>2
    <3> HIDE DEF j
    <3> QED BY <1>0, <3>1, <3>2, <3>3, <3>4, StartModest DEF Writing, Informed
  <2> QED BY <1>0, <2>1, <2>2, FinishModest
<1>4. CASE MonitorPause
  <2> DEFINE j == [job[m] EXCEPT !.pc = "find", !.back = "capped?"]
  <2>1. /\ j.pc = "find" /\ j.snap = job[m].snap /\ j.known = job[m].known
    BY <1>0 DEF Job
  <2>2. Become(m, j) /\ ~At(m, "idle") /\ job[m].known
    BY <1>1, <1>4 DEF MonitorPause, At, JobModest
  <2> HIDE DEF j
  <2> QED BY <1>0, <2>1, <2>2, MoveModest DEF Writing
<1>5. CASE MonitorAnswer BY <1>0, <1>5, FinishModest DEF MonitorAnswer
<1> QED BY <1>2, <1>3, <1>4, <1>5 DEF Monitor

LEMMA GuardModest == ASSUME TypeOK, Modest, Further, Guard PROVE Modest'
<1> DEFINE g == "guard"
<1>0. job[g] \in Job /\ UNCHANGED <<settings, rows>>
  BY DEF TypeOK, Guard, GuardStart, GuardHold, GuardStale, GuardRejudge,
         GuardAnswer, GuardClose, tables
<1>1. JobModest(g, job[g], granted', stamped') BY StaysModest
<1>2. CASE GuardStart
  <2>1. CASE Become(g, [Idle EXCEPT !.pc = "hold", !.snap = settings])
    <3> DEFINE j == [Idle EXCEPT !.pc = "hold", !.snap = settings]
    <3>1. /\ j.pc = "hold" /\ j.snap = settings /\ j.back = "idle"
          /\ j.known = TRUE
      BY DEF Idle
    <3>2. Become(g, j) BY <2>1
    <3> HIDE DEF j
    <3> QED BY <1>0, <3>1, <3>2, SettingsUnder, StartModest DEF Writing, Informed
  <2>2. CASE Become(g, [Idle EXCEPT !.pc = "hold", !.known = FALSE])
    <3> DEFINE j == [Idle EXCEPT !.pc = "hold", !.known = FALSE]
    <3>1. /\ j.pc = "hold" /\ ~j.snap.widen /\ j.back = "idle"
          /\ j.known = FALSE
      BY DEF Idle, DefaultSettings
    <3>2. Become(g, j) BY <2>2
    <3> HIDE DEF j
    <3> QED BY <1>0, <3>1, <3>2, StartModest DEF Writing, Informed
  <2> QED BY <1>2, <2>1, <2>2 DEF GuardStart
<1>3. ASSUME NEW l \in {"stale", "close"}, Goto(g, l), ~At(g, "idle")
      PROVE  Modest'
  BY <1>0, <1>3, GotoModest DEF Writing, Informed
<1>4. CASE Finish(g) BY <1>0, <1>4, FinishModest
<1>5. CASE GuardHold \/ GuardAnswer \/ GuardClose
  BY <1>3, <1>4, <1>5 DEF GuardHold, GuardAnswer, GuardClose, At
<1>6. CASE GuardStale
  <2>1. ASSUME NEW l \in {"rejudge", "capped?"}, l = "capped?" => job[g].known,
               Become(g, [job[g] EXCEPT !.pc = "find", !.back = l])
        PROVE  Modest'
    <3> DEFINE j == [job[g] EXCEPT !.pc = "find", !.back = l]
    <3>1. /\ j.pc = "find" /\ j.snap = job[g].snap /\ j.known = job[g].known
          /\ j.back = l
      BY <1>0 DEF Job
    <3>2. Become(g, j) /\ ~At(g, "idle") BY <1>6, <2>1 DEF GuardStale, At
    <3> HIDE DEF j
    <3> QED BY <1>0, <2>1, <3>1, <3>2, MoveModest DEF Writing
  <2> QED BY <1>4, <1>6, <2>1 DEF GuardStale
<1>7. CASE GuardRejudge
  <2>1. ASSUME NEW s, NEW k \in BOOLEAN,
               \/ s = settings /\ k
               \/ s = job[g].snap /\ k = job[g].known,
               Become(g, [job[g] EXCEPT !.pc = "close", !.snap = s, !.known = k])
        PROVE  Modest'
    <3> DEFINE j == [job[g] EXCEPT !.pc = "close", !.snap = s, !.known = k]
    <3>1. /\ j.pc = "close" /\ j.snap = s /\ j.known = k
          /\ j.back = job[g].back /\ job[g].pc = "rejudge"
      BY <1>0, <1>7 DEF Job, GuardRejudge, At
    <3>2. Become(g, j) BY <2>1
    <3> HIDE DEF j
    <3>3. JobModest(g, j, granted', stamped')
      BY <1>1, <2>1, <3>1, SettingsUnder DEF JobModest, Writing, Informed
    <3> QED BY <1>0, <3>2, <3>3, StepModest
  <2>2. job[g].known \in BOOLEAN /\ ~At(g, "idle")
    BY <1>0, <1>7 DEF Job, GuardRejudge, At
  <2> QED BY <1>3, <1>4, <1>7, <2>1, <2>2 DEF GuardRejudge
<1> QED BY <1>2, <1>5, <1>6, <1>7 DEF Guard

LEMMA OwnerModest == ASSUME TypeOK, Modest, Further, Owner PROVE Modest'
<1> DEFINE o == "owner"
<1>0. job[o] \in Job /\ UNCHANGED <<settings, rows>>
  BY DEF TypeOK, Owner, OwnerStart, OwnerPress, OwnerKeep, OwnerToggle, tables
<1>1. JobModest(o, job[o], granted', stamped') BY StaysModest
<1>2. ASSUME NEW d, OwnerStart(d) PROVE Modest'
  <2>1. PICK s \in {settings, DefaultSettings}, ui \in BOOLEAN :
           /\ ui => LenientRead(s)
           /\ Become(o, [Idle EXCEPT !.pc = "find", !.snap = s,
                            !.back = "press", !.known = ui, !.word = d])
    BY <1>2 DEF OwnerStart
  <2> DEFINE j == [Idle EXCEPT !.pc = "find", !.snap = s, !.back = "press",
                               !.known = ui, !.word = d]
  <2>2. j.pc = "find" /\ j.snap = s /\ j.back = "press" /\ j.known = ui
    BY DEF Idle
  <2>3. ui => Under(s.limit, granted', stamped')
    BY <2>1, SettingsUnder DEF LenientRead, Further
  <2>4. Become(o, j) BY <2>1
  <2> HIDE DEF j
  <2> QED BY <1>0, <2>2, <2>3, <2>4, StartModest DEF Writing, Informed
<1>3. CASE OwnerPress
  <2> DEFINE k == [job[o] EXCEPT !.row = Newest(Pending), !.back = "idle"]
  <2>0. job[o].pc = "press" /\ ~At(o, "idle") BY <1>3 DEF OwnerPress, At
  <2>1. /\ k.snap = job[o].snap /\ k.known = job[o].known /\ k.back = "idle"
    BY <1>0 DEF Job
  <2>2. CASE Become(o, Rule(k, "mark", "rejected", "owner", "rejected"))
    <3> DEFINE j == Rule(k, "mark", "rejected", "owner", "rejected")
    <3>1. /\ j.pc = "mark" /\ j.snap = job[o].snap /\ j.known = job[o].known
          /\ j.back = "idle"
      BY <1>0 DEF Rule, Job
    <3>2. Become(o, j) BY <2>2
    <3> HIDE DEF j
    <3> QED BY <1>0, <2>0, <3>1, <3>2, MoveModest DEF Writing
  <2>3. ASSUME NEW s \in SettingsSeen(o), SettingsFor(o, s),
               Become(o, Rule([k EXCEPT !.snap = s], "persist", "approved",
                              "owner", "applied"))
        PROVE  Modest'
    <3> DEFINE j == Rule([k EXCEPT !.snap = s], "persist", "approved",
                         "owner", "applied")
    <3>1. /\ j.pc = "persist" /\ j.snap = s /\ j.known = job[o].known
          /\ j.back = "idle"
      BY <1>0 DEF Rule, Job
    <3>2. Become(o, j) BY <2>3
    <3> HIDE DEF j
    <3>3. Under(s.limit, granted', stamped')
      BY <1>1, <2>0, <2>3, ReadUnder DEF JobModest
    <3>4. JobModest(o, j, granted', stamped')
      BY <3>1, <3>3 DEF JobModest, Informed
    <3> QED BY <1>0, <3>2, <3>4, StepModest
  <2> QED BY <1>0, <1>3, <2>2, <2>3, FinishModest DEF OwnerPress
<1>4. CASE OwnerKeep BY <1>0, <1>4, FinishModest DEF OwnerKeep
<1>5. CASE OwnerToggle
  BY <1>5 DEF OwnerToggle, Modest, history
<1> QED BY <1>2, <1>3, <1>4, <1>5 DEF Owner

\* What Settings writes is the snapshot it read, or what the owner types now.
LEMMA DeskModest == ASSUME TypeOK, Modest, Further, Desk PROVE Modest'
<1> DEFINE d == "desk"
           s == job[d].snap
<1>0. job[d] \in Job /\ UNCHANGED rows
  BY DEF TypeOK, Desk, DeskStart, DeskSave, tables
<1>1. CASE DeskStart
  <2> DEFINE j == [Idle EXCEPT !.pc = "save", !.snap = settings]
  <2>1. /\ j.pc = "save" /\ j.snap = settings /\ j.back = "idle"
        /\ j.known = TRUE
    BY DEF Idle
  <2>2. Become(d, j) /\ UNCHANGED settings BY <1>1 DEF DeskStart, tables
  <2> HIDE DEF j
  <2> QED BY <1>0, <2>1, <2>2, SettingsUnder, StartModest DEF Writing, Informed
<1>2. CASE DeskSave
  <2>1. /\ s \in SettingsRow /\ job[d].pc = "save" /\ Finish(d)
    BY <1>0, <1>2 DEF Job, DeskSave, At
  <2>2. Under(s.limit, granted', stamped')
    BY <2>1, StaysModest DEF JobModest
  <2>3. ASSUME NEW f \in Fields, NEW v \in Nat, v \in granted'[f]
        PROVE  v <= v + Step * stamped'
    <3>1. Step * stamped' \in Nat BY StepsAdd DEF Further
    <3> QED BY <3>1
  <2>4. ASSUME NEW f \in Fields, NEW v \in Levels, DeskLimit(f, v)
        PROVE  Under(settings'.limit, granted', stamped')
    <3>1. \A h \in Fields : settings'.limit[h] = IF h = f THEN v ELSE s.limit[h]
      BY <2>1, <2>4 DEF DeskLimit, SettingsRow
    <3>2. v \in Nat /\ v \in granted'[f]
      BY <2>4, LimitExpandAssumption DEF DeskLimit, TypeOK
    <3>3. v <= v + Step * stamped' BY <2>3, <3>2
    <3> QED BY <2>2, <3>1, <3>2, <3>3 DEF Under
  <2>5. ASSUME NEW w, NEW a, DeskPolicy(w, a)
        PROVE  Under(settings'.limit, granted', stamped')
    <3>1. settings'.limit = s.limit BY <2>1, <2>5 DEF DeskPolicy, SettingsRow
    <3> QED BY <2>2, <3>1
  <2>6. ASSUME DeskReset PROVE Under(settings'.limit, granted', stamped')
    <3>1. \A f \in Fields : /\ settings'.limit[f] = DefaultLimit
                            /\ DefaultLimit \in granted'[f]
      BY <2>6 DEF DeskReset, DefaultSettings
    <3>2. \A f \in Fields : DefaultLimit <= DefaultLimit + Step * stamped'
      BY <2>3, <3>1, LimitExpandAssumption
    <3> QED BY <3>1, <3>2 DEF Under
  <2>7. Under(settings'.limit, granted', stamped')
    BY <1>2, <2>4, <2>5, <2>6 DEF DeskSave
  <2> QED BY <1>0, <2>1, <2>7, FinishModest
<1> QED BY <1>1, <1>2 DEF Desk

LEMMA WorldModest == ASSUME TypeOK, Modest, Further, World PROVE Modest'
<1>0. /\ UNCHANGED <<settings, granted, stamped, misread>>
      /\ \A i \in Ids : rows'[i].new = rows[i].new
  BY DEF World, OpenTrade, MetricMove, Tick, Restart, tables, history, TypeOK,
         Request
<1>1. \A p \in Proc : JobModest(p, job'[p], granted, stamped)
  <2>1. TAKE p \in Proc
  <2>2. JobModest(p, job[p], granted, stamped) BY DEF Modest, Further, Grows
  <2>3. CASE job'[p] = Idle
    <3>1. JobModest(p, Idle, granted, stamped)
      BY DEF JobModest, Idle, Writing, Informed
    <3> QED BY <2>3, <3>1
  <2>4. CASE job'[p] = [job[p] EXCEPT !.ticked = TRUE]
    <3> DEFINE j == [job[p] EXCEPT !.ticked = TRUE]
    <3>1. /\ j.pc = job[p].pc /\ j.snap = job[p].snap /\ j.back = job[p].back
          /\ j.known = job[p].known /\ j.quote = job[p].quote
      BY DEF TypeOK, Job
    <3>2. job'[p] = j BY <2>4
    <3> HIDE DEF j
    <3> QED BY <2>2, <3>1, <3>2 DEF JobModest
  <2>5. \/ job'[p] = job[p] \/ job'[p] = Idle
        \/ job'[p] = [job[p] EXCEPT !.ticked = TRUE]
    BY DEF World, OpenTrade, MetricMove, Tick, Restart
  <2> QED BY <2>2, <2>3, <2>4, <2>5
<1> QED BY <1>0, <1>1 DEF Modest, Under

LEMMA InitModest == Init => Modest
<1> SUFFICES ASSUME Init PROVE Modest
  OBVIOUS
<1>1. /\ \A f \in Fields : settings.limit[f] = InitLimit
      /\ \A f \in Fields : InitLimit \in granted[f]
      /\ \A i \in Ids : \A f \in Fields : rows[i].new[f] = 0
      /\ stamped = 0
  <2>1. PICK w \in InitWiden, a \in InitApply :
           settings = [limit |-> [f \in Fields |-> InitLimit],
                       widen |-> w, apply |-> a]
    BY DEF Init
  <2> QED BY <2>1 DEF Init
<1>2. InitLimit \in Nat /\ InitLimit <= InitLimit + Step * 0
      /\ 0 <= InitLimit + Step * 0
  BY LimitExpandAssumption
<1>3. \A p \in Proc : JobModest(p, job[p], granted, stamped)
  BY DEF Init, JobModest, Idle, Writing, Informed
<1> QED BY <1>1, <1>2, <1>3 DEF Modest, Under

LEMMA NextFurther ==
    ASSUME TypeOK, TypeOK', Next, ~misread' PROVE Further
<1>1. stamped \in Nat /\ stamped' \in Nat
  BY LimitExpandAssumption DEF TypeOK
<1>2. \A p \in Proc : Settle(p) => UNCHANGED stamped
  BY DEF Settle, Find, CheckQuota, Weigh, Persist, Mark, Scan, Sweep, Swept,
         Resume, Recheck, tables
<1>3. \A p \in Proc : Ask(p) => UNCHANGED stamped \/ stamped' = stamped + 1
  BY DEF Ask, Capped, Look, Cool, Insert, Reread, tables
<1>4. Monitor \/ Guard => UNCHANGED stamped
  BY DEF Monitor, MonitorStart, MonitorJudge, MonitorPause, MonitorAnswer, Guard,
         GuardStart, GuardHold, GuardStale, GuardRejudge, GuardAnswer,
         GuardClose, tables
<1>5. Owner \/ Desk \/ World => UNCHANGED stamped
  BY DEF Owner, OwnerStart, OwnerPress, OwnerKeep, OwnerToggle, Desk, DeskStart,
         DeskSave, World, OpenTrade, MetricMove, Tick, Restart, tables
<1>6. stamped' = stamped \/ stamped' = stamped + 1
  BY <1>2, <1>3, <1>4, <1>5 DEF Next
<1>7. stamped <= stamped' BY <1>1, <1>6
<1> QED BY <1>1, <1>7, NextGrows DEF Further

LEMMA NextModest == TypeOK /\ TypeOK' /\ Modest /\ [Next]_vars => Modest'
<1> SUFFICES ASSUME TypeOK, TypeOK', Modest, [Next]_vars PROVE Modest'
  OBVIOUS
<1>1. CASE UNCHANGED vars
  BY <1>1 DEF vars, Modest, tables, history
<1>2. CASE misread' BY <1>2 DEF Modest
<1>3. CASE Next /\ ~misread'
  <2>1. Further BY <1>3, NextFurther
  <2> QED
    BY <1>3, <2>1, SettleModest, AskModest, MonitorModest, GuardModest,
       OwnerModest, DeskModest, WorldModest DEF Next
<1> QED BY <1>1, <1>2, <1>3

\* One Step per question: with no read that fell back to the defaults, every
\* limit in force is within one Step per question stamped of a limit the owner
\* chose, whoever settles a question twice or writes a stale row.
THEOREM StepByStep == Spec => []StepPerQuestion
<1>1. Init => Modest BY InitModest
<1>2. TypeOK /\ TypeOK' /\ Modest /\ [Next]_vars => Modest' BY NextModest
<1>3. Modest => StepPerQuestion BY DEF Modest, Under, StepPerQuestion, Within
<1> QED BY <1>1, <1>2, <1>3, TypeCorrect, PTL DEF Spec
=============================================================================
