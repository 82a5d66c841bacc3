---------------------------- MODULE LimitPolicy ----------------------------
(***************************************************************************)
(* What the expansion flow promises the owner, without its processes, its  *)
(* database calls and its clock: a question is put once and closed once,   *)
(* and a limit only ever takes a value the owner chose, until the owner    *)
(* trusts silence to choose.  LimitExpand is shown to implement it.        *)
(***************************************************************************)
EXTENDS Naturals

CONSTANTS Fields, Ids

VARIABLES
    limit,    \* the limits in force
    chosen,   \* per field, the values the owner has chosen so far
    trusting, \* auto-widen has been on, or the settings could not be read
    question  \* what became of each request

vars == <<limit, chosen, trusting, question>>

Chosen(limits, values) == \A f \in Fields : limits[f] \in values[f]

Init ==
    /\ limit \in [Fields -> Nat] /\ chosen = [f \in Fields |-> {limit[f]}]
    /\ trusting \in BOOLEAN
    /\ question = [i \in Ids |-> "unasked"]

\* what the owner chose stays chosen
Remembered == \A f \in Fields : chosen[f] \subseteq chosen'[f]

\* a request is filed
Ask(i) ==
    /\ question[i] = "unasked"
    /\ question' = [question EXCEPT ![i] = "open"]
    /\ UNCHANGED <<limit, chosen, trusting>>

\* it is approved, rejected, superseded or left to lapse
Close(i) ==
    /\ question[i] = "open"
    /\ question' = [question EXCEPT ![i] = "closed"]
    /\ UNCHANGED <<limit, chosen, trusting>>

\* the owner saves a setting or approves a quote; of two decisions that cross,
\* the limits may end on either
Decide ==
    /\ limit' \in [Fields -> Nat] /\ chosen' \in [Fields -> SUBSET Nat]
    /\ Remembered /\ Chosen(limit', chosen')
    /\ UNCHANGED <<trusting, question>>

\* silence decides too, for an owner who trusts it
Trust ==
    /\ trusting'
    /\ limit' \in [Fields -> Nat] /\ chosen' \in [Fields -> SUBSET Nat]
    /\ Remembered
    /\ UNCHANGED question

Next ==
    \/ \E i \in Ids : Ask(i)
    \/ \E i \in Ids : Close(i)
    \/ Decide \/ Trust

Spec == Init /\ [][Next]_vars
=============================================================================
