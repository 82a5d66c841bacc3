------------------------------ MODULE MCStudy ------------------------------
(***************************************************************************)
(* With SPIKE_PCT at 20 a rise from 100 to 121 is quarantined, a fall from *)
(* 121 to 100 is not.  A run of two days reads back fewer rows than one of *)
(* four has stored.                                                        *)
(***************************************************************************)
EXTENDS Study

Asks == {[target |-> 2, rounds |-> 0, days |-> 4],
         [target |-> 2, rounds |-> 3, days |-> 2]}

\* prices over two runs; one run beside its owner, cut by a deploy; the rows of
\* several runs beside the keeper and a deploy
SceneSets == {{"feed", "rerun"}, {"analyst", "owner", "deploy"},
              {"keeper", "deploy", "owner", "rerun"}}
=============================================================================
