---------------------------- MODULE AccountClaims ----------------------------
(***************************************************************************)
(* What docstrings say of the measures of the account where they do        *)
(* something else.  Each property quotes one line; the run that checks it  *)
(* finds the behaviour that contradicts it.                                *)
(***************************************************************************)
EXTENDS MCAlerts

\* "Safety gates must distinguish 'no rows' from 'read failed'" (select_ex of
\* Database): a cycle with a failed read never pauses an account that the same
\* cycle would have left trading, had every read answered.
NoPhantomLoss ==
    [][\A failed \in SUBSET A!Calls :
           bench = "account" /\ A!Cycle(failed) /\ measured' => A!Paused({})]_allVars

\* "snapshots above 3x current capital are ignored" (equity_drawdown_pct): the
\* ones that are not count, so a drop from one of them beyond the limit engages
\* the kill switch however deep it is.
RuinSeen ==
    bench = "account" =>
        \A d \in DOMAIN curve :
            /\ curve[d] <= 3 * capital /\ A!Current(curve) > 0
            /\ A!Exceeds(curve[d] - A!Current(curve), curve[d], 20)
            => A!KillDrawdown(curve)
==============================================================================
