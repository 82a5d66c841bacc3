------------------------- MODULE LimitExpandClaims -------------------------
(* What a comment on the expansion flow says where its interleavings do    *)
(* something else.                                                         *)
EXTENDS LimitExpand

\* "Confirmation gate: NEVER close without first asking" (_emergency_exit): the
\* guard closes the book only after a request was filed.
AskedFirst == At("guard", "close") => Inserted # {}
=============================================================================
