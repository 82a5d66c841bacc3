------------------------------ MODULE Evidence ------------------------------
(***************************************************************************)
(* The snapshot of one asset, one indicator moving at a time: what the     *)
(* comments of engine/strategy_engine.py and core/thesis_validation.py     *)
(* promise of the numbers made from it.                                    *)
(***************************************************************************)
EXTENDS Setup

CONSTANT Values  \* what each field of a snapshot may be
VARIABLE ind     \* the snapshot

SetupInit == ind \in [gap : Values.gap, adx : Values.adx, st : Values.st,
                      rsi : Values.rsi, atr : Values.atr, sent : Values.sent,
                      news : BOOLEAN, brk : Values.brk]
Moves(f) == \E v \in Values[f] : v # ind[f] /\ ind' = [ind EXCEPT ![f] = v]
SetupNext == \E f \in {"gap", "adx", "st", "rsi", "atr", "sent", "brk"} : Moves(f)

(***************************************************************************)
(* Properties                                                              *)
(***************************************************************************)
Mirror(s) == [s EXCEPT !.gap = -@, !.st = -@, !.rsi = 100 - @, !.sent = -@]

\* "Direction-aware and symmetric (BUY-in-uptrend == SELL-in-downtrend)"
\* (evidence_confidence) and "a bearish setup is graded with the same symmetric
\* math as a bullish one": short of EMAs that coincide, and of an RSI at an end
\* of its scale, where 0 reads as unknown.
Symmetric ==
    (ind.gap # 0 /\ ind.rsi \in 1..99) =>
        /\ Score(ind, "BUY") = Score(Mirror(ind), "SELL")
        /\ Confidence(ind, "BUY") = Confidence(Mirror(ind), "SELL")

\* the step moved one field in favour of a side
Nearer(side, f) ==
    \/ f \in {"gap", "st", "sent"} /\ Sign(side) * ind'[f] > Sign(side) * ind[f]
    \/ f = "adx" /\ ind'[f] > ind[f] /\ ind[f] > 0

\* More evidence for a side never makes it score less or be trusted less: the
\* trend turns its way, hardens, the Supertrend or the news join it; a source
\* that was silent may only cost what an average source gives.
MoreIsMore ==
    [][\A side \in Sides : \A f \in {"gap", "st", "sent", "adx"} :
          Nearer(side, f) =>
             /\ Score(ind, side)' >= Score(ind, side)
             /\ (\A v \in {"st", "macd", "sent"} :
                    Votes(ind, side)'[v] = 0 <=> Votes(ind, side)[v] = 0)
                   => Confidence(ind, side)' >= Confidence(ind, side)]_ind

\* The second confirmation of the thesis check is the EMA once more: Supertrend
\* and MACD together never refuse an order that the trend alone let through.
CorroborationIsTrend ==
    \A side \in Sides :
        LET codes == Codes(Gold, side, FromFeed(ind), FALSE)
        IN  "thesis_corroboration_failed" \in codes => "trend_flipped" \in codes
=============================================================================
