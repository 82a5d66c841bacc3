---------------------------- MODULE MCTradeBook ----------------------------
(* A small instance of TradeBook: signals of two assets. *)
EXTENDS TradeBook, TLC

CONSTANTS eur, xau, s1, s2

TwoAssets == {eur, xau}
OneAsset == {eur}
AssetSymmetry == Permutations(TwoAssets)
NoSignals == {}
OneSignal == {s1}
TwoSignals == {s1, s2}
OfEur == [g \in Signals |-> eur]
OneEach == (s1 :> eur) @@ (s2 :> xau)
=============================================================================
