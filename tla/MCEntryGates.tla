---------------------------- MODULE MCEntryGates ----------------------------
(* Three assets: a dollar pair, a sterling cross whose quote is worth more *)
(* than a dollar, and gold.  The strict plan caps the stops and has one    *)
(* slot; the loose one widens them; the broken one is refused by the       *)
(* validation of the settings.                                             *)
EXTENDS EntryGates

MCAssets == {"EURUSD", "EURGBP", "XAUUSD"}
MCPair == [a \in MCAssets |-> CASE a = "EURUSD" -> <<"EUR", "USD">>
                                [] a = "EURGBP" -> <<"EUR", "GBP">>
                                [] a = "XAUUSD" -> <<"XAU", "USD">>]
MCMetals == {"XAUUSD"}
MCWorth == [a \in MCAssets |-> CASE a = "EURUSD" -> (TRUE :> 2 @@ FALSE :> 2)
                                 [] a = "EURGBP" -> (TRUE :> 3 @@ FALSE :> 2)
                                 [] a = "XAUUSD" -> (TRUE :> 1 @@ FALSE :> 1)]
MCSpread == [a \in MCAssets |-> IF a = "XAUUSD" THEN 4 ELSE 2]

Signal(a, buy, dist, confidence, lots) ==
    [asset |-> a, buy |-> buy, dist |-> dist, confidence |-> confidence,
     lots |-> lots]
MCSignals == {Signal("EURGBP", FALSE, 12, 2, 0),
              Signal("XAUUSD", TRUE, 15, 2, 0)}
MCLegs == {Signal("EURUSD", TRUE, 3, 1, 2)}

Plan(mode, lo, cap, minLot, floor, daily, maxOpen, corr, ccy, careful) ==
    [mode |-> mode, lo |-> lo, hi |-> 24, cap |-> cap, budget |-> 36,
     minLot |-> minLot, daily |-> daily, floor |-> floor, maxOpen |-> maxOpen,
     perDay |-> IF careful THEN 1 ELSE 2, perWeek |-> IF careful THEN 1 ELSE 2,
     corr |-> corr, minConfidence |-> IF mode = "long" THEN 2 ELSE 1,
     ccy |-> ccy, quiet |-> careful, flatten |-> careful]
MCPlans == {Plan("short", 0, TRUE, 1, 3, 90, 1, 50, 50, TRUE),
            Plan("long", 9, FALSE, 2, 2, 100, 2, 100, 0, FALSE),
            Plan("medium", 0, TRUE, 1, 3, 30, 2, 100, 60, FALSE)}
MCNewsOf == "USD"
MCOutages == {{"pause"}, {"kill", "cooldown"}, {"journal"} \cup BookReads, NewsReads}
=============================================================================
