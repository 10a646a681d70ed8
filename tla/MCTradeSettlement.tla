------------------------- MODULE MCTradeSettlement -------------------------
(* Small instances of TradeSettlement for TLC. *)
EXTENDS TradeSettlement, TLC

CONSTANTS a1, a2, t1, t2, t3, p1, p2

OneAccount == {a1}
TwoAccounts == {a1, a2}
Split      == [t \in Trades |-> IF t = t2 THEN a2 ELSE a1]
TwoRows    == {t1, t2}
ThreeRows  == {t1, t2, t3}
OnA1       == [t \in Trades |-> a1]
TwoProcs   == {p1, p2}
Anonymous  == Permutations(Procs)

OneOpen  == {t1}
OnePending == {t1}
TwoOpen  == {t1, t2}
TwoPending == {t1, t2}
NoRows   == {}
Unpaired == [t \in Trades |-> Null]

TwoPrices == {1, 3}
OnePrice  == {2}
=============================================================================
