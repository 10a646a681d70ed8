---------------------------- MODULE MCTradeIndex ----------------------------
(* Two trades of one account.  Prices start at one value, and the second     *)
(* trade is not an order at first: the routes can make it one.               *)
EXTENDS TradeIndex, TLC

CONSTANTS t1, t2, a1, p1, p2

OneBook  == (t1 :> a1) @@ (t2 :> a1)
OneTrade == t1 :> a1

OneStart ==
  /\ Init
  /\ \A t \in Trades : market[t] = 1
  /\ t2 \in Trades => row[t2] # "pending"
WatchSpec == OneStart /\ [][Next]_vars /\ Fairness
=============================================================================
