-------------------------- MODULE MCSessionClose --------------------------
(* Small instances of SessionClose for TLC. *)
EXTENDS SessionClose, TLC

CONSTANTS t1, t2, s1, s2, p1, p2

OneTrade    == {t1}
TwoSessions == {s1, s2}
OneProcess  == {p1}
Alone       == [s \in Sessions |-> p1]
NoOvernight == [j \in Jobs |-> IF j = "flat" THEN {t1} ELSE Trades]
=============================================================================
