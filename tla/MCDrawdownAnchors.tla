------------------------- MODULE MCDrawdownAnchors -------------------------
(* Small instances of DrawdownAnchors for TLC. *)
EXTENDS DrawdownAnchors, TLC

TwoPnls      == {-3, 3}
ThreePnls    == {-3, 2, 3}
SomePnls     == {-3, 0, 2, 3}
Debit        == {-2}
FewBalances  == {8, 10}
NoMovements  == {}
Unfunded     == {Null}
Funded       == {12}
EitherKind   == {12, Null}

Everything    == StepNames
TickReconcile == {"tick", "reconcile"}
Payouts       == {"tick", "reconcile", "move"}
=============================================================================
