------------------------- MODULE MCAccountLifecycle -------------------------
(* Small instances of AccountLifecycle for TLC. *)
EXTENDS AccountLifecycle, TLC

CONSTANTS a1, a2, a3, r1, r2, p1, p2

NoAccounts    == {}
OneRoot       == {a1}
ThreeAccounts == {a1, a2, a3}
OneReview     == {r1}
TwoReviews    == {r1, r2}
TwoProcs      == {p1, p2}
=============================================================================
