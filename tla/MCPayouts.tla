----------------------------- MODULE MCPayouts ------------------------------
(* Small instances of Payouts for TLC. *)
EXTENDS Payouts, TLC

CONSTANTS a1, a2, y1, y2, s1, s2, x1, x2, k1, k2

OneAccount  == {a1}
TwoAccounts == {a1, a2}
TwoPayouts  == {y1, y2}
OneSession  == {s1}
TwoSessions == {s1, s2}
TwoAdmins   == {x1, x2}
TwoKeys     == {k1, k2}
Win         == {1}
BigDays     == {-100, 100}
One         == {1}
Hundred     == {100}
Anonymous   == Permutations(Sessions) \cup Permutations(Admins) \cup Permutations(Keys)
=============================================================================
