-------------------------- MODULE MCChallengeOrders -------------------------
(* Small instances of ChallengeOrders for TLC. *)
EXTENDS ChallengeOrders, TLC

CONSTANTS o1, o2, o3, c1, c2, a1, a2, r1, r2, w1, w2

OneOrder    == {o1}
ThreeOrders == {o1, o2, o3}
OneSession  == {c1}
TwoSessions == {c1, c2}
OneAccount  == {a1}
TwoAccounts == {a1, a2}
OneRequest  == {r1}
TwoRequests == {r1, r2}
OneWorker   == {w1}
TwoWorkers  == {w1, w2}
Stripe      == {"stripe"}
Either      == {"stripe", "free"}
Anonymous   == Permutations(Accounts) \cup Permutations(Requests)
               \cup Permutations(Workers)
=============================================================================
