------------------------- MODULE MCIdempotencyClaims ------------------------
(* Small instances of IdempotencyClaims for TLC. *)
EXTENDS IdempotencyClaims, TLC

CONSTANTS r1, r2, r3, k1, k2

TwoRequests   == {r1, r2}
ThreeRequests == {r1, r2, r3}
OneKey        == {k1}
TwoKeys       == {k1, k2}
Anonymous     == Permutations(Requests) \cup Permutations(Keys)
=============================================================================
