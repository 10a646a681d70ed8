---------------------------- MODULE MCEmailQueue ----------------------------
(* Small instances of EmailQueue for TLC. *)
EXTENDS EmailQueue, TLC

CONSTANTS j1, j2, w1, w2

TwoJobs    == {j1, j2}
OneWorker  == {w1}
TwoWorkers == {w1, w2}
Anonymous  == Permutations(Workers) \cup Permutations(Jobs)
=============================================================================
