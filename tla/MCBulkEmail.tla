---------------------------- MODULE MCBulkEmail ----------------------------
(***************************************************************************)
(* Instances of BulkEmail for TLC: who the users are, what may go wrong.   *)
(***************************************************************************)
EXTENDS BulkEmailProperties, TLC

CONSTANTS r1, r2, r3, w1, w2

Users2 == {r1, r2}
Users3 == {r1, r2, r3}
OneWorker == {w1}
TwoWorkers == {w1, w2}

AllOutcomes == {"sent", "refused", "throttled", "disconnected", "fatal"}

UserSymmetry == Permutations(Recipient)
=============================================================================
