-------------------------- MODULE MCInstructorTask --------------------------
(***************************************************************************)
(* Instances of InstructorTask for TLC.                                    *)
(***************************************************************************)
EXTENDS InstructorTaskProperties, TLC

CONSTANTS u1, u2, w1, w2, v1

TwoRequesters == {u1, u2}
TwoWorkers == {w1, w2}
OneWatcher == {v1}

Symmetric == Permutations(Requester) \cup Permutations(Worker)
=============================================================================
