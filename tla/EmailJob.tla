------------------------------ MODULE EmailJob ------------------------------
(***************************************************************************)
(* What a bulk email job promises to the staff who watch its progress: its *)
(* subtasks are named once, each is settled once and for all, the job is a *)
(* SUCCESS exactly when the last of them has been settled, and it may end  *)
(* in FAILURE only before that.                                            *)
(***************************************************************************)
EXTENDS Integers

CONSTANT SubtaskId

VARIABLES
  state,    \* of the job
  outcome   \* of each subtask that has been named

vars == <<state, outcome>>

Named == DOMAIN outcome

Init ==
  /\ state = "QUEUING"
  /\ outcome = [id \in {} |-> "open"]

Start ==
  /\ state = "QUEUING"
  /\ state' = "PROGRESS"
  /\ UNCHANGED outcome

Name ==
  /\ state = "PROGRESS"
  /\ Named = {}
  /\ \E ids \in (SUBSET SubtaskId) \ {{}} : outcome' = [id \in ids |-> "open"]
  /\ UNCHANGED state

Settle(id) ==
  /\ state = "PROGRESS"
  /\ outcome[id] = "open"
  /\ \E result \in {"SUCCESS", "FAILURE"} : outcome' = [outcome EXCEPT ![id] = result]
  /\ state' = IF \A other \in Named \ {id} : outcome[other] # "open"
              THEN "SUCCESS" ELSE "PROGRESS"

Fail ==
  /\ state = "PROGRESS"
  /\ state' = "FAILURE"
  /\ UNCHANGED outcome

Next == Start \/ Name \/ Fail \/ \E id \in Named : Settle(id)

Spec == Init /\ [][Next]_vars

\* The job goes on until it is over.
FairSpec == Spec /\ WF_vars(Next)
=============================================================================
