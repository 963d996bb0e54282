---------------------------- MODULE BatchPromise ----------------------------
(***************************************************************************)
(* What llm/batch/base.py asks of a batch backend, and what BatchPipeline  *)
(* builds on: run_batch_sync is one step.  It returns one BatchItemResult  *)
(* per item, a value only where the model service produced one, or it      *)
(* raises; it never returns part of a batch.                               *)
(***************************************************************************)
CONSTANT Items

VARIABLES outcome,    \* "pending", "returned" or "raised"
          answers,    \* what run_batch_sync returned: item -> "value" or "failure"
          produced    \* the items the model service has a valid output for

promiseVars == <<outcome, answers, produced>>

Nothing == [x \in Items |-> "nothing"]

Init == outcome = "pending" /\ answers = Nothing /\ produced = {}

\* The service goes on whether or not anybody still waits for it.
Produce ==
    /\ \E new \in SUBSET Items : produced' = produced \cup new
    /\ UNCHANGED <<outcome, answers>>

Return ==
    /\ outcome = "pending"
    /\ outcome' = "returned"
    /\ answers' = [x \in Items |-> IF x \in produced THEN "value" ELSE "failure"]
    /\ UNCHANGED produced

Raise ==
    /\ outcome = "pending"
    /\ outcome' = "raised"
    /\ UNCHANGED <<answers, produced>>

Next == Produce \/ Return \/ Raise

Spec == Init /\ [][Next]_promiseVars

\* run_batch_sync comes back, however long the service takes.
FairSpec == Spec /\ WF_promiseVars(Return \/ Raise)
=============================================================================
