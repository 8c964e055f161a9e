----------------------------- MODULE BatchPromise -----------------------------
(***************************************************************************)
(* What a batch of delegates promises to the orchestrator that spawned it  *)
(* (nls/agentic/delegate_manager.py, class DelegateManager): the batch is  *)
(* announced once all its delegates have ended, and opened again when one  *)
(* of them is rewoken.  The promise of a batch can also be given up: then  *)
(* nothing is owed any more.                                               *)
(***************************************************************************)
CONSTANTS Batches, Numbers

VARIABLES
  owed,  \* the delegates of each batch that have not ended
  status \* "unused", "open", "announced" or "void"

vars == <<owed, status>>

Init ==
  /\ owed = [b \in Batches |-> {}]
  /\ status = [b \in Batches |-> "unused"]

Open(b) ==
  /\ status[b] = "unused"
  /\ \E S \in (SUBSET Numbers) \ {{}} : owed' = [owed EXCEPT ![b] = S]
  /\ status' = [status EXCEPT ![b] = "open"]

Finish(b) ==
  /\ status[b] = "open"
  /\ \E n \in owed[b] : owed' = [owed EXCEPT ![b] = @ \ {n}]
  /\ status' = [status EXCEPT ![b] = IF owed'[b] = {} THEN "announced" ELSE "open"]

Reopen(b) ==
  /\ status[b] \in {"open", "announced"}
  /\ \E n \in Numbers \ owed[b] : owed' = [owed EXCEPT ![b] = @ \cup {n}]
  /\ status' = [status EXCEPT ![b] = "open"]

GiveUp(S) ==
  /\ owed' = [b \in Batches |-> IF b \in S THEN {} ELSE owed[b]]
  /\ status' = [b \in Batches |-> IF b \in S THEN "void" ELSE status[b]]

Next ==
  \/ \E b \in Batches : Open(b) \/ Finish(b) \/ Reopen(b)
  \/ \E S \in SUBSET Batches : GiveUp(S)

SafeSpec == Init /\ [][Next]_vars

(* An open batch does not wait for ever for its next delegate. *)
Spec == SafeSpec /\ \A b \in Batches : WF_vars(Finish(b))

=============================================================================
