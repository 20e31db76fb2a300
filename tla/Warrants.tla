------------------------------ MODULE Warrants ------------------------------
(***************************************************************************)
(* The warrant record of kernel/warrants.py and the operations on it.      *)
(* A warrant is an approval to act once.  The court (an operator, an       *)
(* active case, or a peer's court notice) moves its review state; the      *)
(* execution paths move its execution state.  The code keeps the two       *)
(* independent: a review is accepted whatever the execution state is, and  *)
(* marking a warrant executed does not look at the review state again.     *)
(***************************************************************************)

Decisions == {"approve", "stay", "revoke"}

(* "unissued" stands for an id no record of the store has.                 *)
ReviewStates ==
  {"unissued", "pending_review", "auto_issued", "approved", "stayed", "revoked"}

Warrant ==
  [review : ReviewStates, execution : {"ready", "executed"}, expired : BOOLEAN]

Unissued == [review |-> "unissued", execution |-> "ready", expired |-> FALSE]

Exists(w) == w.review # "unissued"

Issued(auto) ==
  [Unissued EXCEPT !.review = IF auto THEN "auto_issued" ELSE "pending_review"]

DecisionAsState == [approve |-> "approve", stay |-> "stay", revoke |-> "revoke"]
ReviewedAs == [approve |-> "approved", stay |-> "stayed", revoke |-> "revoked"]

Reviewed(w, decision) == [w EXCEPT !.review = ReviewedAs[decision]]

Permitted(w) == w.review \in {"auto_issued", "approved"}

ValidForExecution(w) == Permitted(w) /\ w.execution = "ready" /\ ~w.expired

(* Guarded in the code by execution = "ready"; every caller has checked it. *)
MarkedExecuted(w) == [w EXCEPT !.execution = "executed"]

(* What an active case may put on hold.                                    *)
Stayable(w) ==
  /\ Exists(w)
  /\ w.execution = "ready"
  /\ w.review \notin {"stayed", "revoked"}

(***************************************************************************)
(* The state of an execution job whose local warrant is w.                 *)
(***************************************************************************)
JobStates == {"none", "pending_local_warrant", "ready", "blocked", "rejected", "executed"}

JobStateFor(w) ==
  IF w.execution = "executed" THEN "executed"
  ELSE CASE Permitted(w)          -> "ready"
         [] w.review = "stayed"   -> "blocked"
         [] w.review = "revoked"  -> "rejected"
         [] OTHER                 -> "pending_local_warrant"
=============================================================================
