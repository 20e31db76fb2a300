--------------------------- MODULE WarrantsProofs ---------------------------
(***************************************************************************)
(* What the operations on a warrant change, and what they leave alone.     *)
(***************************************************************************)
EXTENDS Warrants, TLAPS

(* A review changes the review state only.                                 *)
LEMMA ReviewedWarrant ==
  ASSUME NEW w \in Warrant, NEW d \in Decisions
  PROVE  /\ Reviewed(w, d) \in Warrant
         /\ Exists(Reviewed(w, d))
         /\ Reviewed(w, d).execution = w.execution
         /\ Reviewed(w, d).expired = w.expired
BY DEF Warrant, Decisions, Reviewed, ReviewedAs, ReviewStates, Exists

(* Execution changes the execution state only.                             *)
LEMMA MarkedWarrant ==
  ASSUME NEW w \in Warrant
  PROVE  /\ MarkedExecuted(w) \in Warrant
         /\ MarkedExecuted(w).execution = "executed"
         /\ MarkedExecuted(w).review = w.review
         /\ MarkedExecuted(w).expired = w.expired
BY DEF Warrant, MarkedExecuted

(* A new warrant exists, is ready and has not expired.                     *)
LEMMA IssuedWarrant ==
  ASSUME NEW auto \in BOOLEAN
  PROVE  /\ Issued(auto) \in Warrant
         /\ Exists(Issued(auto))
         /\ Issued(auto).execution = "ready"
         /\ Issued(auto).expired = FALSE
BY DEF Warrant, Issued, Unissued, ReviewStates, Exists

(* An id no record has is a warrant that is ready and does not exist.      *)
LEMMA UnissuedWarrant ==
  /\ Unissued \in Warrant
  /\ ~Exists(Unissued)
  /\ Unissued.execution = "ready"
BY DEF Warrant, Unissued, ReviewStates, Exists

(* Expiry keeps a warrant a warrant.                                       *)
LEMMA ExpiredWarrant ==
  ASSUME NEW w \in Warrant
  PROVE  /\ [w EXCEPT !.expired = TRUE] \in Warrant
         /\ [w EXCEPT !.expired = TRUE].execution = w.execution
         /\ [w EXCEPT !.expired = TRUE].review = w.review
         /\ [w EXCEPT !.expired = TRUE].expired = TRUE
BY DEF Warrant

(* The job state of a warrant is one of the job states, never "none".      *)
LEMMA JobStateOfWarrant ==
  ASSUME NEW w \in Warrant
  PROVE  /\ JobStateFor(w) \in JobStates \ {"none"}
         /\ JobStateFor(w) = "executed" <=> w.execution = "executed"
BY DEF Warrant, JobStateFor, JobStates, Permitted, ReviewStates
=============================================================================
