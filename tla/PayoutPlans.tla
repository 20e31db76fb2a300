----------------------------- MODULE PayoutPlans ----------------------------
(***************************************************************************)
(* Plans of payouts.  A dry run of an execution leaves a preview and a     *)
(* record of the execution queue; an operator acknowledges the preview;    *)
(* an acknowledged preview is promoted to a candidate for approval.  Three *)
(* stores, each under a lock of its own: the promotion reads the preview   *)
(* without the preview store's lock and saves the candidate afterwards,    *)
(* and a save of a dry run that fails is swallowed.  Other writers put     *)
(* fields of their own into the preview and candidate stores.              *)
(***************************************************************************)
EXTENDS Naturals, FiniteSets

CONSTANTS
  Plans,       \* preview ids, each also the id of its candidate and record
  NoRecord,    \* no record
  MaxFaults    \* bound on the saves that fail

ASSUME PlanAssumptions == MaxFaults \in Nat /\ IsFiniteSet(Plans)

VARIABLES
  executable,  \* whether the gates of an execution are open
  planPreviews,  \* payout_plan_previews
  candidates,  \* payout_plan_approval_candidates
  records,     \* payout_execution_records: the ids that are queued
  promotion,   \* what a running promotion read: an id and its preview
  worthy,      \* history: ids once acknowledged and unsettled at once
  faults       \* history: how many saves of dry runs failed

planVars == <<executable, planPreviews, candidates, records, promotion, worthy, faults>>

(* A writer of its own may move a record to another state or put one of    *)
(* the two settlement flags on it: "blocked" stands for "superseded" too,  *)
(* "settled" for either flag.                                              *)
PreviewStates == {"previewed", "blocked"}
CandidateStates == {"candidate", "blocked"}

Preview == [state : PreviewStates, acknowledged : BOOLEAN, settled : BOOLEAN]
Candidate == [state : CandidateStates, ready : BOOLEAN, settled : BOOLEAN, snapshot : Preview]
ASSUME NoRecordIsNone == NoRecord \notin Preview /\ NoRecord \notin [id : Plans, preview : Preview]

PlanTypeOK ==
  /\ executable \in BOOLEAN
  /\ planPreviews \in [Plans -> Preview \union {NoRecord}]
  /\ candidates \in [Plans -> Candidate \union {NoRecord}]
  /\ records \subseteq Plans
  /\ promotion \in [id : Plans, preview : Preview] \union {NoRecord}
  /\ worthy \subseteq Plans
  /\ faults \in 0..MaxFaults

PlanInit ==
  /\ executable = TRUE
  /\ planPreviews = [id \in Plans |-> NoRecord] /\ candidates = [id \in Plans |-> NoRecord]
  /\ records = {} /\ promotion = NoRecord
  /\ worthy = {} /\ faults = 0

(* What the operator sees of a record.                                     *)
PreviewInspection(r) ==
  CASE r.settled -> "settled"
    [] ~r.settled /\ r.state = "blocked" -> "blocked"
    [] ~r.settled /\ r.state = "previewed" /\ r.acknowledged -> "acknowledged"
    [] OTHER -> "ready_for_ack"
CandidateInspection(r) ==
  CASE r.settled -> "settled"
    [] ~r.settled /\ r.state = "blocked" -> "blocked"
    [] ~r.settled /\ r.state = "candidate" /\ r.ready -> "ready_for_approval"
    [] OTHER -> "candidate_recorded"

Promotable(r) == ~r.settled /\ r.acknowledged
SavePreview(id, r) ==
  /\ planPreviews' = [planPreviews EXCEPT ![id] = r]
  /\ worthy' = IF Promotable(r) THEN worthy \union {id} ELSE worthy

(* The proposal is executed, cancelled, or the phase or the reserve closes *)
(* the gate; or the gate opens again.                                      *)
MoveGate ==
  /\ executable' = ~executable
  /\ UNCHANGED <<planPreviews, candidates, records, promotion, worthy, faults>>

(* The execution queue normalizes what it is given under the plan's id.    *)
Queued(ids, id) == ids \union {id}

(* The preview store and the execution queue are saved one after the       *)
(* other; an error of either save is reported in the answer and no more.   *)
DryRun(id, saved) ==
  /\ executable
  /\ planPreviews[id] = NoRecord /\ id \notin records
  /\ faults + Cardinality({"preview", "record"} \ saved) <= MaxFaults
  /\ faults' = faults + Cardinality({"preview", "record"} \ saved)
  /\ IF "preview" \in saved
     THEN SavePreview(id, [state |-> "previewed", acknowledged |-> FALSE, settled |-> FALSE])
     ELSE UNCHANGED <<planPreviews, worthy>>
  /\ records' = IF "record" \in saved THEN Queued(records, id) ELSE records
  /\ UNCHANGED <<executable, candidates, promotion>>

AcknowledgePlan(id) ==
  /\ planPreviews[id] # NoRecord
  /\ SavePreview(id, [planPreviews[id] EXCEPT !.acknowledged = TRUE])
  /\ UNCHANGED <<executable, candidates, records, promotion, faults>>

(* Fields that are given replace those of the record, the acknowledgement  *)
(* too, and others stay: a record may become any other.                    *)
UpsertPlanPreview(id, given) ==
  /\ planPreviews[id] # NoRecord
  /\ SavePreview(id, given)
  /\ UNCHANGED <<executable, candidates, records, promotion, faults>>

ReadForPromotionUnsettled(id) ==
  /\ promotion = NoRecord
  /\ planPreviews[id] # NoRecord /\ ~planPreviews[id].settled
  /\ promotion' = [id |-> id, preview |-> planPreviews[id]]
  /\ UNCHANGED <<executable, planPreviews, candidates, records, worthy, faults>>

ReadForPromotion(id) ==
  /\ promotion = NoRecord
  /\ planPreviews[id] # NoRecord /\ Promotable(planPreviews[id])
  /\ promotion' = [id |-> id, preview |-> planPreviews[id]]
  /\ UNCHANGED <<executable, planPreviews, candidates, records, worthy, faults>>

(* Whatever the candidate was: its state and its settlement flags are      *)
(* those of a candidate promoted for the first time.                       *)
Promote ==
  /\ promotion # NoRecord
  /\ candidates' = [candidates EXCEPT ![promotion.id] =
       [state |-> "candidate", ready |-> TRUE, settled |-> FALSE, snapshot |-> promotion.preview]]
  /\ promotion' = NoRecord
  /\ UNCHANGED <<executable, planPreviews, records, worthy, faults>>

(* A writer of its own may also say whether the candidate is ready.        *)
UpsertCandidate(id, state, settled, ready) ==
  /\ candidates[id] # NoRecord
  /\ candidates' =
       [candidates EXCEPT ![id].state = state, ![id].settled = settled, ![id].ready = ready]
  /\ UNCHANGED <<executable, planPreviews, records, promotion, worthy, faults>>

PlanNext ==
  \/ MoveGate \/ Promote
  \/ \E id \in Plans :
       \/ AcknowledgePlan(id) \/ ReadForPromotion(id)
       \/ \E saved \in SUBSET {"preview", "record"} : DryRun(id, saved)
       \/ \E given \in Preview : UpsertPlanPreview(id, given)
       \/ \E state \in CandidateStates, settled \in BOOLEAN, ready \in BOOLEAN :
            UpsertCandidate(id, state, settled, ready)

PlanSpec == PlanInit /\ [][PlanNext]_planVars

-----------------------------------------------------------------------------
(* A plan that waits for approval was, at one moment, acknowledged and     *)
(* without any sign of settlement, although the promotion saves what it    *)
(* read before another writer changed the preview; and what it carries to  *)
(* the approver is a plan the operator acknowledged.                       *)
ApprovalWasEarned ==
  \A id \in Plans :
    candidates[id] # NoRecord /\ CandidateInspection(candidates[id]) = "ready_for_approval" =>
      id \in worthy /\ PreviewInspection(candidates[id].snapshot) \in {"acknowledged", "blocked"}

(* The preview store and the execution queue know the same plans, but for  *)
(* as many as saves were swallowed.                                        *)
QueuesAgree == Cardinality({id \in Plans : (planPreviews[id] = NoRecord) # (id \notin records)}) <= faults
=============================================================================
