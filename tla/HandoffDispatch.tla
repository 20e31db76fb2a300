-------------------------- MODULE HandoffDispatch --------------------------
(***************************************************************************)
(* How a request for an institution this host does not serve becomes a     *)
(* federation envelope.  The routing planner turns the admission registry  *)
(* and the peer registry into a preview (reading the status page saves     *)
(* it), an operator acknowledges the preview, which promotes it to a       *)
(* dispatch record, and the dispatch runner sends an execution_request to  *)
(* the peer under a warrant.  Four stores move without a transaction: the  *)
(* preview queue, the dispatch queue, the warrants, and the peer's own     *)
(* jobs; a crash or a lost answer separates them.                          *)
(***************************************************************************)
EXTENDS Integers, Sequences, FiniteSets

CONSTANTS
  Orgs,           \* institutions other than the bound one
  Hosts,          \* peer host ids, as the numbers of their sort order
  PeerChoices,    \* registry entries the operator may give a peer
  Statuses,       \* admission states the operator may give an institution
  Warrants,       \* approved warrants for federated execution
  LocalRecords,   \* dispatch records whose target is the bound institution
  Absent,           \* no record, no peer, no evidence
  MaxEnvelopes,   \* bound on the envelopes sent
  MaxPromotions   \* bound on the promotions of one handoff

ASSUME HostsAreSorted == Hosts \subseteq Nat
ASSUME AbsentIsNothing == Absent \notin Hosts \union Warrants \union LocalRecords \union Nat
ASSUME BoundsAreNumbers == MaxEnvelopes \in Nat /\ MaxPromotions \in Nat

EntryStates == {"trusted", "suspended", "revoked"}
AdmissionStates == {"admitted", "suspended", "revoked"}
PeerEntry == [trust : EntryStates, orgs : SUBSET Orgs, endpoint : BOOLEAN]
ASSUME ChoicesAreEntries == PeerChoices \subseteq PeerEntry /\ Statuses \subseteq AdmissionStates

(* A handoff id is a hash of the institution and the peer it is routed to. *)
Handoffs == Orgs \X Hosts
PeerOf(h) == h[2]

VARIABLES
  peers,       \* the peer registry: an entry, or Absent
  admission,   \* the admission registry: a status, or Absent
  previews,    \* the preview queue: [acknowledged], or Absent
  queue,       \* the dispatch queue: [state, evidence], or Absent
  warrant,     \* "ready" or "executed"
  envelopes,   \* history: the envelopes sent, in order
  promotions,  \* history: how often each handoff was promoted
  local        \* dispatch records and jobs of the bound institution

registryVars == <<peers, admission>>
sendVars == <<warrant, envelopes>>
handoffVars == <<registryVars, previews, queue, sendVars, promotions, local>>

Envelope == [handoff : Handoffs, warrant : Warrants, linked : BOOLEAN,
             applied : BOOLEAN, recorded : BOOLEAN]
DispatchStates == {"dispatchable", "dispatched"}

HandoffTypeOK ==
  /\ peers \in [Hosts -> PeerEntry \union {Absent}]
  /\ admission \in [Orgs -> AdmissionStates \union {Absent}]
  /\ previews \in [Handoffs -> [acknowledged : BOOLEAN] \union {Absent}]
  /\ queue \in [Handoffs -> [state : DispatchStates, evidence : Nat \union {Absent}] \union {Absent}]
  /\ warrant \in [Warrants -> {"ready", "executed"}]
  /\ envelopes \in Seq(Envelope) /\ Len(envelopes) <= MaxEnvelopes
  /\ promotions \in [Handoffs -> 0..MaxPromotions]
  /\ local \in [LocalRecords -> [state : DispatchStates \union {Absent},
                                 job : {Absent, "blocked", "pending", "executed"}]]

HandoffInit ==
  /\ peers = [p \in Hosts |-> Absent]
  /\ admission = [o \in Orgs |-> Absent]
  /\ previews = [h \in Handoffs |-> Absent]
  /\ queue = [h \in Handoffs |-> Absent]
  /\ warrant = [w \in Warrants |-> "ready"]
  /\ envelopes = <<>>
  /\ promotions = [h \in Handoffs |-> 0]
  /\ local = [l \in LocalRecords |-> [state |-> Absent, job |-> Absent]]

-----------------------------------------------------------------------------
(***************************************************************************)
(* The operator's registries.                                              *)
(***************************************************************************)
RegisterPeer(p, entry) ==
  /\ peers' = [peers EXCEPT ![p] = entry]
  /\ UNCHANGED <<admission, previews, queue, sendVars, promotions, local>>

SetPeerTrust(p, state) ==
  /\ peers[p] # Absent
  /\ peers' = [peers EXCEPT ![p].trust = state]
  /\ UNCHANGED <<admission, previews, queue, sendVars, promotions, local>>

MutateAdmission(o, status) ==
  /\ admission' = [admission EXCEPT ![o] = status]
  /\ UNCHANGED <<peers, previews, queue, sendVars, promotions, local>>

(***************************************************************************)
(* Routing: an institution admitted here is never reached through a peer;  *)
(* of the peers that admit the others, the first trusted one with an       *)
(* endpoint serves.                                                        *)
(***************************************************************************)
Serving(o) ==
  {p \in Hosts : /\ peers[p] # Absent
                 /\ o \in peers[p].orgs
                 /\ peers[p].trust = "trusted"
                 /\ peers[p].endpoint}

RouteOf(o) ==
  IF admission[o] = "admitted" \/ Serving(o) = {}
    THEN Absent
    ELSE CHOOSE p \in Serving(o) : \A q \in Serving(o) : p <= q

(* The planner's candidates: institutions named by either registry.        *)
RoutedHandoffs == {h \in Handoffs : RouteOf(h[1]) = PeerOf(h)}

(* An upsert keeps what the new preview does not say: the acknowledgement. *)
UpsertPreview(record) == IF record = Absent THEN [acknowledged |-> FALSE] ELSE record

(* Reading /api/status or /api/federation persists every remote preview.   *)
PreviewRoutes ==
  /\ previews' = [h \in Handoffs |-> IF h \in RoutedHandoffs THEN UpsertPreview(previews[h])
                                                              ELSE previews[h]]
  /\ UNCHANGED <<registryVars, queue, sendVars, promotions, local>>

(***************************************************************************)
(* The operator acknowledges a preview, which promotes it.  The record is  *)
(* dispatchable again, whatever it was, and keeps its delivery evidence.   *)
(***************************************************************************)
Promoted(record) ==
  [state |-> "dispatchable", evidence |-> IF record = Absent THEN Absent ELSE record.evidence]

Acknowledge(h) ==
  /\ previews[h] # Absent
  /\ promotions[h] < MaxPromotions
  /\ previews' = [previews EXCEPT ![h].acknowledged = TRUE]
  /\ queue' = [queue EXCEPT ![h] = Promoted(@)]
  /\ promotions' = [promotions EXCEPT ![h] = @ + 1]
  /\ UNCHANGED <<registryVars, sendVars, local>>

(* A crash between the two queues.                                         *)
AcknowledgeInterrupted(h) ==
  /\ previews[h] # Absent
  /\ previews' = [previews EXCEPT ![h].acknowledged = TRUE]
  /\ UNCHANGED <<registryVars, queue, sendVars, promotions, local>>

-----------------------------------------------------------------------------
(***************************************************************************)
(* The dispatch runner, remote target.  A dispatched record that holds its *)
(* delivery answers with it and sends nothing.                             *)
(***************************************************************************)
NeverDispatchedBefore(h) == FALSE

AlreadyDispatched(h) == queue[h].state = "dispatched" /\ queue[h].evidence # Absent

Deliverable(h, w) ==
  /\ queue[h] # Absent
  /\ ~AlreadyDispatched(h)
  /\ warrant[w] = "ready"
  /\ peers[PeerOf(h)] # Absent
  /\ peers[PeerOf(h)].trust = "trusted"
  /\ peers[PeerOf(h)].endpoint
  /\ Len(envelopes) < MaxEnvelopes

Sent(h, w, linked, applied, recorded) ==
  envelopes' = Append(envelopes, [handoff |-> h, warrant |-> w, linked |-> linked,
                                  applied |-> applied, recorded |-> recorded])

(* A warrant whose request names a commitment is spent by the settlement   *)
(* notice, later; any other by the delivery.                               *)
Spend(w, linked) == warrant' = IF linked THEN warrant ELSE [warrant EXCEPT ![w] = "executed"]

RunRemote(h, w, linked) ==
  /\ Deliverable(h, w)
  /\ Sent(h, w, linked, TRUE, TRUE)
  /\ Spend(w, linked)
  /\ queue' = [queue EXCEPT ![h] = [state |-> "dispatched", evidence |-> Len(envelopes) + 1]]
  /\ UNCHANGED <<registryVars, previews, promotions, local>>

(* The answer is lost or is a refusal: a delivery error, nothing recorded. *)
RunRemoteMarkedFirst(h, w, linked) ==
  /\ Deliverable(h, w)
  /\ Sent(h, w, linked, FALSE, FALSE)
  /\ queue' = [queue EXCEPT ![h] = [state |-> "dispatched", evidence |-> Len(envelopes) + 1]]
  /\ UNCHANGED <<registryVars, previews, warrant, promotions, local>>

RunRemoteUnanswered(h, w, linked) ==
  /\ Deliverable(h, w)
  /\ Sent(h, w, linked, FALSE, FALSE)
  /\ UNCHANGED <<registryVars, previews, queue, warrant, promotions, local>>

(* A crash after the answer, before or after the warrant is marked.        *)
RunRemoteInterrupted(h, w, linked, marked) ==
  /\ Deliverable(h, w)
  /\ Sent(h, w, linked, TRUE, FALSE)
  /\ IF marked THEN Spend(w, linked) ELSE UNCHANGED warrant
  /\ UNCHANGED <<registryVars, previews, queue, promotions, local>>

(* The peer applies a request whose sender has given up on it.             *)
LateArrival(i) ==
  /\ i \in DOMAIN envelopes
  /\ ~envelopes[i].applied
  /\ envelopes' = [envelopes EXCEPT ![i].applied = TRUE]
  /\ UNCHANGED <<registryVars, previews, queue, warrant, promotions, local>>

(***************************************************************************)
(* The dispatch runner, local target: the record is upserted directly, its *)
(* id serves as the envelope id, and a job is materialised once.  A case   *)
(* may block the new job.                                                  *)
(***************************************************************************)
UpsertLocalRecord(l) ==
  /\ local' = [local EXCEPT ![l].state = "dispatchable"]
  /\ UNCHANGED <<registryVars, previews, queue, sendVars, promotions>>

QueuedJob(job, blocked) == IF job # Absent THEN job ELSE IF blocked THEN "blocked" ELSE "pending"

RunLocal(l, blocked) ==
  /\ local[l].state # Absent
  /\ local' = [local EXCEPT ![l] = [state |-> "dispatched", job |-> QueuedJob(@.job, blocked)]]
  /\ UNCHANGED <<registryVars, previews, queue, sendVars, promotions>>

RunLocalInterrupted(l, blocked) ==
  /\ local[l].state # Absent
  /\ local' = [local EXCEPT ![l].job = QueuedJob(@, blocked)]
  /\ UNCHANGED <<registryVars, previews, queue, sendVars, promotions>>

ExecuteLocalJob(l) ==
  /\ local[l].job = "pending"
  /\ local' = [local EXCEPT ![l].job = "executed"]
  /\ UNCHANGED <<registryVars, previews, queue, sendVars, promotions>>

-----------------------------------------------------------------------------
RemoteStep ==
  \/ \E p \in Hosts :
       \/ \E entry \in PeerChoices : RegisterPeer(p, entry)
       \/ \E state \in EntryStates : SetPeerTrust(p, state)
  \/ \E o \in Orgs, status \in Statuses : MutateAdmission(o, status)
  \/ PreviewRoutes
  \/ \E h \in Handoffs : Acknowledge(h) \/ AcknowledgeInterrupted(h)
  \/ \E h \in Handoffs, w \in Warrants, linked \in BOOLEAN :
       \/ RunRemote(h, w, linked)
       \/ RunRemoteUnanswered(h, w, linked)
       \/ \E marked \in BOOLEAN : RunRemoteInterrupted(h, w, linked, marked)
  \/ \E i \in 1..MaxEnvelopes : LateArrival(i)

LocalStep ==
  \E l \in LocalRecords :
    \/ UpsertLocalRecord(l)
    \/ ExecuteLocalJob(l)
    \/ \E blocked \in BOOLEAN : RunLocal(l, blocked) \/ RunLocalInterrupted(l, blocked)

HandoffNext == RemoteStep \/ LocalStep

HandoffSpec == HandoffInit /\ [][HandoffNext]_handoffVars

-----------------------------------------------------------------------------
(* A dispatch record never claims a delivery that did not happen: what it  *)
(* shows as evidence is an envelope of this very handoff which the peer    *)
(* applied and answered, through every crash and re-acknowledgement.       *)
EvidenceIsReal ==
  \A h \in Handoffs : queue[h] # Absent =>
    /\ queue[h].state = "dispatched" => queue[h].evidence # Absent
    /\ queue[h].evidence # Absent =>
         /\ queue[h].evidence \in DOMAIN envelopes
         /\ LET e == envelopes[queue[h].evidence] IN
              e.handoff = h /\ e.applied /\ e.recorded

Recorded(h) == {i \in DOMAIN envelopes : envelopes[i].handoff = h /\ envelopes[i].recorded}

(* Running a dispatch again after it was delivered sends nothing: a        *)
(* handoff is delivered and recorded at most once for every time an        *)
(* operator acknowledged it, and a warrant that names no commitment        *)
(* authorises one recorded delivery, over all handoffs and peers.          *)
EveryDeliveryIsAuthorised ==
  /\ \A h \in Handoffs : Cardinality(Recorded(h)) <= promotions[h]
  /\ \A i, j \in DOMAIN envelopes :
       /\ envelopes[i].warrant = envelopes[j].warrant
       /\ envelopes[i].recorded /\ ~envelopes[i].linked
       /\ envelopes[j].recorded /\ ~envelopes[j].linked
       => i = j
=============================================================================
