------------------------- MODULE FederatedExecution -------------------------
(***************************************************************************)
(* The federated execution protocol of the kernel, between the institution *)
(* that asks for work (the "source" host) and the one that does it (the    *)
(* "receiver" host).                                                       *)
(*                                                                         *)
(* Each host runs one single-threaded HTTP server, so a handler is one     *)
(* atomic step up to its outgoing call: while call[h] is pending, host h   *)
(* serves nothing, and a request addressed to it waits in its accept       *)
(* queue.  Two hosts that call each other wait for each other until one of *)
(* the two calls times out.  The caller that times out forgets its call;   *)
(* the request it had written may still be in the peer's accept queue and  *)
(* be served later (stale).                                                *)
(*                                                                         *)
(* The bookkeeping of a request is spread over four stores that no         *)
(* transaction joins: the sender's warrants and inbox, the receiver's      *)
(* warrants and execution jobs.  A crash between two saves leaves them     *)
(* torn.                                                                   *)
(***************************************************************************)
EXTENDS Naturals, FiniteSets, Warrants

CONSTANTS
  Envelopes,        \* ids of the execution_request envelopes ever issued
  SenderWarrants,   \* ids of the source's federated_execution warrants
  None,             \* "no value" in a field that holds an id or a message
  LinkChoices,      \* whether requests cite the commitment: a subset of BOOLEAN
  ReviewChoices,    \* the court decisions taken: a subset of Decisions
  CaseKinds,        \* the kinds of case opened: a subset of AllCaseKinds
  MaxStale          \* bound: abandoned requests in the accept queues

Hosts == {"source", "receiver"}

(* A case linked to the commitment, and one that also targets the peer,    *)
(* which is then suspended for as long as the case is active.              *)
AllCaseKinds == {"commitment", "peer"}

(***************************************************************************)
(* Messages.  A request goes to the receiver, the two notices come back.   *)
(***************************************************************************)
Request(e) == [kind |-> "execution_request", envelope |-> e, decision |-> "none"]
CourtNotice(e, d) == [kind |-> "court_notice", envelope |-> e, decision |-> d]
SettlementNotice(e) == [kind |-> "settlement_notice", envelope |-> e, decision |-> "none"]

Messages ==
  {Request(e) : e \in Envelopes}
    \union {CourtNotice(e, d) : e \in Envelopes, d \in Decisions}
    \union {SettlementNotice(e) : e \in Envelopes}

Receiver(m) == IF m.kind = "execution_request" THEN "receiver" ELSE "source"
Sender(m) == IF m.kind = "execution_request" THEN "source" ELSE "receiver"

Cases ==
  [kind : AllCaseKinds \union {"none"}, warrant : SenderWarrants \union Envelopes \union {None}]
NoCase == [kind |-> "none", warrant |-> None]

ASSUME ConstantsAssumption ==
  /\ LinkChoices \subseteq BOOLEAN
  /\ ReviewChoices \subseteq Decisions
  /\ CaseKinds \subseteq AllCaseKinds
  /\ MaxStale \in Nat

ASSUME NoneAssumption ==
  /\ None \notin Messages
  /\ None \notin Envelopes
  /\ None \notin SenderWarrants

(* A local warrant is named by its envelope, so the two kinds of id differ. *)
ASSUME IdsAssumption == SenderWarrants \intersect Envelopes = {}

VARIABLES
  (* kept by the source *)
  warrant,        \* the source's warrant store
  sentUnder,      \* the warrant each envelope was sent under, or None
  linked,         \* the envelopes that cite the commitment
  acknowledged,   \* the envelopes with an outbound proof (delivery ref, audit)
  inbox,          \* per envelope, the best state of a settlement notice for it
  (* kept by the receiver *)
  localWarrant,   \* the local warrant issued for each envelope
  job,            \* the execution job of each envelope
  courtNotice,    \* the last decision the job records as sent to the source
  noticed,        \* the envelopes whose settlement notice was acknowledged
  payout,         \* the linked payout proposal was executed
  (* kept by both *)
  commitment,     \* the state of each host's copy of the commitment
  case,           \* each host's active case, or NoCase
  (* the wire *)
  call,           \* the message each host waits for an answer to, or None
  reply,          \* the answer that has come back: "none", "ok" or "refused"
  stale,          \* abandoned messages still in their receiver's accept queue
  (* history *)
  torn            \* envelopes whose last update of job and local warrant was cut

sourceVars == <<warrant, sentUnder, linked, acknowledged, inbox>>
receiverVars == <<localWarrant, job, courtNotice, noticed, payout, torn>>
hostVars == <<commitment, case>>
wireVars == <<call, reply, stale>>
vars == <<sourceVars, receiverVars, hostVars, wireVars>>

TypeOK ==
  /\ warrant \in [SenderWarrants -> Warrant]
  /\ sentUnder \in [Envelopes -> SenderWarrants \union {None}]
  /\ linked \subseteq Envelopes
  /\ acknowledged \subseteq Envelopes
  /\ inbox \in [Envelopes -> {"none", "received", "processed"}]
  /\ localWarrant \in [Envelopes -> Warrant]
  /\ job \in [Envelopes -> JobStates]
  /\ courtNotice \in [Envelopes -> Decisions \union {"none"}]
  /\ noticed \subseteq Envelopes
  /\ payout \in BOOLEAN
  /\ torn \subseteq Envelopes
  /\ commitment \in [Hosts -> {"accepted", "settled"}]
  /\ case \in [Hosts -> Cases]
  /\ call \in [Hosts -> Messages \union {None}]
  /\ reply \in [Hosts -> {"none", "ok", "refused"}]
  /\ stale \subseteq Messages

(* The two institutions start from a commitment both have accepted.        *)
Init ==
  /\ warrant = [w \in SenderWarrants |-> Unissued]
  /\ sentUnder = [e \in Envelopes |-> None]
  /\ linked = {}
  /\ acknowledged = {}
  /\ inbox = [e \in Envelopes |-> "none"]
  /\ localWarrant = [e \in Envelopes |-> Unissued]
  /\ job = [e \in Envelopes |-> "none"]
  /\ courtNotice = [e \in Envelopes |-> "none"]
  /\ noticed = {}
  /\ payout = FALSE
  /\ torn = {}
  /\ commitment = [h \in Hosts |-> "accepted"]
  /\ case = [h \in Hosts |-> NoCase]
  /\ call = [h \in Hosts |-> None]
  /\ reply = [h \in Hosts |-> "none"]
  /\ stale = {}

-----------------------------------------------------------------------------
(***************************************************************************)
(* Calls between the hosts.                                                *)
(***************************************************************************)
Idle(h) == call[h] = None

Start(h, m) ==
  /\ call' = [call EXCEPT ![h] = m]
  /\ UNCHANGED <<reply, stale>>

(* Host Receiver(m) takes m from its accept queue and answers it; an       *)
(* answer to a caller that has gone is dropped.                            *)
Serve(m, answer) ==
  /\ Idle(Receiver(m))
  /\ \/ /\ call[Sender(m)] = m /\ reply[Sender(m)] = "none"
        /\ reply' = [reply EXCEPT ![Sender(m)] = answer]
        /\ UNCHANGED stale
     \/ /\ m \in stale
        /\ stale' = stale \ {m}
        /\ UNCHANGED reply
  /\ UNCHANGED call

Return(h) ==
  /\ call' = [call EXCEPT ![h] = None]
  /\ reply' = [reply EXCEPT ![h] = "none"]
  /\ UNCHANGED stale

(* Only a receipt makes a delivery count; an HTTP error does not.          *)
AnsweredOk(h) == reply[h] = "ok"

(* The peer answered with an HTTP error: the handler reports it and has    *)
(* nothing to undo.                                                        *)
CallRefused(h) ==
  /\ reply[h] = "refused"
  /\ Return(h)
  /\ UNCHANGED <<sourceVars, receiverVars, hostVars>>

AbandonAnswered(h) ==
  /\ ~Idle(h)
  /\ reply[h] # "none"
  /\ Return(h)
  /\ UNCHANGED <<sourceVars, receiverVars, hostVars>>

(* The 10 second timeout, a lost answer, or a crash of the caller.  An     *)
(* unserved request is lost (the peer's manifest was never fetched, the    *)
(* connection was never made) or stays in the peer's accept queue.         *)
Abandon(h) ==
  /\ ~Idle(h)
  /\ call' = [call EXCEPT ![h] = None]
  /\ reply' = [reply EXCEPT ![h] = "none"]
  /\ \/ UNCHANGED stale
     \/ /\ reply[h] = "none"
        /\ Cardinality(stale) < MaxStale
        /\ stale' = stale \union {call[h]}
  /\ UNCHANGED <<sourceVars, receiverVars, hostVars>>

(* The host serves m without effect: the sender is not a trusted peer, or  *)
(* the host stops after it recorded the nonce and before it acted.         *)
Refuse(m) ==
  /\ Serve(m, "refused")
  /\ UNCHANGED <<sourceVars, receiverVars, hostVars>>

Suspends(h) == case[h].kind = "peer"

-----------------------------------------------------------------------------
(***************************************************************************)
(* Cases.  An active case blocks what it is linked to, and puts its linked *)
(* warrant on hold whenever it blocks something.                           *)
(***************************************************************************)
Blocks(h, isLinked) ==
  \/ Suspends(h)
  \/ case[h].kind = "commitment" /\ isLinked

HoldAtSource(c) ==
  IF c.warrant \in SenderWarrants /\ Stayable(warrant[c.warrant])
    THEN warrant' = [warrant EXCEPT ![c.warrant] = Reviewed(@, "stay")]
    ELSE UNCHANGED warrant

(* Store the local warrants ws and jobs js, hold the warrant of case c     *)
(* among them: stay it, block its job, tell the source unless the job      *)
(* records that the last notice already said so.                           *)
HoldAtReceiver(c, ws, js, cut) ==
  LET e == c.warrant
      holds == e \in Envelopes /\ Stayable(ws[e])
  IN  /\ localWarrant' = IF holds THEN [ws EXCEPT ![e] = Reviewed(@, "stay")] ELSE ws
      /\ job' = IF holds THEN [js EXCEPT ![e] = "blocked"] ELSE js
      /\ torn' = IF holds THEN cut \ {e} ELSE cut
      /\ IF holds /\ courtNotice[e] # "stay"
           THEN Start("receiver", CourtNotice(e, "stay"))
           ELSE UNCHANGED wireVars

Hold(h, c) ==
  \/ /\ h = "source"
     /\ HoldAtSource(c)
     /\ UNCHANGED <<sentUnder, linked, acknowledged, inbox, receiverVars, wireVars>>
  \/ /\ h = "receiver"
     /\ HoldAtReceiver(c, localWarrant, job, torn)
     /\ UNCHANGED <<sourceVars, courtNotice, noticed, payout>>

(* A case may only name a warrant the host has.                            *)
KnownWarrants(h) ==
  IF h = "source"
    THEN {w \in SenderWarrants : Exists(warrant[w])}
    ELSE {e \in Envelopes : Exists(localWarrant[e])}

OpenCase(h, kind, w) ==
  /\ Idle(h)
  /\ case[h].kind = "none"
  /\ w \in KnownWarrants(h) \union {None}
  /\ case' = [case EXCEPT ![h] = [kind |-> kind, warrant |-> w]]
  /\ Hold(h, [kind |-> kind, warrant |-> w])
  /\ UNCHANGED commitment

(* A resolved case restores the peer; the warrants it held stay held.      *)
ResolveCase(h) ==
  /\ Idle(h)
  /\ case[h].kind # "none"
  /\ case' = [case EXCEPT ![h] = NoCase]
  /\ UNCHANGED <<commitment, sourceVars, receiverVars, wireVars>>

(* The operator settles a host's copy of the commitment by hand, or takes  *)
(* it back to accepted: no state of the commitment forbids either.         *)
OperatorSettle(h) ==
  /\ Idle(h)
  /\ IF case[h].kind = "none"
       THEN /\ commitment' = [commitment EXCEPT ![h] = "settled"]
            /\ UNCHANGED <<sourceVars, receiverVars, wireVars>>
       ELSE /\ Hold(h, case[h])
            /\ UNCHANGED commitment
  /\ UNCHANGED case

OperatorAccept(h) ==
  /\ Idle(h)
  /\ commitment' = [commitment EXCEPT ![h] = "accepted"]
  /\ UNCHANGED <<case, sourceVars, receiverVars, wireVars>>

-----------------------------------------------------------------------------
(***************************************************************************)
(* The source: issuing and reviewing its warrants, sending requests.       *)
(***************************************************************************)
IssueWarrant(w, auto) ==
  /\ Idle("source")
  /\ ~Exists(warrant[w])
  /\ warrant' = [warrant EXCEPT ![w] = Issued(auto)]
  /\ UNCHANGED <<sentUnder, linked, acknowledged, inbox, receiverVars, hostVars, wireVars>>

ReviewWarrant(w, decision) ==
  /\ Idle("source")
  /\ Exists(warrant[w])
  /\ warrant' = [warrant EXCEPT ![w] = Reviewed(@, decision)]
  /\ UNCHANGED <<sentUnder, linked, acknowledged, inbox, receiverVars, hostVars, wireVars>>

(* The clock passes expires_at.                                            *)
ExpireWarrant(w) ==
  /\ Exists(warrant[w])
  /\ warrant' = [warrant EXCEPT ![w].expired = TRUE]
  /\ UNCHANGED <<sentUnder, linked, acknowledged, inbox, receiverVars, hostVars, wireVars>>

ReadyToSend(w, isLinked) ==
  /\ Idle("source")
  /\ ValidForExecution(warrant[w])
  /\ isLinked => commitment["source"] = "accepted"

SendRequest(e, w, isLinked) ==
  /\ sentUnder[e] = None
  /\ ReadyToSend(w, isLinked)
  /\ ~Blocks("source", isLinked)
  /\ sentUnder' = [sentUnder EXCEPT ![e] = w]
  /\ linked' = IF isLinked THEN linked \union {e} ELSE linked
  /\ Start("source", Request(e))
  /\ UNCHANGED <<warrant, acknowledged, inbox, receiverVars, hostVars>>

SendBlockedByCase(w, isLinked) ==
  /\ ReadyToSend(w, isLinked)
  /\ Blocks("source", isLinked)
  /\ Hold("source", case["source"])
  /\ UNCHANGED hostVars

(* What an acknowledged request does to its warrant: a request that cites  *)
(* the commitment leaves it ready until the settlement notice comes.       *)
SpentNever(e) == warrant
SpentBy(e) ==
  IF e \in linked
    THEN warrant
    ELSE [warrant EXCEPT ![sentUnder[e]] = MarkedExecuted(@)]

CompleteSend(e) ==
  /\ call["source"] = Request(e)
  /\ AnsweredOk("source")
  /\ Return("source")
  /\ warrant' = SpentBy(e)
  /\ acknowledged' = acknowledged \union {e}
  /\ UNCHANGED <<sentUnder, linked, inbox, receiverVars, hostVars>>

-----------------------------------------------------------------------------
(***************************************************************************)
(* The source: notices that come back.                                     *)
(***************************************************************************)

(* A court notice is served even from a suspended peer.  It is applied     *)
(* only if an outbound request proves it and the warrant was not spent.    *)
CourtNoticeApplies(e) ==
  /\ e \in acknowledged
  /\ warrant[sentUnder[e]].execution = "ready"

ServeCourtNotice(e, decision) ==
  /\ Serve(CourtNotice(e, decision), "ok")
  /\ warrant' = IF CourtNoticeApplies(e)
                  THEN [warrant EXCEPT ![sentUnder[e]] = Reviewed(@, decision)]
                  ELSE warrant
  /\ UNCHANGED <<sentUnder, linked, acknowledged, inbox, receiverVars, hostVars>>

(* The sender's warrant is found through the delivery ref of the request.  *)
NoneFinalised(e) == warrant
Finalised(e) ==
  IF e \in acknowledged
    THEN [warrant EXCEPT ![sentUnder[e]] = MarkedExecuted(@)]
    ELSE warrant

KeptInInbox(e) == [inbox EXCEPT ![e] = IF @ = "none" THEN "received" ELSE @]

(* A settlement notice is recorded, then held by an active case, found     *)
(* invalid (which opens a case against the peer), or applied.  The peer    *)
(* gets the same answer in all three events.                               *)
BlockSettlementNotice(e) ==
  /\ case["source"].kind = "commitment"
  /\ HoldAtSource(case["source"])
  /\ inbox' = KeptInInbox(e)
  /\ UNCHANGED hostVars

RejectSettlementNotice(e) ==
  /\ case["source"].kind = "none"
  /\ case' = [case EXCEPT !["source"] = [kind |-> "peer", warrant |-> None]]
  /\ inbox' = KeptInInbox(e)
  /\ UNCHANGED <<warrant, commitment>>

ApplySettlementNotice(e) ==
  /\ case["source"].kind = "none"
  /\ commitment' = [commitment EXCEPT !["source"] = "settled"]
  /\ warrant' = Finalised(e)
  /\ inbox' = [inbox EXCEPT ![e] = "processed"]
  /\ UNCHANGED case

ServeSettlementNotice(e) ==
  /\ Serve(SettlementNotice(e), "ok")
  /\ ~Suspends("source")
  /\ \/ BlockSettlementNotice(e)
     \/ "peer" \in CaseKinds /\ RejectSettlementNotice(e)
     \/ ApplySettlementNotice(e)
  /\ UNCHANGED <<sentUnder, linked, acknowledged, receiverVars>>

(* The source stops after it settled the commitment, before or after it    *)
(* finalised the warrant, and before it marked the notice processed.       *)
ServeSettlementNoticeInterrupted(e) ==
  /\ Serve(SettlementNotice(e), "refused")
  /\ case["source"].kind = "none"
  /\ commitment' = [commitment EXCEPT !["source"] = "settled"]
  /\ warrant' \in {warrant, Finalised(e)}
  /\ inbox' = KeptInInbox(e)
  /\ UNCHANGED <<sentUnder, linked, acknowledged, receiverVars, case>>

-----------------------------------------------------------------------------
(***************************************************************************)
(* The receiver: taking requests in and reviewing them.                    *)
(***************************************************************************)

(* A request an active case blocks is kept as a blocked job that has no    *)
(* local warrant; any other gets a local warrant to review.                *)
QueueUnlessBlocked(e) ==
  IF Blocks("receiver", e \in linked)
    THEN /\ job' = [job EXCEPT ![e] = "blocked"]
         /\ UNCHANGED localWarrant
    ELSE /\ localWarrant' = [localWarrant EXCEPT ![e] = Issued(FALSE)]
         /\ job' = [job EXCEPT ![e] = "pending_local_warrant"]

ServeRequest(e) ==
  /\ Serve(Request(e), "ok")
  /\ ~Suspends("receiver")
  /\ job[e] = "none"
  /\ QueueUnlessBlocked(e)
  /\ UNCHANGED <<sourceVars, courtNotice, noticed, payout, torn, hostVars>>

(* What a review does to the job: mirror the local warrant, whatever it is. *)
SyncByDecision(w, decision) ==
  [approve |-> "ready", stay |-> "blocked", revoke |-> "rejected"][decision]
SyncedJob(w, decision) == JobStateFor(Reviewed(w, decision))

ReviewLocalWarrant(e, decision) ==
  /\ Idle("receiver")
  /\ Exists(localWarrant[e])
  /\ localWarrant' = [localWarrant EXCEPT ![e] = Reviewed(@, decision)]
  /\ job' = [job EXCEPT ![e] = SyncedJob(localWarrant[e], decision)]
  /\ torn' = torn \ {e}
  /\ IF courtNotice[e] = decision
       THEN UNCHANGED wireVars
       ELSE Start("receiver", CourtNotice(e, decision))
  /\ UNCHANGED <<sourceVars, courtNotice, noticed, payout, hostVars>>

(* The receiver stops after the warrant is saved and before the job is.    *)
ReviewLocalWarrantInterrupted(e, decision) ==
  /\ Idle("receiver")
  /\ Exists(localWarrant[e])
  /\ localWarrant' = [localWarrant EXCEPT ![e] = Reviewed(@, decision)]
  /\ torn' = torn \union {e}
  /\ UNCHANGED <<sourceVars, job, courtNotice, noticed, payout, hostVars, wireVars>>

ExpireLocalWarrant(e) ==
  /\ Exists(localWarrant[e])
  /\ localWarrant' = [localWarrant EXCEPT ![e].expired = TRUE]
  /\ UNCHANGED <<sourceVars, job, courtNotice, noticed, payout, torn, hostVars, wireVars>>

CompleteCourtNotice(e, decision) ==
  /\ call["receiver"] = CourtNotice(e, decision)
  /\ AnsweredOk("receiver")
  /\ Return("receiver")
  /\ courtNotice' = [courtNotice EXCEPT ![e] = decision]
  /\ UNCHANGED <<sourceVars, localWarrant, job, noticed, payout, torn, hostVars>>

-----------------------------------------------------------------------------
(***************************************************************************)
(* The receiver: executing jobs, paying, reporting the settlement.         *)
(***************************************************************************)

(* /api/payouts/execute, as far as this protocol sees it.                  *)
ExecutePayout ==
  /\ Idle("receiver")
  /\ IF case["receiver"].kind = "none"
       THEN /\ payout' = TRUE
            /\ UNCHANGED <<sourceVars, localWarrant, job, courtNotice, noticed, torn, wireVars>>
       ELSE Hold("receiver", case["receiver"])
  /\ UNCHANGED hostVars

(* A job is executed once, from "ready"; an executed job may be asked      *)
(* again, to report its settlement.                                        *)
ExecutableIfReady(e) ==
  /\ Exists(localWarrant[e])
  /\ job[e] \in {"ready", "executed"}

Executable(e) ==
  /\ Exists(localWarrant[e])
  /\ \/ job[e] = "ready" /\ ValidForExecution(localWarrant[e])
     \/ job[e] = "executed"

(* There is a settlement to report: the request cites the commitment, no   *)
(* notice was acknowledged for that commitment yet (one made for another   *)
(* request of the same commitment is reused), the payout left execution    *)
(* refs, and the receiver's copy of the commitment is still accepted.      *)
SettlesEachJob(e) ==
  e \in linked /\ e \notin noticed /\ payout /\ commitment["receiver"] = "accepted"
SettlesUnpaid(e) ==
  e \in linked /\ noticed = {} /\ commitment["receiver"] = "accepted"

HasSettlementToReport(e) ==
  e \in linked /\ noticed = {} /\ payout /\ commitment["receiver"] = "accepted"

ExecuteJob(e) ==
  LET ws == [localWarrant EXCEPT ![e] = MarkedExecuted(@)]
      js == [job EXCEPT ![e] = "executed"]
  IN  /\ Idle("receiver")
      /\ Executable(e)
      /\ IF HasSettlementToReport(e) /\ Blocks("receiver", TRUE)
           THEN HoldAtReceiver(case["receiver"], ws, js, torn \ {e})
           ELSE /\ localWarrant' = ws
                /\ job' = js
                /\ torn' = torn \ {e}
                /\ IF HasSettlementToReport(e)
                     THEN Start("receiver", SettlementNotice(e))
                     ELSE UNCHANGED wireVars
      /\ UNCHANGED <<sourceVars, courtNotice, noticed, payout, hostVars>>

(* The receiver stops after the warrant is marked executed and before the  *)
(* job is: the job still says "ready", and can never be executed from it.  *)
JobSavedFirst(e) ==
  /\ Idle("receiver")
  /\ job[e] = "ready"
  /\ Executable(e)
  /\ job' = [job EXCEPT ![e] = "executed"]
  /\ torn' = torn \union {e}
  /\ UNCHANGED <<sourceVars, localWarrant, courtNotice, noticed, payout, hostVars, wireVars>>

ExecuteJobInterrupted(e) ==
  /\ Idle("receiver")
  /\ job[e] = "ready"
  /\ Executable(e)
  /\ localWarrant' = [localWarrant EXCEPT ![e] = MarkedExecuted(@)]
  /\ torn' = torn \union {e}
  /\ UNCHANGED <<sourceVars, job, courtNotice, noticed, payout, hostVars, wireVars>>

CompleteSettlementNotice(e) ==
  /\ call["receiver"] = SettlementNotice(e)
  /\ AnsweredOk("receiver")
  /\ Return("receiver")
  /\ noticed' = noticed \union {e}
  /\ UNCHANGED <<sourceVars, localWarrant, job, courtNotice, payout, torn, hostVars>>

-----------------------------------------------------------------------------
OperatorNext ==
  \E h \in Hosts :
    \/ \E kind \in CaseKinds, w \in SenderWarrants \union Envelopes \union {None} :
         OpenCase(h, kind, w)
    \/ ResolveCase(h)
    \/ OperatorSettle(h)
    \/ OperatorAccept(h)

WireNext ==
  \/ \E h \in Hosts : CallRefused(h) \/ Abandon(h)
  \/ \E m \in Messages : Refuse(m)

SourceNext ==
  \/ \E w \in SenderWarrants :
       \/ \E auto \in BOOLEAN : IssueWarrant(w, auto)
       \/ \E decision \in ReviewChoices : ReviewWarrant(w, decision)
       \/ ExpireWarrant(w)
       \/ \E isLinked \in LinkChoices :
            \/ SendBlockedByCase(w, isLinked)
            \/ \E e \in Envelopes : SendRequest(e, w, isLinked)
  \/ \E e \in Envelopes :
       \/ CompleteSend(e)
       \/ \E decision \in Decisions : ServeCourtNotice(e, decision)
       \/ ServeSettlementNotice(e)
       \/ ServeSettlementNoticeInterrupted(e)

ReceiverNext ==
  \/ ExecutePayout
  \/ \E e \in Envelopes :
       \/ ServeRequest(e)
       \/ \E decision \in ReviewChoices :
            \/ ReviewLocalWarrant(e, decision)
            \/ ReviewLocalWarrantInterrupted(e, decision)
       \/ ExpireLocalWarrant(e)
       \/ \E decision \in Decisions : CompleteCourtNotice(e, decision)
       \/ ExecuteJob(e)
       \/ ExecuteJobInterrupted(e)
       \/ CompleteSettlementNotice(e)

Next == OperatorNext \/ WireNext \/ SourceNext \/ ReceiverNext

Spec == Init /\ [][Next]_vars

(* The only progress the code owes: urlopen(..., timeout=10) returns.      *)
Fairness == \A h \in Hosts : WF_vars(Abandon(h))

FairSpec == Spec /\ Fairness

-----------------------------------------------------------------------------
(***************************************************************************)
(* Safety.                                                                 *)
(***************************************************************************)

(* A job that says it was executed has a spent local warrant, whatever     *)
(* reviews, holds, crashes and retries came before: the job store never    *)
(* runs ahead of the warrant store (_complete_federated_execution_job).    *)
JobNeverAheadOfWarrant ==
  \A e \in Envelopes : job[e] = "executed" => localWarrant[e].execution = "executed"

(* Unless its last update was cut by a crash, a job that has a local       *)
(* warrant mirrors it; a job that has none is blocked by a case for good   *)
(* (_sync_execution_job_for_warrant_review on every path that reviews).    *)
StoresAgree ==
  \A e \in Envelopes \ torn :
    IF Exists(localWarrant[e])
      THEN job[e] = JobStateFor(localWarrant[e])
      ELSE job[e] \in {"none", "blocked"}

(* When the source has applied a settlement notice for a request, the      *)
(* receiver has executed that request and its payout, although the notice  *)
(* may have crossed any number of timeouts, holds and retries.             *)
SettledMeansExecuted ==
  \A e \in Envelopes :
    inbox[e] = "processed" =>
      e \in linked /\ payout /\ job[e] = "executed" /\ localWarrant[e].execution = "executed"

(* Once the source has applied the settlement of a request it has proof    *)
(* of, the warrant it sent the request under is spent, and no court notice *)
(* or review makes it ready again.                                         *)
SettlementSpendsWarrant ==
  \A e \in acknowledged :
    inbox[e] = "processed" => warrant[sentUnder[e]].execution = "executed"

(* A warrant pays for at most one acknowledged request that cites no       *)
(* commitment: whatever was retried, reviewed or lost in between, the      *)
(* acknowledgement spends it (_deliver_federation_envelope).               *)
OneStandaloneRequestPerWarrant ==
  \A e, f \in acknowledged \ linked : sentUnder[e] = sentUnder[f] => e = f

(* The receiver never holds two acknowledged settlement notices for one    *)
(* commitment, however many of its requests it executes.                   *)
OneAcknowledgedNotice == \A e, f \in noticed : e = f

(* The receiver believes it reported a settlement only if the source has   *)
(* the notice in its inbox.                                                *)
NoticedMeansReceived == \A e \in noticed : inbox[e] # "none"

(* What the receiver reported is reported once, and where it believes.     *)
ReportsAreTrue == OneAcknowledgedNotice /\ NoticedMeansReceived

-----------------------------------------------------------------------------
(* The federated execution implements the contract of ExecutionContract.   *)
Authorized == {e \in Envelopes : ValidForExecution(localWarrant[e])}

C == INSTANCE ExecutionContract WITH
  requested  <- {e \in Envelopes : job[e] # "none"},
  authorized <- Authorized,
  executed   <- {e \in Envelopes : localWarrant[e].execution = "executed"},
  settled    <- {e \in Envelopes : inbox[e] = "processed"}

ImplementsContract == C!Contract

(* Every call returns, also when the two hosts call each other.            *)
CallsReturn == \A h \in Hosts : call[h] # None ~> call[h] = None
=============================================================================
