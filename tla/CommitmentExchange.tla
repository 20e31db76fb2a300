------------------------ MODULE CommitmentExchange -------------------------
(***************************************************************************)
(* Commitments between two hosts.  The source proposes; its proposal makes *)
(* a copy at the target; the target's operator accepts, rejects, breaches  *)
(* or settles that copy and may send the source an acceptance or a notice  *)
(* of breach; the source's own copy moves by its operator's reviews and by *)
(* those messages.  No transition of a commitment is refused for the state *)
(* it is in.  A breach opens a case, and a case holds every delivery under *)
(* the commitment.  Each host serves one request at a time: while it waits *)
(* for the answer to a delivery it serves nothing.  A delivery may be      *)
(* given up and served afterwards, and a host may stop between two saves.  *)
(***************************************************************************)
EXTENDS Naturals, Sequences, FiniteSets

CONSTANTS
  Commitments,      \* commitment ids
  Bindings,         \* warrants a commitment may be bound to, or NoWarrant
  SourcePacts,      \* the source's warrants for commitments
  SourceRuns,       \* the source's warrants for federated execution
  TargetPacts,      \* the target's warrants for commitments
  NoCopy,           \* no record of the commitment
  NoWarrant,        \* no warrant
  Reviews,          \* what the operator of each host decides about commitments
  CourtDecisions,   \* what the court may decide about a warrant by hand
  MaxMessages       \* bound on the messages sent

W == INSTANCE Warrants

ASSUME BindingsAreOfTheSource == Bindings \subseteq SourcePacts \union SourceRuns \union {NoWarrant}
ASSUME CourtDecides == CourtDecisions \subseteq W!Decisions
ASSUME PermitsAreDistinct ==
  /\ SourcePacts \intersect SourceRuns = {}
  /\ (SourcePacts \union SourceRuns) \intersect TargetPacts = {}
ASSUME MessagesAreBounded == MaxMessages \in Nat

VARIABLES
  copies,      \* the commitment of each host, or NoCopy
  breachCase,  \* the case of each host about its breach
  permits,     \* the warrants of both hosts
  messages,    \* history: what was sent, in order
  calls        \* the message whose answer a host waits for, or 0

exchangeVars == <<copies, breachCase, permits, messages, calls>>

Parties == {"source", "target"}
Permits == SourcePacts \union SourceRuns \union TargetPacts

DecidedAs == [accept |-> "accepted", reject |-> "rejected", breach |-> "breached", settle |-> "settled"]
ASSUME OperatorsDecide == Reviews \in [Parties -> SUBSET DOMAIN DecidedAs]
CommitmentStates == {"proposed", "accepted", "rejected", "breached", "settled"}
Marks == {"no", "operator", "peer"}
Copy == [state : CommitmentStates, accepted : Marks, breached : Marks,
         warrant : SourcePacts \union SourceRuns \union {NoWarrant}]
ASSUME NoCopyIsNone == NoCopy \notin Copy

Kinds == {"proposal", "acceptance", "breach", "execution"}
Message == [kind : Kinds, commitment : Commitments, warrant : Permits,
            status : {"sent", "cut", "processed", "acknowledged"}]
Sender(kind) == IF kind \in {"proposal", "execution"} THEN "source" ELSE "target"
Receiver(kind) == IF Sender(kind) = "source" THEN "target" ELSE "source"

CommitmentTypeOK ==
  /\ copies \in [Parties -> [Commitments -> Copy \union {NoCopy}]]
  /\ breachCase \in [Parties -> [Commitments -> {"none", "open", "resolved"}]]
  /\ permits \in [Permits -> W!Warrant]
  /\ messages \in Seq(Message) /\ Len(messages) <= MaxMessages
  /\ calls \in [Parties -> 0..MaxMessages]

CommitmentInit ==
  /\ copies = [h \in Parties |-> [c \in Commitments |-> NoCopy]]
  /\ breachCase = [h \in Parties |-> [c \in Commitments |-> "none"]]
  /\ permits = [w \in Permits |-> W!Reviewed(W!Issued(FALSE), "approve")]
  /\ messages = <<>>
  /\ calls = [h \in Parties |-> 0]

Idle(h) == calls[h] = 0

NewCopy(warrant) ==
  [state |-> "proposed", accepted |-> "no", breached |-> "no", warrant |-> warrant]

(* A review writes over whatever state the commitment is in.               *)
Decided(copy, decision, by) ==
  [copy EXCEPT !.state = DecidedAs[decision],
               !.accepted = IF decision = "accept" THEN by ELSE @,
               !.breached = IF decision = "breach" THEN by ELSE @]

-----------------------------------------------------------------------------
(***************************************************************************)
(* Cases about a breach.  The warrant a case holds is the one the          *)
(* commitment is bound to: the target knows it by name only, so a hold at  *)
(* the target finds no record.                                             *)
(***************************************************************************)
EnsuredCase(h, c) == [breachCase EXCEPT ![h][c] = "open"]
Blocked(h, c) == breachCase[h][c] = "open"

Held(h, c) ==
  LET w == copies[h][c].warrant
  IN  IF h = "source" /\ w # NoWarrant /\ W!Stayable(permits[w])
        THEN [permits EXCEPT ![w] = W!Reviewed(@, "stay")]
        ELSE permits

ResolveBreachCase(h, c) ==
  /\ Idle(h) /\ Blocked(h, c)
  /\ breachCase' = [breachCase EXCEPT ![h][c] = "resolved"]
  /\ UNCHANGED <<copies, permits, messages, calls>>

ReviewPermit(w, decision) ==
  /\ Idle(IF w \in TargetPacts THEN "target" ELSE "source")
  /\ permits' = [permits EXCEPT ![w] = W!Reviewed(@, decision)]
  /\ UNCHANGED <<copies, breachCase, messages, calls>>

-----------------------------------------------------------------------------
(***************************************************************************)
(* The operators.                                                          *)
(***************************************************************************)
Propose(c, warrant) ==
  /\ Idle("source") /\ copies["source"][c] = NoCopy
  /\ copies' = [copies EXCEPT !["source"][c] = NewCopy(warrant)]
  /\ UNCHANGED <<breachCase, permits, messages, calls>>

SettlementBlocked(h, c) ==
  /\ Idle(h) /\ copies[h][c] # NoCopy /\ Blocked(h, c)
  /\ permits' = Held(h, c)
  /\ UNCHANGED <<copies, breachCase, messages, calls>>

(* A breach opens a case unless it is asked not to, or the host stops      *)
(* between the two saves; or after them, before it holds the warrant.      *)
ReviewCommitment(h, c, decision) ==
  /\ Idle(h) /\ copies[h][c] # NoCopy
  /\ decision = "settle" => ~Blocked(h, c)
  /\ copies' = [copies EXCEPT ![h][c] = Decided(@, decision, "operator")]
  /\ UNCHANGED <<messages, calls>>
  /\ \/ UNCHANGED <<breachCase, permits>>
     \/ /\ decision = "breach"
        /\ breachCase' = EnsuredCase(h, c)
        /\ permits' \in {permits, Held(h, c)}

-----------------------------------------------------------------------------
(***************************************************************************)
(* Sending.                                                                *)
(***************************************************************************)
RightPermits(kind) ==
  CASE kind = "execution" -> SourceRuns
    [] kind = "proposal" -> SourcePacts
    [] OTHER -> TargetPacts

ReadyToSendUnread(kind, c) ==
  copies[Sender(kind)][c] # NoCopy

(* The state a commitment must be in to be the subject of a message.       *)
ReadyToSend(kind, c) ==
  /\ copies[Sender(kind)][c] # NoCopy
  /\ copies[Sender(kind)][c].state =
       CASE kind = "proposal" -> "proposed"
         [] kind = "breach" -> "breached"
         [] OTHER -> "accepted"

(* A proposal and an execution must use the warrant of the commitment.     *)
Matches(kind, c, w) ==
  Sender(kind) = "source" => copies["source"][c].warrant \in {w, NoWarrant}

Sendable(kind, c, w) ==
  /\ Idle(Sender(kind))
  /\ w \in RightPermits(kind) /\ W!ValidForExecution(permits[w])
  /\ ReadyToSend(kind, c) /\ Matches(kind, c, w)

SendHeldByCase(kind, c, w) ==
  /\ Sendable(kind, c, w)
  /\ kind # "breach" /\ Blocked(Sender(kind), c)
  /\ permits' = Held(Sender(kind), c)
  /\ UNCHANGED <<copies, breachCase, messages, calls>>

Send(kind, c, w) ==
  /\ Sendable(kind, c, w)
  /\ kind # "breach" => ~Blocked(Sender(kind), c)
  /\ Len(messages) < MaxMessages
  /\ messages' = Append(messages, [kind |-> kind, commitment |-> c, warrant |-> w, status |-> "sent"])
  /\ calls' = [calls EXCEPT ![Sender(kind)] = Len(messages) + 1]
  /\ UNCHANGED <<copies, breachCase, permits>>

Acknowledged(i) == messages[i].status = "acknowledged"

SpentOnlyUnlinked(i) == permits

(* The warrant is spent, but that of an execution under a commitment: the  *)
(* settlement of the execution spends it.                                  *)
SpentOn(i) ==
  IF messages[i].kind = "execution"
    THEN permits
    ELSE [permits EXCEPT ![messages[i].warrant] = W!MarkedExecuted(@)]

Answer(h) ==
  /\ ~Idle(h) /\ messages[calls[h]].status = "processed"
  /\ permits' = SpentOn(calls[h])
  /\ messages' = [messages EXCEPT ![calls[h]].status = "acknowledged"]
  /\ calls' = [calls EXCEPT ![h] = 0]
  /\ UNCHANGED <<copies, breachCase>>

(* The answer does not come in time or the sender stops; what it sent may  *)
(* be served afterwards.                                                   *)
GiveUp(h) ==
  /\ ~Idle(h)
  /\ calls' = [calls EXCEPT ![h] = 0]
  /\ UNCHANGED <<copies, breachCase, permits, messages>>

-----------------------------------------------------------------------------
(***************************************************************************)
(* Serving.  Each variant either completes or is cut after one of its      *)
(* saves; what was cut is not served again, for its nonce is spent.        *)
(***************************************************************************)
Arrived(i, kind) ==
  /\ messages[i].kind = kind /\ messages[i].status = "sent"
  /\ Idle(Receiver(kind))
Finish(i, status) == messages' = [messages EXCEPT ![i].status = status]

(* A copy the target already has is left alone; a new one names the        *)
(* warrant of the message.                                                 *)
SyncedProposal(copy, warrant) == IF copy = NoCopy THEN NewCopy(warrant) ELSE copy

ServeProposal(i) ==
  /\ Arrived(i, "proposal")
  /\ Finish(i, "processed")
  /\ copies' = [copies EXCEPT !["target"][messages[i].commitment] =
                  SyncedProposal(@, messages[i].warrant)]
  /\ UNCHANGED <<breachCase, permits, calls>>

ServeAcceptance(i) ==
  /\ Arrived(i, "acceptance")
  /\ Finish(i, "processed")
  /\ copies' = [copies EXCEPT !["source"][messages[i].commitment] =
                  IF @.state = "accepted" THEN @ ELSE Decided(@, "accept", "peer")]
  /\ UNCHANGED <<breachCase, permits, calls>>

BreachedByNotice(copy) == IF copy.state = "breached" THEN copy ELSE Decided(copy, "breach", "peer")

ServeBreachNewOnly(i) ==
  LET c == messages[i].commitment
  IN  /\ Arrived(i, "breach")
      /\ copies' = [copies EXCEPT !["source"][c] = BreachedByNotice(@)]
      /\ UNCHANGED calls
      /\ Finish(i, "processed")
      /\ IF copies["source"][c].state = "breached"
           THEN UNCHANGED <<breachCase, permits>>
           ELSE breachCase' = EnsuredCase("source", c) /\ permits' = Held("source", c)

(* The case is ensured whether or not the notice is news.                  *)
ServeBreach(i) ==
  LET c == messages[i].commitment
  IN  /\ Arrived(i, "breach")
      /\ copies' = [copies EXCEPT !["source"][c] = BreachedByNotice(@)]
      /\ UNCHANGED calls
      /\ \/ Finish(i, "cut") /\ UNCHANGED <<breachCase, permits>>
         \/ Finish(i, "cut") /\ breachCase' = EnsuredCase("source", c)
              /\ permits' \in {permits, Held("source", c)}
         \/ Finish(i, "processed") /\ breachCase' = EnsuredCase("source", c)
              /\ permits' = Held("source", c)

(* What an execution does at the target is not about the commitment.       *)
ServeExecution(i) ==
  /\ Arrived(i, "execution")
  /\ Finish(i, "processed")
  /\ UNCHANGED <<copies, breachCase, permits, calls>>

CommitmentNext ==
  \/ \E c \in Commitments :
       \/ \E warrant \in Bindings : Propose(c, warrant)
       \/ \E h \in Parties :
            \/ ResolveBreachCase(h, c) \/ SettlementBlocked(h, c)
            \/ \E decision \in Reviews[h] : ReviewCommitment(h, c, decision)
       \/ \E kind \in Kinds, w \in Permits : SendHeldByCase(kind, c, w) \/ Send(kind, c, w)
  \/ \E h \in Parties : Answer(h) \/ GiveUp(h)
  \/ \E i \in DOMAIN messages :
       ServeProposal(i) \/ ServeAcceptance(i) \/ ServeBreach(i) \/ ServeExecution(i)
  \/ \E w \in Permits, decision \in CourtDecisions : ReviewPermit(w, decision)

CommitmentSpec == CommitmentInit /\ [][CommitmentNext]_exchangeVars

-----------------------------------------------------------------------------
(* What the source believes the peer did, the peer's operator did: it      *)
(* accepted, or breached, its copy before.  Messages are given up, served  *)
(* late and out of order, and the operator may have moved on since.        *)
PeerMarksAreReal ==
  \A c \in Commitments :
    copies["source"][c] # NoCopy =>
      /\ copies["source"][c].accepted = "peer" =>
           copies["target"][c] # NoCopy /\ copies["target"][c].accepted = "operator"
      /\ copies["source"][c].breached = "peer" =>
           copies["target"][c] # NoCopy /\ copies["target"][c].breached = "operator"

(* A proposal that is sent again, or served late, undoes no decision of    *)
(* the target: its marks and its state are left alone.                     *)
ProposalUndoesNothing ==
  [][\A i \in DOMAIN messages, c \in Commitments :
       /\ messages[i].kind = "proposal" /\ messages[i].status # messages'[i].status
       /\ copies["target"][c] # NoCopy
       => copies'["target"][c] = copies["target"][c]]_exchangeVars

(* Once a notice of breach was received in full, nothing is executed under *)
(* the commitment before its case is resolved: not even when an acceptance *)
(* the peer sent earlier arrives late and makes the commitment accepted    *)
(* again, and not when the breach was known before the notice.             *)
BreachHoldsExecution ==
  [][Len(messages') > Len(messages) /\ messages'[Len(messages')].kind = "execution" =>
       LET c == messages'[Len(messages')].commitment
       IN  (\E i \in DOMAIN messages : /\ messages[i].kind = "breach" /\ messages[i].commitment = c
                                       /\ messages[i].status \in {"processed", "acknowledged"})
             => breachCase["source"][c] = "resolved"]_exchangeVars

(* A warrant for commitments carries one message that was acknowledged,    *)
(* however often deliveries under it were given up and repeated, and       *)
(* whatever the court decides about it in between.                         *)
OneNoticePerWarrant ==
  \A i, j \in DOMAIN messages :
    /\ Acknowledged(i) /\ Acknowledged(j) /\ messages[i].warrant = messages[j].warrant
    /\ messages[i].kind # "execution"
    => i = j
=============================================================================
