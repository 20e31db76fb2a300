---------------------- MODULE FederatedExecutionProofs ----------------------
(***************************************************************************)
(* Machine-checked proofs about FederatedExecution, for every number of    *)
(* envelopes and warrants and for every choice of the bounds.              *)
(***************************************************************************)
EXTENDS FederatedExecution, WarrantsProofs

-----------------------------------------------------------------------------
(***************************************************************************)
(* The calls.                                                              *)
(***************************************************************************)
WireTypeOK ==
  /\ call \in [Hosts -> Messages \union {None}]
  /\ reply \in [Hosts -> {"none", "ok", "refused"}]
  /\ stale \subseteq Messages

LEMMA MessageHosts ==
  ASSUME NEW m \in Messages
  PROVE  /\ Receiver(m) \in Hosts
         /\ Sender(m) \in Hosts
         /\ Sender(m) # Receiver(m)
         /\ m # None
BY NoneAssumption DEF Messages, Receiver, Sender, Hosts

LEMMA MessagesTyped ==
  ASSUME NEW e \in Envelopes, NEW d \in Decisions
  PROVE  /\ Request(e) \in Messages
         /\ CourtNotice(e, d) \in Messages
         /\ SettlementNotice(e) \in Messages
BY DEF Messages

LEMMA ServeTyped ==
  ASSUME WireTypeOK, NEW m \in Messages, NEW answer \in {"ok", "refused"}, Serve(m, answer)
  PROVE  WireTypeOK'
BY MessageHosts DEF WireTypeOK, Serve

LEMMA StartTyped ==
  ASSUME WireTypeOK, NEW h \in Hosts, NEW m \in Messages, Start(h, m)
  PROVE  WireTypeOK'
BY DEF WireTypeOK, Start

LEMMA ReturnTyped ==
  ASSUME WireTypeOK, NEW h \in Hosts, Return(h)
  PROVE  WireTypeOK'
BY DEF WireTypeOK, Return

LEMMA AbandonTyped ==
  ASSUME WireTypeOK, NEW h \in Hosts, Abandon(h)
  PROVE  WireTypeOK'
BY DEF WireTypeOK, Abandon, Idle

LEMMA WireStutter ==
  ASSUME WireTypeOK, UNCHANGED wireVars
  PROVE  WireTypeOK'
BY DEF WireTypeOK, wireVars

-----------------------------------------------------------------------------
(***************************************************************************)
(* Type correctness, store by store.                                       *)
(***************************************************************************)
SourceTypeOK ==
  /\ warrant \in [SenderWarrants -> Warrant]
  /\ sentUnder \in [Envelopes -> SenderWarrants \union {None}]
  /\ linked \subseteq Envelopes
  /\ acknowledged \subseteq Envelopes
  /\ inbox \in [Envelopes -> {"none", "received", "processed"}]

ReceiverTypeOK ==
  /\ localWarrant \in [Envelopes -> Warrant]
  /\ job \in [Envelopes -> JobStates]
  /\ courtNotice \in [Envelopes -> Decisions \union {"none"}]
  /\ noticed \subseteq Envelopes
  /\ payout \in BOOLEAN
  /\ torn \subseteq Envelopes

HostTypeOK ==
  /\ commitment \in [Hosts -> {"accepted", "settled"}]
  /\ case \in [Hosts -> Cases]

LEMMA TypeParts ==
  /\ TypeOK <=> SourceTypeOK /\ ReceiverTypeOK /\ HostTypeOK /\ WireTypeOK
  /\ TypeOK' <=> SourceTypeOK' /\ ReceiverTypeOK' /\ HostTypeOK' /\ WireTypeOK'
BY DEF TypeOK, SourceTypeOK, ReceiverTypeOK, HostTypeOK, WireTypeOK

LEMMA SourceStutter ==
  ASSUME SourceTypeOK, UNCHANGED sourceVars
  PROVE  SourceTypeOK'
BY DEF SourceTypeOK, sourceVars

LEMMA ReceiverStutter ==
  ASSUME ReceiverTypeOK, UNCHANGED receiverVars
  PROVE  ReceiverTypeOK'
BY DEF ReceiverTypeOK, receiverVars

LEMMA HostStutter ==
  ASSUME HostTypeOK, UNCHANGED hostVars
  PROVE  HostTypeOK'
BY DEF HostTypeOK, hostVars

(* Putting a case's warrant on hold keeps the types, on either host.       *)
LEMMA HoldAtSourceTyped ==
  ASSUME SourceTypeOK, NEW c \in Cases, HoldAtSource(c)
  PROVE  warrant' \in [SenderWarrants -> Warrant]
BY ReviewedWarrant DEF SourceTypeOK, HoldAtSource, Decisions

LEMMA HoldAtReceiverTyped ==
  ASSUME NEW c \in Cases,
         NEW ws \in [Envelopes -> Warrant],
         NEW js \in [Envelopes -> JobStates],
         NEW cut \in SUBSET Envelopes,
         WireTypeOK,
         HoldAtReceiver(c, ws, js, cut)
  PROVE  /\ localWarrant' \in [Envelopes -> Warrant]
         /\ job' \in [Envelopes -> JobStates]
         /\ torn' \subseteq Envelopes
         /\ WireTypeOK'
<1>1. localWarrant' \in [Envelopes -> Warrant]
  BY ReviewedWarrant DEF HoldAtReceiver, Decisions
<1>2. job' \in [Envelopes -> JobStates]
  BY DEF HoldAtReceiver, JobStates
<1>3. torn' \subseteq Envelopes
  BY DEF HoldAtReceiver
<1>4. WireTypeOK'
  BY StartTyped, WireStutter, MessagesTyped DEF HoldAtReceiver, Hosts, Decisions
<1>. QED BY <1>1, <1>2, <1>3, <1>4

LEMMA HoldTyped ==
  ASSUME TypeOK, NEW h \in Hosts, NEW c \in Cases, Hold(h, c)
  PROVE  SourceTypeOK' /\ ReceiverTypeOK' /\ WireTypeOK'
<1>. USE TypeParts
<1>1. CASE h = "source"
  <2>1. HoldAtSource(c) /\ UNCHANGED <<sentUnder, linked, acknowledged, inbox>>
    BY <1>1 DEF Hold
  <2>2. SourceTypeOK'
    BY <2>1, HoldAtSourceTyped DEF SourceTypeOK
  <2>3. ReceiverTypeOK' /\ WireTypeOK'
    BY <1>1, ReceiverStutter, WireStutter DEF Hold
  <2>. QED BY <2>2, <2>3
<1>2. CASE h = "receiver"
  <2>1. HoldAtReceiver(c, localWarrant, job, torn) /\ UNCHANGED <<courtNotice, noticed, payout>>
    BY <1>2 DEF Hold
  <2>2. ReceiverTypeOK' /\ WireTypeOK'
    BY <2>1, HoldAtReceiverTyped DEF ReceiverTypeOK
  <2>3. SourceTypeOK'
    BY <1>2, SourceStutter DEF Hold
  <2>. QED BY <2>2, <2>3
<1>. QED BY <1>1, <1>2 DEF Hosts

-----------------------------------------------------------------------------
(***************************************************************************)
(* Every action keeps the types.                                           *)
(***************************************************************************)
LEMMA TypeInit == Init => TypeOK
<1>. SUFFICES ASSUME Init
              PROVE  SourceTypeOK /\ ReceiverTypeOK /\ HostTypeOK /\ WireTypeOK
  BY TypeParts
<1>1. SourceTypeOK /\ ReceiverTypeOK
  BY UnissuedWarrant DEF Init, SourceTypeOK, ReceiverTypeOK, JobStates
<1>2. HostTypeOK /\ WireTypeOK
  BY DEF Init, HostTypeOK, WireTypeOK, NoCase, Cases
<1>. QED BY <1>1, <1>2

LEMMA OperatorTyped ==
  ASSUME TypeOK, OperatorNext
  PROVE  TypeOK'
<1>. USE TypeParts
<1>1. PICK h \in Hosts :
        \/ \E kind \in CaseKinds, w \in SenderWarrants \union Envelopes \union {None} :
             OpenCase(h, kind, w)
        \/ ResolveCase(h)
        \/ OperatorSettle(h)
        \/ OperatorAccept(h)
  BY DEF OperatorNext
<1>2. ASSUME NEW kind \in CaseKinds,
             NEW w \in SenderWarrants \union Envelopes \union {None},
             OpenCase(h, kind, w)
      PROVE  TypeOK'
  <2>. DEFINE c == [kind |-> kind, warrant |-> w]
  <2>1. c \in Cases
    BY ConstantsAssumption DEF Cases
  <2>2. SourceTypeOK' /\ ReceiverTypeOK' /\ WireTypeOK'
    BY <1>2, <2>1, HoldTyped DEF OpenCase
  <2>3. HostTypeOK'
    BY <1>2, <2>1 DEF OpenCase, HostTypeOK
  <2>. QED BY <2>2, <2>3
<1>3. CASE ResolveCase(h)
  <2>1. HostTypeOK'
    BY <1>3 DEF ResolveCase, HostTypeOK, NoCase, Cases
  <2>. QED BY <1>3, <2>1, SourceStutter, ReceiverStutter, WireStutter DEF ResolveCase
<1>4. CASE OperatorSettle(h)
  <2>1. HostTypeOK'
    BY <1>4 DEF OperatorSettle, HostTypeOK
  <2>2. SourceTypeOK' /\ ReceiverTypeOK' /\ WireTypeOK'
    BY <1>4, HoldTyped, SourceStutter, ReceiverStutter, WireStutter DEF OperatorSettle, HostTypeOK
  <2>. QED BY <2>1, <2>2
<1>5. CASE OperatorAccept(h)
  <2>1. HostTypeOK'
    BY <1>5 DEF OperatorAccept, HostTypeOK
  <2>. QED BY <1>5, <2>1, SourceStutter, ReceiverStutter, WireStutter DEF OperatorAccept
<1>. QED BY <1>1, <1>2, <1>3, <1>4, <1>5

LEMMA WireTyped ==
  ASSUME TypeOK, WireNext
  PROVE  TypeOK'
<1>. USE TypeParts
<1>1. ASSUME NEW h \in Hosts, CallRefused(h)
      PROVE  TypeOK'
  BY <1>1, ReturnTyped, SourceStutter, ReceiverStutter, HostStutter DEF CallRefused
<1>2. ASSUME NEW h \in Hosts, Abandon(h)
      PROVE  TypeOK'
  <2>1. WireTypeOK'
    BY <1>2, AbandonTyped
  <2>. QED BY <1>2, <2>1, SourceStutter, ReceiverStutter, HostStutter DEF Abandon
<1>3. ASSUME NEW m \in Messages, Refuse(m)
      PROVE  TypeOK'
  BY <1>3, ServeTyped, SourceStutter, ReceiverStutter, HostStutter DEF Refuse
<1>. QED BY <1>1, <1>2, <1>3 DEF WireNext

LEMMA SourceWarrantTyped ==
  ASSUME TypeOK, NEW w \in SenderWarrants,
         \/ \E auto \in BOOLEAN : IssueWarrant(w, auto)
         \/ \E decision \in ReviewChoices : ReviewWarrant(w, decision)
         \/ ExpireWarrant(w)
  PROVE  TypeOK'
<1>. USE TypeParts
<1>1. UNCHANGED <<sentUnder, linked, acknowledged, inbox, receiverVars, hostVars, wireVars>>
  BY DEF IssueWarrant, ReviewWarrant, ExpireWarrant
<1>2. ASSUME NEW auto \in BOOLEAN, IssueWarrant(w, auto)
      PROVE  warrant' \in [SenderWarrants -> Warrant]
  BY <1>2, IssuedWarrant DEF SourceTypeOK, IssueWarrant
<1>3. ASSUME NEW decision \in ReviewChoices, ReviewWarrant(w, decision)
      PROVE  warrant' \in [SenderWarrants -> Warrant]
  BY <1>3, ReviewedWarrant, ConstantsAssumption DEF SourceTypeOK, ReviewWarrant
<1>4. ASSUME ExpireWarrant(w)
      PROVE  warrant' \in [SenderWarrants -> Warrant]
  BY <1>4 DEF SourceTypeOK, ExpireWarrant, Warrant
<1>5. SourceTypeOK'
  BY <1>1, <1>2, <1>3, <1>4 DEF SourceTypeOK
<1>. QED BY <1>1, <1>5, ReceiverStutter, HostStutter, WireStutter

LEMMA SendTyped ==
  ASSUME TypeOK, NEW w \in SenderWarrants, NEW isLinked \in LinkChoices,
         \/ SendBlockedByCase(w, isLinked)
         \/ \E e \in Envelopes : SendRequest(e, w, isLinked)
  PROVE  TypeOK'
<1>. USE TypeParts
<1>1. CASE SendBlockedByCase(w, isLinked)
  <2>1. case["source"] \in Cases /\ "source" \in Hosts
    BY DEF HostTypeOK, Hosts
  <2>. QED BY <1>1, <2>1, HoldTyped, HostStutter DEF SendBlockedByCase
<1>2. ASSUME NEW e \in Envelopes, SendRequest(e, w, isLinked)
      PROVE  TypeOK'
  <2>1. SourceTypeOK'
    BY <1>2 DEF SendRequest, SourceTypeOK
  <2>2. WireTypeOK'
    BY <1>2, StartTyped DEF SendRequest, Hosts, Messages
  <2>. QED BY <1>2, <2>1, <2>2, ReceiverStutter, HostStutter DEF SendRequest
<1>. QED BY <1>1, <1>2

LEMMA SourceEnvelopeTyped ==
  ASSUME TypeOK, NEW e \in Envelopes,
         \/ CompleteSend(e)
         \/ \E decision \in Decisions : ServeCourtNotice(e, decision)
         \/ ServeSettlementNotice(e)
         \/ ServeSettlementNoticeInterrupted(e)
  PROVE  TypeOK'
<1>. USE TypeParts
<1>1. UNCHANGED receiverVars
  BY DEF CompleteSend, ServeCourtNotice, ServeSettlementNotice, ServeSettlementNoticeInterrupted
<1>2. WireTypeOK'
  <2>1. CASE CompleteSend(e)
    BY <2>1, ReturnTyped DEF CompleteSend, Hosts
  <2>2. ASSUME NEW decision \in Decisions, ServeCourtNotice(e, decision)
        PROVE  WireTypeOK'
    BY <2>2, ServeTyped, MessagesTyped DEF ServeCourtNotice
  <2>3. CASE ServeSettlementNotice(e)
    BY <2>3, ServeTyped DEF ServeSettlementNotice, Messages
  <2>4. CASE ServeSettlementNoticeInterrupted(e)
    BY <2>4, ServeTyped DEF ServeSettlementNoticeInterrupted, Messages
  <2>. QED BY <2>1, <2>2, <2>3, <2>4
<1>3. /\ \A v \in Warrant : MarkedExecuted(v) \in Warrant
      /\ \A v \in Warrant, d \in Decisions : Reviewed(v, d) \in Warrant
  BY MarkedWarrant, ReviewedWarrant
<1>4. Finalised(e) \in [SenderWarrants -> Warrant]
  BY <1>3 DEF SourceTypeOK, Finalised
<1>5. KeptInInbox(e) \in [Envelopes -> {"none", "received", "processed"}]
  BY DEF SourceTypeOK, KeptInInbox
<1>6. case["source"] \in Cases
  BY DEF HostTypeOK, Hosts
<1>7. SourceTypeOK'
  <2>1. CASE CompleteSend(e)
    BY <2>1, <1>3 DEF SourceTypeOK, CompleteSend, SpentBy
  <2>2. ASSUME NEW decision \in Decisions, ServeCourtNotice(e, decision)
        PROVE  SourceTypeOK'
    BY <2>2, <1>3 DEF SourceTypeOK, ServeCourtNotice
  <2>3. CASE ServeSettlementNotice(e)
    <3>1. warrant' \in [SenderWarrants -> Warrant]
      BY <2>3, <1>4, <1>6, HoldAtSourceTyped
        DEF SourceTypeOK, ServeSettlementNotice, BlockSettlementNotice,
            RejectSettlementNotice, ApplySettlementNotice
    <3>2. inbox' \in [Envelopes -> {"none", "received", "processed"}]
      BY <2>3, <1>5
        DEF SourceTypeOK, ServeSettlementNotice, BlockSettlementNotice,
            RejectSettlementNotice, ApplySettlementNotice
    <3>. QED BY <2>3, <3>1, <3>2 DEF SourceTypeOK, ServeSettlementNotice
  <2>4. CASE ServeSettlementNoticeInterrupted(e)
    BY <2>4, <1>4, <1>5 DEF SourceTypeOK, ServeSettlementNoticeInterrupted
  <2>. QED BY <2>1, <2>2, <2>3, <2>4
<1>8. HostTypeOK'
  <2>1. CASE CompleteSend(e)
    BY <2>1, HostStutter DEF CompleteSend
  <2>2. ASSUME NEW decision \in Decisions, ServeCourtNotice(e, decision)
        PROVE  HostTypeOK'
    BY <2>2, HostStutter DEF ServeCourtNotice
  <2>3. CASE ServeSettlementNotice(e)
    BY <2>3
      DEF HostTypeOK, hostVars, ServeSettlementNotice, BlockSettlementNotice,
          RejectSettlementNotice, ApplySettlementNotice, Cases, AllCaseKinds
  <2>4. CASE ServeSettlementNoticeInterrupted(e)
    BY <2>4 DEF HostTypeOK, ServeSettlementNoticeInterrupted
  <2>. QED BY <2>1, <2>2, <2>3, <2>4
<1>. QED BY <1>1, <1>2, <1>7, <1>8, ReceiverStutter

LEMMA SourceTyped ==
  ASSUME TypeOK, SourceNext
  PROVE  TypeOK'
BY SourceWarrantTyped, SendTyped, SourceEnvelopeTyped DEF SourceNext

LEMMA ReceiverTyped ==
  ASSUME TypeOK, ReceiverNext
  PROVE  TypeOK'
<1>. USE TypeParts
<1>1. CASE ExecutePayout
  <2>1. CASE case["receiver"].kind = "none"
    BY <1>1, <2>1, SourceStutter, HostStutter, WireStutter DEF ExecutePayout, ReceiverTypeOK
  <2>2. CASE case["receiver"].kind # "none"
    <3>1. case["receiver"] \in Cases /\ "receiver" \in Hosts
      BY DEF HostTypeOK, Hosts
    <3>. QED BY <1>1, <2>2, <3>1, HoldTyped, HostStutter DEF ExecutePayout
  <2>. QED BY <2>1, <2>2
<1>2. ASSUME NEW e \in Envelopes, ServeRequest(e)
      PROVE  TypeOK'
  <2>1. ReceiverTypeOK'
    BY <1>2, IssuedWarrant DEF ServeRequest, QueueUnlessBlocked, ReceiverTypeOK, JobStates
  <2>2. WireTypeOK'
    BY <1>2, ServeTyped DEF ServeRequest, Messages
  <2>. QED BY <1>2, <2>1, <2>2, SourceStutter, HostStutter DEF ServeRequest
<1>3. ASSUME NEW e \in Envelopes, NEW decision \in ReviewChoices,
             ReviewLocalWarrant(e, decision)
      PROVE  TypeOK'
  <2>1. localWarrant[e] \in Warrant /\ decision \in Decisions
    BY ConstantsAssumption DEF ReceiverTypeOK
  <2>2. SyncedJob(localWarrant[e], decision) \in JobStates
    BY <2>1, ReviewedWarrant, JobStateOfWarrant DEF SyncedJob
  <2>3. ReceiverTypeOK'
    BY <1>3, <2>1, <2>2, ReviewedWarrant DEF ReviewLocalWarrant, ReceiverTypeOK
  <2>4. WireTypeOK'
    BY <1>3, <2>1, StartTyped, WireStutter, MessagesTyped DEF ReviewLocalWarrant, Hosts
  <2>. QED BY <1>3, <2>3, <2>4, SourceStutter, HostStutter DEF ReviewLocalWarrant
<1>4. ASSUME NEW e \in Envelopes, NEW decision \in ReviewChoices,
             ReviewLocalWarrantInterrupted(e, decision)
      PROVE  TypeOK'
  <2>1. ReceiverTypeOK'
    BY <1>4, ReviewedWarrant, ConstantsAssumption
      DEF ReviewLocalWarrantInterrupted, ReceiverTypeOK
  <2>. QED BY <1>4, <2>1, SourceStutter, HostStutter, WireStutter
         DEF ReviewLocalWarrantInterrupted
<1>5. ASSUME NEW e \in Envelopes, ExpireLocalWarrant(e)
      PROVE  TypeOK'
  <2>1. ReceiverTypeOK'
    BY <1>5 DEF ExpireLocalWarrant, ReceiverTypeOK, Warrant
  <2>. QED BY <1>5, <2>1, SourceStutter, HostStutter, WireStutter DEF ExpireLocalWarrant
<1>6. ASSUME NEW e \in Envelopes, NEW decision \in Decisions,
             CompleteCourtNotice(e, decision)
      PROVE  TypeOK'
  <2>1. ReceiverTypeOK'
    BY <1>6 DEF CompleteCourtNotice, ReceiverTypeOK
  <2>2. WireTypeOK'
    BY <1>6, ReturnTyped DEF CompleteCourtNotice, Hosts
  <2>. QED BY <1>6, <2>1, <2>2, SourceStutter, HostStutter DEF CompleteCourtNotice
<1>7. ASSUME NEW e \in Envelopes, ExecuteJob(e)
      PROVE  TypeOK'
  <2>. DEFINE ws == [localWarrant EXCEPT ![e] = MarkedExecuted(@)]
              js == [job EXCEPT ![e] = "executed"]
  <2>1. ws \in [Envelopes -> Warrant] /\ js \in [Envelopes -> JobStates]
    BY MarkedWarrant DEF ReceiverTypeOK, JobStates
  <2>2. torn \ {e} \in SUBSET Envelopes /\ case["receiver"] \in Cases
    BY DEF ReceiverTypeOK, HostTypeOK, Hosts
  <2>3. /\ localWarrant' \in [Envelopes -> Warrant]
        /\ job' \in [Envelopes -> JobStates]
        /\ torn' \subseteq Envelopes
        /\ WireTypeOK'
    <3>1. CASE HasSettlementToReport(e) /\ Blocks("receiver", TRUE)
      <4>1. HoldAtReceiver(case["receiver"], ws, js, torn \ {e})
        BY <1>7, <3>1 DEF ExecuteJob
      <4>. HIDE DEF ws, js
      <4>. QED BY <2>1, <2>2, <4>1, HoldAtReceiverTyped
    <3>2. CASE ~(HasSettlementToReport(e) /\ Blocks("receiver", TRUE))
      <4>1. localWarrant' = ws /\ job' = js /\ torn' = torn \ {e}
        BY <1>7, <3>2 DEF ExecuteJob
      <4>2. Start("receiver", SettlementNotice(e)) \/ UNCHANGED wireVars
        BY <1>7, <3>2 DEF ExecuteJob
      <4>3. SettlementNotice(e) \in Messages
        BY DEF Messages
      <4>4. WireTypeOK'
        BY <4>2, <4>3, StartTyped, WireStutter DEF Hosts
      <4>. QED BY <2>1, <2>2, <4>1, <4>4
    <3>. QED BY <3>1, <3>2
  <2>4. UNCHANGED <<sourceVars, courtNotice, noticed, payout, hostVars>>
    BY <1>7 DEF ExecuteJob
  <2>5. ReceiverTypeOK'
    BY <2>3, <2>4 DEF ReceiverTypeOK
  <2>. QED BY <2>3, <2>4, <2>5, SourceStutter, HostStutter
<1>8. ASSUME NEW e \in Envelopes, ExecuteJobInterrupted(e)
      PROVE  TypeOK'
  <2>1. ReceiverTypeOK'
    BY <1>8, MarkedWarrant DEF ExecuteJobInterrupted, ReceiverTypeOK
  <2>. QED BY <1>8, <2>1, SourceStutter, HostStutter, WireStutter DEF ExecuteJobInterrupted
<1>9. ASSUME NEW e \in Envelopes, CompleteSettlementNotice(e)
      PROVE  TypeOK'
  <2>1. ReceiverTypeOK'
    BY <1>9 DEF CompleteSettlementNotice, ReceiverTypeOK
  <2>2. WireTypeOK'
    BY <1>9, ReturnTyped DEF CompleteSettlementNotice, Hosts
  <2>. QED BY <1>9, <2>1, <2>2, SourceStutter, HostStutter DEF CompleteSettlementNotice
<1>. QED BY <1>1, <1>2, <1>3, <1>4, <1>5, <1>6, <1>7, <1>8, <1>9 DEF ReceiverNext

(* Every reachable state is well typed, for every number of envelopes and  *)
(* warrants.                                                               *)
THEOREM TypeCorrect == Spec => []TypeOK
<1>1. Init => TypeOK
  BY TypeInit
<1>2. TypeOK /\ [Next]_vars => TypeOK'
  <2>. SUFFICES ASSUME TypeOK, [Next]_vars
                PROVE  TypeOK'
    OBVIOUS
  <2>1. CASE UNCHANGED vars
    BY <2>1, TypeParts, SourceStutter, ReceiverStutter, HostStutter, WireStutter DEF vars
  <2>. QED BY <2>1, OperatorTyped, WireTyped, SourceTyped, ReceiverTyped DEF Next
<1>. QED BY <1>1, <1>2, PTL DEF Spec

-----------------------------------------------------------------------------
(***************************************************************************)
(* The receiver's two stores.                                              *)
(***************************************************************************)
stores == <<localWarrant, job, torn>>

(* The steps that write the two stores; all others leave them alone.       *)
StoreStep ==
  \/ \E c \in Cases : HoldAtReceiver(c, localWarrant, job, torn) /\ UNCHANGED sourceVars
  \/ \E e \in Envelopes :
       \/ ServeRequest(e)
       \/ \E decision \in Decisions :
            ReviewLocalWarrant(e, decision) \/ ReviewLocalWarrantInterrupted(e, decision)
       \/ ExpireLocalWarrant(e)
       \/ ExecuteJob(e)
       \/ ExecuteJobInterrupted(e)

LEMMA StoreSteps ==
  ASSUME TypeOK, [Next]_vars
  PROVE  StoreStep \/ UNCHANGED stores
<1>1. ASSUME NEW h \in Hosts, NEW c \in Cases, Hold(h, c)
      PROVE  StoreStep \/ UNCHANGED stores
  BY <1>1 DEF Hold, StoreStep, stores, receiverVars
<1>2. \A h \in Hosts : case[h] \in Cases
  BY DEF TypeOK
<1>3. "source" \in Hosts /\ "receiver" \in Hosts
  BY DEF Hosts
<1>4. CASE OperatorNext
  <2>1. ASSUME NEW h \in Hosts, NEW kind \in CaseKinds,
               NEW w \in SenderWarrants \union Envelopes \union {None}, OpenCase(h, kind, w)
        PROVE  StoreStep \/ UNCHANGED stores
    <3>1. [kind |-> kind, warrant |-> w] \in Cases
      BY ConstantsAssumption DEF Cases
    <3>. QED BY <1>1, <2>1, <3>1 DEF OpenCase
  <2>2. ASSUME NEW h \in Hosts, ResolveCase(h) \/ OperatorSettle(h) \/ OperatorAccept(h)
        PROVE  StoreStep \/ UNCHANGED stores
    BY <1>1, <1>2, <2>2 DEF ResolveCase, OperatorSettle, OperatorAccept, receiverVars, stores
  <2>. QED BY <1>4, <2>1, <2>2 DEF OperatorNext
<1>5. CASE WireNext
  BY <1>5 DEF WireNext, CallRefused, Abandon, Refuse, receiverVars, stores
<1>6. CASE SourceNext
  <2>1. ASSUME NEW w \in SenderWarrants, NEW isLinked \in LinkChoices,
               SendBlockedByCase(w, isLinked)
        PROVE  StoreStep \/ UNCHANGED stores
    BY <1>1, <1>2, <1>3, <2>1 DEF SendBlockedByCase
  <2>. QED BY <1>6, <2>1
         DEF SourceNext, IssueWarrant, ReviewWarrant, ExpireWarrant, SendRequest, CompleteSend,
             ServeCourtNotice, ServeSettlementNotice, ServeSettlementNoticeInterrupted,
             receiverVars, stores
<1>7. CASE ReceiverNext
  <2>1. CASE ExecutePayout
    BY <1>1, <1>2, <1>3, <2>1 DEF ExecutePayout, stores
  <2>2. ASSUME NEW e \in Envelopes, NEW decision \in Decisions,
               CompleteCourtNotice(e, decision) \/ CompleteSettlementNotice(e)
        PROVE  UNCHANGED stores
    BY <2>2 DEF CompleteCourtNotice, CompleteSettlementNotice, stores
  <2>3. CASE \E e \in Envelopes : CompleteSettlementNotice(e)
    BY <2>3 DEF CompleteSettlementNotice, stores
  <2>. QED BY <1>7, <2>1, <2>2, <2>3, ConstantsAssumption DEF ReceiverNext, StoreStep
<1>8. CASE UNCHANGED vars
  BY <1>8 DEF vars, receiverVars, stores
<1>. QED BY <1>4, <1>5, <1>6, <1>7, <1>8 DEF Next

(* What the two stores say of one envelope; t: its last update was cut.    *)
EntryOK(w, j, t) ==
  /\ j = "executed" => w.execution = "executed"
  /\ ~t => IF Exists(w) THEN j = JobStateFor(w) ELSE j \in {"none", "blocked"}
  /\ Exists(w) => j # "none"
  /\ ~Exists(w) => w = Unissued

StoresOK(ws, js, cut) == \A e \in Envelopes : EntryOK(ws[e], js[e], e \in cut)

StoresInv == StoresOK(localWarrant, job, torn)

LEMMA StoresInit == Init => StoresInv
BY UnissuedWarrant DEF Init, StoresInv, StoresOK, EntryOK

(* The job that mirrors its warrant.                                       *)
LEMMA MirroredEntry ==
  ASSUME NEW w \in Warrant, Exists(w)
  PROVE  EntryOK(w, JobStateFor(w), FALSE)
BY JobStateOfWarrant DEF EntryOK

(* Holding a case's warrant keeps the two stores in agreement.             *)
LEMMA HoldKeepsStores ==
  ASSUME NEW c \in Cases,
         NEW ws \in [Envelopes -> Warrant],
         NEW js \in [Envelopes -> JobStates],
         NEW cut \in SUBSET Envelopes,
         StoresOK(ws, js, cut),
         HoldAtReceiver(c, ws, js, cut)
  PROVE  StoresInv'
<1>. SUFFICES ASSUME NEW e \in Envelopes
              PROVE  EntryOK(localWarrant'[e], job'[e], e \in torn')
  BY DEF StoresInv, StoresOK
<1>1. EntryOK(ws[e], js[e], e \in cut)
  BY DEF StoresOK
<1>2. CASE c.warrant = e /\ Stayable(ws[e])
  <2>1. /\ localWarrant'[e] = Reviewed(ws[e], "stay")
        /\ job'[e] = "blocked"
        /\ e \notin torn'
    BY <1>2 DEF HoldAtReceiver
  <2>2. /\ Reviewed(ws[e], "stay") \in Warrant
        /\ Exists(Reviewed(ws[e], "stay"))
        /\ JobStateFor(Reviewed(ws[e], "stay")) = "blocked"
    BY <1>2, ReviewedWarrant
      DEF Stayable, JobStateFor, Permitted, Reviewed, ReviewedAs, Decisions, Warrant
  <2>3. (e \in torn') = FALSE
    BY <2>1
  <2>. QED BY <2>1, <2>2, <2>3, MirroredEntry
<1>3. CASE ~(c.warrant = e /\ Stayable(ws[e]))
  <2>1. localWarrant'[e] = ws[e] /\ job'[e] = js[e] /\ (e \in torn' <=> e \in cut)
    BY <1>3 DEF HoldAtReceiver
  <2>. QED BY <1>1, <2>1 DEF EntryOK
<1>. QED BY <1>2, <1>3

(* So does marking a job and its warrant executed.                         *)
LEMMA ExecutionKeepsStores ==
  ASSUME TypeOK, StoresInv, NEW e \in Envelopes, Exists(localWarrant[e])
  PROVE  StoresOK([localWarrant EXCEPT ![e] = MarkedExecuted(@)],
                  [job EXCEPT ![e] = "executed"],
                  torn \ {e})
<1>. DEFINE ws == [localWarrant EXCEPT ![e] = MarkedExecuted(@)]
            js == [job EXCEPT ![e] = "executed"]
            cut == torn \ {e}
<1>1. localWarrant \in [Envelopes -> Warrant] /\ job \in [Envelopes -> JobStates]
  BY DEF TypeOK
<1>2. /\ MarkedExecuted(localWarrant[e]) \in Warrant
      /\ Exists(MarkedExecuted(localWarrant[e]))
      /\ JobStateFor(MarkedExecuted(localWarrant[e])) = "executed"
  BY <1>1, MarkedWarrant DEF Exists, JobStateFor
<1>3. ws[e] = MarkedExecuted(localWarrant[e]) /\ js[e] = "executed" /\ (e \in cut) = FALSE
  BY <1>1
<1>4. EntryOK(ws[e], js[e], e \in cut)
  BY <1>2, <1>3, MirroredEntry
<1>5. ASSUME NEW f \in Envelopes \ {e}
      PROVE  ws[f] = localWarrant[f] /\ js[f] = job[f] /\ (f \in cut <=> f \in torn)
  BY <1>1
<1>. QED BY <1>4, <1>5 DEF StoresInv, StoresOK, EntryOK

LEMMA StoresNext ==
  ASSUME TypeOK, StoresInv, [Next]_vars
  PROVE  StoresInv'
<1>. USE DEF StoresInv
<1>1. /\ localWarrant \in [Envelopes -> Warrant]
      /\ job \in [Envelopes -> JobStates]
      /\ torn \in SUBSET Envelopes
      /\ case["receiver"] \in Cases
  BY DEF TypeOK, Hosts
<1>2. ASSUME NEW c \in Cases, HoldAtReceiver(c, localWarrant, job, torn)
      PROVE  StoresInv'
  BY <1>1, <1>2, HoldKeepsStores
<1>3. ASSUME NEW e \in Envelopes, ServeRequest(e)
      PROVE  StoresInv'
  <2>1. /\ Issued(FALSE) \in Warrant
        /\ Exists(Issued(FALSE))
        /\ JobStateFor(Issued(FALSE)) = "pending_local_warrant"
    BY IssuedWarrant DEF Issued, Unissued, JobStateFor, Permitted
  <2>2. ~Exists(localWarrant[e]) /\ job[e] = "none"
    BY <1>3 DEF ServeRequest, StoresOK, EntryOK
  <2>3. EntryOK(localWarrant'[e], job'[e], e \in torn')
    <3>1. CASE Blocks("receiver", e \in linked)
      BY <1>1, <1>3, <2>2, <3>1 DEF ServeRequest, QueueUnlessBlocked, StoresOK, EntryOK
    <3>2. CASE ~Blocks("receiver", e \in linked)
      <4>1. localWarrant'[e] = Issued(FALSE) /\ job'[e] = "pending_local_warrant"
        BY <1>1, <1>3, <3>2 DEF ServeRequest, QueueUnlessBlocked
      <4>. QED BY <2>1, <4>1 DEF EntryOK
    <3>. QED BY <3>1, <3>2
  <2>4. ASSUME NEW f \in Envelopes \ {e}
        PROVE  localWarrant'[f] = localWarrant[f] /\ job'[f] = job[f] /\ torn' = torn
    BY <1>1, <1>3 DEF ServeRequest, QueueUnlessBlocked
  <2>. QED BY <2>3, <2>4 DEF StoresOK
<1>4. ASSUME NEW e \in Envelopes, NEW decision \in Decisions, ReviewLocalWarrant(e, decision)
      PROVE  StoresInv'
  <2>. DEFINE w == Reviewed(localWarrant[e], decision)
  <2>1. w \in Warrant /\ Exists(w)
    BY <1>1, ReviewedWarrant
  <2>2. localWarrant'[e] = w /\ job'[e] = JobStateFor(w) /\ (e \in torn') = FALSE
    BY <1>1, <1>4 DEF ReviewLocalWarrant, SyncedJob
  <2>3. EntryOK(localWarrant'[e], job'[e], e \in torn')
    BY <2>1, <2>2, MirroredEntry
  <2>4. ASSUME NEW f \in Envelopes \ {e}
        PROVE  /\ localWarrant'[f] = localWarrant[f]
               /\ job'[f] = job[f]
               /\ f \in torn' <=> f \in torn
    BY <1>1, <1>4 DEF ReviewLocalWarrant
  <2>. QED BY <2>3, <2>4 DEF StoresOK, EntryOK
<1>5. ASSUME NEW e \in Envelopes, NEW decision \in Decisions,
             ReviewLocalWarrantInterrupted(e, decision)
      PROVE  StoresInv'
  <2>. DEFINE w == Reviewed(localWarrant[e], decision)
  <2>1. w \in Warrant /\ Exists(w) /\ w.execution = localWarrant[e].execution
    BY <1>1, ReviewedWarrant
  <2>2. localWarrant'[e] = w /\ job' = job /\ (e \in torn') = TRUE
    BY <1>1, <1>5 DEF ReviewLocalWarrantInterrupted
  <2>3. Exists(localWarrant[e]) /\ EntryOK(localWarrant[e], job[e], e \in torn)
    BY <1>5 DEF ReviewLocalWarrantInterrupted, StoresOK
  <2>4. EntryOK(localWarrant'[e], job'[e], e \in torn')
    BY <2>1, <2>2, <2>3 DEF EntryOK
  <2>5. ASSUME NEW f \in Envelopes \ {e}
        PROVE  localWarrant'[f] = localWarrant[f] /\ (f \in torn' <=> f \in torn)
    BY <1>1, <1>5 DEF ReviewLocalWarrantInterrupted
  <2>. QED BY <2>2, <2>4, <2>5 DEF StoresOK, EntryOK
<1>6. ASSUME NEW e \in Envelopes, ExpireLocalWarrant(e)
      PROVE  StoresInv'
  <2>1. /\ localWarrant'[e].review = localWarrant[e].review
        /\ localWarrant'[e].execution = localWarrant[e].execution
        /\ Exists(localWarrant[e])
        /\ job' = job /\ torn' = torn
    BY <1>1, <1>6 DEF ExpireLocalWarrant, Warrant
  <2>2. EntryOK(localWarrant'[e], job'[e], e \in torn')
    BY <2>1 DEF StoresOK, EntryOK, JobStateFor, Permitted, Exists
  <2>3. ASSUME NEW f \in Envelopes \ {e}
        PROVE  localWarrant'[f] = localWarrant[f]
    BY <1>1, <1>6 DEF ExpireLocalWarrant
  <2>. QED BY <2>1, <2>2, <2>3 DEF StoresOK
<1>7. ASSUME NEW e \in Envelopes, ExecuteJob(e)
      PROVE  StoresInv'
  <2>. DEFINE ws == [localWarrant EXCEPT ![e] = MarkedExecuted(@)]
              js == [job EXCEPT ![e] = "executed"]
              cut == torn \ {e}
  <2>1. /\ ws \in [Envelopes -> Warrant]
        /\ js \in [Envelopes -> JobStates]
        /\ cut \in SUBSET Envelopes
    BY <1>1, MarkedWarrant DEF JobStates
  <2>2. StoresOK(ws, js, cut)
    BY <1>7, ExecutionKeepsStores DEF ExecuteJob, Executable
  <2>3. \/ HoldAtReceiver(case["receiver"], ws, js, cut)
        \/ localWarrant' = ws /\ job' = js /\ torn' = cut
    BY <1>7 DEF ExecuteJob
  <2>. HIDE DEF ws, js, cut
  <2>. QED BY <1>1, <2>1, <2>2, <2>3, HoldKeepsStores
<1>8. ASSUME NEW e \in Envelopes, ExecuteJobInterrupted(e)
      PROVE  StoresInv'
  <2>. DEFINE w == MarkedExecuted(localWarrant[e])
  <2>1. Exists(localWarrant[e]) /\ EntryOK(localWarrant[e], job[e], e \in torn)
    BY <1>8 DEF ExecuteJobInterrupted, Executable, StoresOK
  <2>2. w \in Warrant /\ Exists(w) /\ w.execution = "executed"
    BY <1>1, <2>1, MarkedWarrant DEF Exists
  <2>3. localWarrant'[e] = w /\ job' = job /\ (e \in torn') = TRUE
    BY <1>1, <1>8 DEF ExecuteJobInterrupted
  <2>4. EntryOK(localWarrant'[e], job'[e], e \in torn')
    BY <2>1, <2>2, <2>3 DEF EntryOK
  <2>5. ASSUME NEW f \in Envelopes \ {e}
        PROVE  localWarrant'[f] = localWarrant[f] /\ (f \in torn' <=> f \in torn)
    BY <1>1, <1>8 DEF ExecuteJobInterrupted
  <2>. QED BY <2>3, <2>4, <2>5 DEF StoresOK, EntryOK
<1>9. CASE UNCHANGED stores
  BY <1>9 DEF stores
<1>. QED BY StoreSteps, <1>2, <1>3, <1>4, <1>5, <1>6, <1>7, <1>8, <1>9 DEF StoreStep

(* The two stores of the receiver agree on every envelope whose last       *)
(* update was not cut by a crash, in every reachable state.                *)
THEOREM StoresCorrect == Spec => []StoresInv
<1>1. TypeOK /\ StoresInv /\ [Next]_vars => StoresInv'
  BY StoresNext
<1>. QED BY StoresInit, TypeCorrect, <1>1, PTL DEF Spec

(* The job store never runs ahead of the warrant store                     *)
(* (_complete_federated_execution_job saves the warrant first).            *)
THEOREM JobFollowsWarrant == Spec => []JobNeverAheadOfWarrant
<1>1. StoresInv => JobNeverAheadOfWarrant
  BY DEF StoresInv, StoresOK, EntryOK, JobNeverAheadOfWarrant
<1>. QED BY <1>1, StoresCorrect, PTL

(* A job that has a local warrant mirrors it, unless a crash cut its last  *)
(* update; one that has none is blocked                                    *)
(* (_sync_execution_job_for_warrant_review, sync_execution_jobs).          *)
THEOREM StoresAgreeAlways == Spec => []StoresAgree
<1>1. StoresInv => StoresAgree
  BY DEF StoresInv, StoresOK, EntryOK, StoresAgree
<1>. QED BY <1>1, StoresCorrect, PTL

-----------------------------------------------------------------------------
(***************************************************************************)
(* The wire: what is on it, and how a step changes it.                     *)
(***************************************************************************)
LEMMA MessagesDiffer ==
  ASSUME NEW e \in Envelopes, NEW f \in Envelopes, NEW d \in Decisions
  PROVE  /\ Request(e) = Request(f) => e = f
         /\ SettlementNotice(e) = SettlementNotice(f) => e = f
         /\ Request(e) # SettlementNotice(f)
         /\ Request(e) # CourtNotice(f, d)
         /\ SettlementNotice(e) # CourtNotice(f, d)
         /\ Receiver(Request(e)) = "receiver" /\ Sender(Request(e)) = "source"
         /\ Receiver(SettlementNotice(e)) = "source" /\ Sender(SettlementNotice(e)) = "receiver"
         /\ Receiver(CourtNotice(e, d)) = "source" /\ Sender(CourtNotice(e, d)) = "receiver"
BY DEF Request, SettlementNotice, CourtNotice, Receiver, Sender

InFlight(m) == m \in stale \/ \E h \in Hosts : call[h] = m

WireMove ==
  \/ UNCHANGED wireVars
  \/ \E m \in Messages : Serve(m, "refused")
  \/ \E e \in Envelopes : Serve(Request(e), "ok")
  \/ \E e \in Envelopes, d \in Decisions : Serve(CourtNotice(e, d), "ok")
  \/ \E e \in Envelopes : ServeSettlementNotice(e)
  \/ \E h \in Hosts : Return(h) \/ Abandon(h)
  \/ \E e \in Envelopes, d \in Decisions :
       Idle("receiver") /\ Start("receiver", CourtNotice(e, d))
  \/ \E e \in Envelopes, w \in SenderWarrants, isLinked \in BOOLEAN : SendRequest(e, w, isLinked)
  \/ \E e \in Envelopes :
       ExecuteJob(e) /\ HasSettlementToReport(e) /\ Start("receiver", SettlementNotice(e))

LEMMA WireMoves ==
  ASSUME TypeOK, [Next]_vars
  PROVE  WireMove
<1>1. /\ "source" \in Hosts /\ "receiver" \in Hosts /\ "stay" \in Decisions
      /\ \A h \in Hosts : case[h] \in Cases
  BY DEF Hosts, Decisions, TypeOK
<1>2. ASSUME NEW c \in Cases, NEW ws, NEW js, NEW cut, HoldAtReceiver(c, ws, js, cut),
             Idle("receiver")
      PROVE  WireMove
  <2>1. UNCHANGED wireVars \/ (c.warrant \in Envelopes /\ Start("receiver", CourtNotice(c.warrant, "stay")))
    BY <1>2 DEF HoldAtReceiver
  <2>. QED BY <1>1, <1>2, <2>1 DEF WireMove
<1>3. ASSUME NEW h \in Hosts, NEW c \in Cases, Hold(h, c), Idle(h)
      PROVE  WireMove
  <2>1. CASE h = "source"
    BY <1>3, <2>1 DEF Hold, WireMove
  <2>2. CASE h = "receiver"
    BY <1>2, <1>3, <2>2 DEF Hold
  <2>. QED BY <2>1, <2>2 DEF Hosts
<1>4. CASE OperatorNext
  <2>1. ASSUME NEW h \in Hosts, NEW kind \in CaseKinds,
               NEW w \in SenderWarrants \union Envelopes \union {None}, OpenCase(h, kind, w)
        PROVE  WireMove
    <3>1. [kind |-> kind, warrant |-> w] \in Cases
      BY ConstantsAssumption DEF Cases
    <3>. QED BY <1>3, <2>1, <3>1 DEF OpenCase
  <2>2. ASSUME NEW h \in Hosts, ResolveCase(h) \/ OperatorSettle(h) \/ OperatorAccept(h)
        PROVE  WireMove
    BY <1>1, <1>3, <2>2 DEF ResolveCase, OperatorSettle, OperatorAccept, WireMove
  <2>. QED BY <1>4, <2>1, <2>2 DEF OperatorNext
<1>5. CASE WireNext
  <2>1. ASSUME NEW h \in Hosts, CallRefused(h) \/ Abandon(h)
        PROVE  WireMove
    BY <2>1 DEF CallRefused, WireMove
  <2>2. ASSUME NEW m \in Messages, Refuse(m)
        PROVE  WireMove
    BY <2>2 DEF Refuse, WireMove
  <2>. QED BY <1>5, <2>1, <2>2 DEF WireNext
<1>6. CASE SourceNext
  <2>1. ASSUME NEW w \in SenderWarrants,
               \/ \E auto \in BOOLEAN : IssueWarrant(w, auto)
               \/ \E decision \in ReviewChoices : ReviewWarrant(w, decision)
               \/ ExpireWarrant(w)
        PROVE  WireMove
    BY <2>1 DEF IssueWarrant, ReviewWarrant, ExpireWarrant, WireMove
  <2>2. ASSUME NEW w \in SenderWarrants, NEW isLinked \in LinkChoices,
               SendBlockedByCase(w, isLinked)
        PROVE  WireMove
    BY <1>1, <1>3, <2>2 DEF SendBlockedByCase, ReadyToSend
  <2>3. ASSUME NEW w \in SenderWarrants, NEW isLinked \in LinkChoices, NEW e \in Envelopes,
               SendRequest(e, w, isLinked)
        PROVE  WireMove
    BY <2>3, ConstantsAssumption DEF WireMove
  <2>4. ASSUME NEW e \in Envelopes, CompleteSend(e)
        PROVE  WireMove
    BY <1>1, <2>4 DEF CompleteSend, WireMove
  <2>5. ASSUME NEW e \in Envelopes, NEW decision \in Decisions, ServeCourtNotice(e, decision)
        PROVE  WireMove
    BY <2>5 DEF ServeCourtNotice, WireMove
  <2>6. ASSUME NEW e \in Envelopes, ServeSettlementNotice(e)
        PROVE  WireMove
    BY <2>6 DEF WireMove
  <2>7. ASSUME NEW e \in Envelopes, ServeSettlementNoticeInterrupted(e)
        PROVE  WireMove
    BY <2>7 DEF ServeSettlementNoticeInterrupted, WireMove, Messages
  <2>. QED BY <1>6, <2>1, <2>2, <2>3, <2>4, <2>5, <2>6, <2>7 DEF SourceNext
<1>7. CASE ReceiverNext
  <2>1. CASE ExecutePayout
    BY <1>1, <1>3, <2>1 DEF ExecutePayout, WireMove
  <2>2. ASSUME NEW e \in Envelopes, ServeRequest(e)
        PROVE  WireMove
    BY <2>2 DEF ServeRequest, WireMove
  <2>3. ASSUME NEW e \in Envelopes, NEW decision \in Decisions,
               \/ ReviewLocalWarrant(e, decision)
               \/ ReviewLocalWarrantInterrupted(e, decision)
        PROVE  WireMove
    BY <2>3 DEF ReviewLocalWarrant, ReviewLocalWarrantInterrupted, WireMove
  <2>4. ASSUME NEW e \in Envelopes, ExpireLocalWarrant(e) \/ ExecuteJobInterrupted(e)
        PROVE  WireMove
    BY <2>4 DEF ExpireLocalWarrant, ExecuteJobInterrupted, WireMove
  <2>5. ASSUME NEW e \in Envelopes, NEW decision \in Decisions, CompleteCourtNotice(e, decision)
        PROVE  WireMove
    BY <1>1, <2>5 DEF CompleteCourtNotice, WireMove
  <2>6. ASSUME NEW e \in Envelopes, CompleteSettlementNotice(e)
        PROVE  WireMove
    BY <1>1, <2>6 DEF CompleteSettlementNotice, WireMove
  <2>7. ASSUME NEW e \in Envelopes, ExecuteJob(e)
        PROVE  WireMove
    <3>1. CASE HasSettlementToReport(e) /\ Blocks("receiver", TRUE)
      <4>1. PICK ws, js, cut : HoldAtReceiver(case["receiver"], ws, js, cut)
        BY <2>7, <3>1 DEF ExecuteJob
      <4>2. Idle("receiver")
        BY <2>7 DEF ExecuteJob
      <4>. QED BY <1>1, <1>2, <4>1, <4>2
    <3>2. CASE HasSettlementToReport(e) /\ ~Blocks("receiver", TRUE)
      <4>1. Start("receiver", SettlementNotice(e))
        BY <2>7, <3>2 DEF ExecuteJob
      <4>. QED BY <2>7, <3>2, <4>1 DEF WireMove
    <3>3. CASE ~HasSettlementToReport(e)
      BY <2>7, <3>3 DEF ExecuteJob, WireMove
    <3>. QED BY <3>1, <3>2, <3>3
  <2>. QED BY <1>7, <2>1, <2>2, <2>3, <2>4, <2>5, <2>6, <2>7, ConstantsAssumption DEF ReceiverNext
<1>8. CASE UNCHANGED vars
  BY <1>8 DEF vars, WireMove
<1>. QED BY <1>4, <1>5, <1>6, <1>7, <1>8 DEF Next

-----------------------------------------------------------------------------
(***************************************************************************)
(* The source's records, and how a step changes them.                      *)
(***************************************************************************)
SpentExists ==
  \A w \in SenderWarrants : warrant[w].execution = "executed" => Exists(warrant[w])

(* No warrant is spent or lost by the step.                                *)
KeepsWarrants ==
  \A w \in SenderWarrants :
    /\ warrant'[w].execution = warrant[w].execution
    /\ Exists(warrant[w]) => Exists(warrant'[w])

ServesSettlement(e) ==
  /\ \E answer \in {"ok", "refused"} : Serve(SettlementNotice(e), answer)
  /\ UNCHANGED <<sentUnder, linked, acknowledged>>
  /\ \/ KeepsWarrants /\ inbox' = KeptInInbox(e)
     \/ /\ warrant' = Finalised(e)
        /\ inbox' = KeptInInbox(e) \/ inbox' = [inbox EXCEPT ![e] = "processed"]

SourceMove ==
  \/ KeepsWarrants /\ UNCHANGED <<sentUnder, linked, acknowledged, inbox>>
  \/ \E e \in Envelopes, w \in SenderWarrants, isLinked \in BOOLEAN : SendRequest(e, w, isLinked)
  \/ \E e \in Envelopes : CompleteSend(e)
  \/ \E e \in Envelopes : ServesSettlement(e)

LEMMA HoldKeepsWarrants ==
  ASSUME TypeOK, NEW c \in Cases, HoldAtSource(c)
  PROVE  KeepsWarrants
<1>1. warrant \in [SenderWarrants -> Warrant]
  BY DEF TypeOK
<1>2. \A v \in Warrant : /\ Exists(Reviewed(v, "stay"))
                         /\ Reviewed(v, "stay").execution = v.execution
  BY ReviewedWarrant DEF Decisions
<1>. QED BY <1>1, <1>2 DEF HoldAtSource, KeepsWarrants

LEMMA SourceMoves ==
  ASSUME TypeOK, SpentExists, [Next]_vars
  PROVE  SourceMove
<1>. DEFINE others == <<sentUnder, linked, acknowledged, inbox>>
<1>1. /\ "source" \in Hosts /\ "receiver" \in Hosts
      /\ \A h \in Hosts : case[h] \in Cases
      /\ warrant \in [SenderWarrants -> Warrant]
      /\ sentUnder \in [Envelopes -> SenderWarrants \union {None}]
  BY DEF Hosts, TypeOK
<1>2. UNCHANGED sourceVars => SourceMove
  BY DEF sourceVars, SourceMove, KeepsWarrants
<1>3. KeepsWarrants /\ UNCHANGED others => SourceMove
  BY DEF SourceMove
<1>4. ASSUME NEW h \in Hosts, NEW c \in Cases, Hold(h, c)
      PROVE  SourceMove
  BY <1>2, <1>3, <1>4, HoldKeepsWarrants DEF Hold
<1>5. CASE OperatorNext
  <2>1. ASSUME NEW h \in Hosts, NEW kind \in CaseKinds,
               NEW w \in SenderWarrants \union Envelopes \union {None}, OpenCase(h, kind, w)
        PROVE  SourceMove
    <3>1. [kind |-> kind, warrant |-> w] \in Cases
      BY ConstantsAssumption DEF Cases
    <3>. QED BY <1>4, <2>1, <3>1 DEF OpenCase
  <2>2. ASSUME NEW h \in Hosts, ResolveCase(h) \/ OperatorSettle(h) \/ OperatorAccept(h)
        PROVE  SourceMove
    BY <1>1, <1>2, <1>4, <2>2 DEF ResolveCase, OperatorSettle, OperatorAccept
  <2>. QED BY <1>5, <2>1, <2>2 DEF OperatorNext
<1>6. CASE WireNext
  BY <1>2, <1>6 DEF WireNext, CallRefused, Abandon, Refuse
<1>7. CASE SourceNext
  <2>1. ASSUME NEW w \in SenderWarrants, NEW auto \in BOOLEAN, IssueWarrant(w, auto)
        PROVE  SourceMove
    <3>1. warrant[w].execution = "ready" /\ ~Exists(warrant[w])
      BY <1>1, <2>1 DEF IssueWarrant, SpentExists, Warrant
    <3>2. warrant' = [warrant EXCEPT ![w] = Issued(auto)] /\ UNCHANGED others
      BY <2>1 DEF IssueWarrant
    <3>3. KeepsWarrants
      BY <1>1, <3>1, <3>2, IssuedWarrant DEF KeepsWarrants
    <3>. QED BY <1>3, <3>2, <3>3
  <2>2. ASSUME NEW w \in SenderWarrants, NEW decision \in ReviewChoices, ReviewWarrant(w, decision)
        PROVE  SourceMove
    <3>1. Reviewed(warrant[w], decision).execution = warrant[w].execution
      BY <1>1, ReviewedWarrant, ConstantsAssumption
    <3>2. Exists(Reviewed(warrant[w], decision))
      BY <1>1, ReviewedWarrant, ConstantsAssumption
    <3>3. warrant' = [warrant EXCEPT ![w] = Reviewed(@, decision)] /\ UNCHANGED others
      BY <2>2 DEF ReviewWarrant
    <3>4. KeepsWarrants
      BY <1>1, <3>1, <3>2, <3>3 DEF KeepsWarrants
    <3>. QED BY <1>3, <3>3, <3>4
  <2>3. ASSUME NEW w \in SenderWarrants, ExpireWarrant(w)
        PROVE  SourceMove
    <3>1. KeepsWarrants
      BY <1>1, <2>3 DEF ExpireWarrant, KeepsWarrants, Exists, Warrant
    <3>. QED BY <1>3, <2>3, <3>1 DEF ExpireWarrant
  <2>4. ASSUME NEW w \in SenderWarrants, NEW isLinked \in LinkChoices,
               SendBlockedByCase(w, isLinked)
        PROVE  SourceMove
    BY <1>1, <1>4, <2>4 DEF SendBlockedByCase
  <2>5. ASSUME NEW w \in SenderWarrants, NEW isLinked \in LinkChoices, NEW e \in Envelopes,
               SendRequest(e, w, isLinked)
        PROVE  SourceMove
    BY <2>5, ConstantsAssumption DEF SourceMove
  <2>6. ASSUME NEW e \in Envelopes, CompleteSend(e)
        PROVE  SourceMove
    BY <2>6 DEF SourceMove
  <2>7. ASSUME NEW e \in Envelopes, NEW decision \in Decisions, ServeCourtNotice(e, decision)
        PROVE  SourceMove
    <3>1. \A v \in Warrant : /\ Exists(Reviewed(v, decision))
                             /\ Reviewed(v, decision).execution = v.execution
      BY ReviewedWarrant
    <3>2. KeepsWarrants
      BY <1>1, <2>7, <3>1 DEF ServeCourtNotice, KeepsWarrants
    <3>. QED BY <1>3, <2>7, <3>2 DEF ServeCourtNotice
  <2>8. ASSUME NEW e \in Envelopes, ServeSettlementNotice(e)
        PROVE  SourceMove
    <3>1. CASE BlockSettlementNotice(e)
      <4>1. KeepsWarrants
        BY <1>1, <3>1, HoldKeepsWarrants DEF BlockSettlementNotice
      <4>. QED BY <2>8, <3>1, <4>1
             DEF BlockSettlementNotice, ServeSettlementNotice, ServesSettlement, SourceMove
    <3>2. CASE RejectSettlementNotice(e)
      BY <2>8, <3>2
        DEF RejectSettlementNotice, ServeSettlementNotice, ServesSettlement, SourceMove, KeepsWarrants
    <3>3. CASE ApplySettlementNotice(e)
      BY <2>8, <3>3
        DEF ApplySettlementNotice, ServeSettlementNotice, ServesSettlement, SourceMove
    <3>. QED BY <2>8, <3>1, <3>2, <3>3 DEF ServeSettlementNotice
  <2>9. ASSUME NEW e \in Envelopes, ServeSettlementNoticeInterrupted(e)
        PROVE  SourceMove
    BY <2>9 DEF ServeSettlementNoticeInterrupted, ServesSettlement, SourceMove, KeepsWarrants
  <2>. QED BY <1>7, <2>1, <2>2, <2>3, <2>4, <2>5, <2>6, <2>7, <2>8, <2>9 DEF SourceNext
<1>8. CASE ReceiverNext
  <2>1. CASE ExecutePayout
    BY <1>1, <1>2, <1>4, <2>1 DEF ExecutePayout
  <2>2. UNCHANGED sourceVars \/ ExecutePayout
    BY <1>8 DEF ReceiverNext, ServeRequest, ReviewLocalWarrant, ReviewLocalWarrantInterrupted,
                ExpireLocalWarrant, CompleteCourtNotice, ExecuteJob, ExecuteJobInterrupted,
                CompleteSettlementNotice
  <2>. QED BY <1>2, <2>1, <2>2
<1>9. CASE UNCHANGED vars
  BY <1>2, <1>9 DEF vars
<1>. QED BY <1>5, <1>6, <1>7, <1>8, <1>9 DEF Next

-----------------------------------------------------------------------------
(***************************************************************************)
(* The inductive invariant.                                                *)
(***************************************************************************)

(* A pending call is the host's own, and only a pending call is answered.  *)
CallsInv ==
  \A h \in Hosts :
    /\ call[h] # None => Sender(call[h]) = h
    /\ call[h] = None => reply[h] = "none"

(* Every trace of a request leads back to the warrant it was sent under.   *)
RequestsInv ==
  /\ SpentExists
  /\ \A e \in Envelopes :
       /\ \/ InFlight(Request(e))
          \/ job[e] # "none"
          \/ inbox[e] # "none"
          \/ e \in acknowledged
          => sentUnder[e] # None
       /\ sentUnder[e] # None => Exists(warrant[sentUnder[e]])

(* Every trace of a settlement notice leads back to an executed job.       *)
NoticesInv ==
  \A e \in Envelopes :
    InFlight(SettlementNotice(e)) \/ inbox[e] # "none" =>
      e \in linked /\ payout /\ job[e] = "executed" /\ localWarrant[e].execution = "executed"

(* The receiver reports one settlement, which the source then has.         *)
ReportsInv ==
  /\ \A e \in Envelopes :
       call["receiver"] = SettlementNotice(e) =>
         noticed = {} /\ (reply["receiver"] = "ok" => inbox[e] # "none")
  /\ OneAcknowledgedNotice
  /\ NoticedMeansReceived

(* The source spends the warrant of a request when it must.                *)
SpendingInv ==
  /\ \A e \in Envelopes :
       call["source"] = Request(e) =>
         /\ inbox[e] = "none"
         /\ e \notin linked => warrant[sentUnder[e]].execution = "ready"
  /\ \A e \in acknowledged \ linked : warrant[sentUnder[e]].execution = "executed"
  /\ SettlementSpendsWarrant
  /\ OneStandaloneRequestPerWarrant

IInv == StoresInv /\ CallsInv /\ RequestsInv /\ NoticesInv /\ ReportsInv /\ SpendingInv

LEMMA IInvInit == Init => IInv
<1>. SUFFICES ASSUME Init
              PROVE  IInv
  OBVIOUS
<1>1. \A e \in Envelopes : ~InFlight(Request(e)) /\ ~InFlight(SettlementNotice(e))
  BY MessagesTyped, NoneAssumption DEF Init, InFlight, Decisions
<1>2. CallsInv
  BY DEF Init, CallsInv
<1>3. RequestsInv
  BY <1>1, UnissuedWarrant DEF Init, RequestsInv, SpentExists
<1>4. NoticesInv
  BY <1>1 DEF Init, NoticesInv
<1>5. \A e \in Envelopes : call["receiver"] # SettlementNotice(e) /\ call["source"] # Request(e)
  BY <1>1 DEF InFlight, Hosts
<1>6. ReportsInv
  BY <1>5 DEF Init, ReportsInv, OneAcknowledgedNotice, NoticedMeansReceived
<1>7. SpendingInv
  BY <1>5 DEF Init, SpendingInv, SettlementSpendsWarrant, OneStandaloneRequestPerWarrant
<1>. QED BY <1>2, <1>3, <1>4, <1>6, <1>7, StoresInit DEF IInv

LEMMA CallsNext ==
  ASSUME TypeOK, CallsInv, [Next]_vars
  PROVE  CallsInv'
<1>1. call \in [Hosts -> Messages \union {None}] /\ reply \in [Hosts -> {"none", "ok", "refused"}]
  BY DEF TypeOK
<1>2. ASSUME NEW m \in Messages, NEW answer, Serve(m, answer)
      PROVE  CallsInv'
  BY <1>1, <1>2, MessageHosts DEF Serve, CallsInv
<1>3. ASSUME NEW h \in Hosts, Return(h) \/ Abandon(h)
      PROVE  CallsInv'
  BY <1>1, <1>3 DEF Return, Abandon, CallsInv
<1>4. ASSUME NEW h \in Hosts, NEW m \in Messages, Start(h, m), Sender(m) = h
      PROVE  CallsInv'
  BY <1>1, <1>4, MessageHosts DEF Start, CallsInv
<1>5. CASE UNCHANGED wireVars
  BY <1>5 DEF wireVars, CallsInv
<1>6. ASSUME NEW e \in Envelopes
      PROVE  /\ Request(e) \in Messages /\ Sender(Request(e)) = "source"
             /\ SettlementNotice(e) \in Messages /\ Sender(SettlementNotice(e)) = "receiver"
             /\ \A d \in Decisions : CourtNotice(e, d) \in Messages /\ Sender(CourtNotice(e, d)) = "receiver"
  BY DEF Messages, Request, SettlementNotice, CourtNotice, Sender
<1>7. ASSUME NEW e \in Envelopes, NEW w, NEW isLinked, SendRequest(e, w, isLinked)
      PROVE  CallsInv'
  BY <1>4, <1>6, <1>7 DEF SendRequest, Hosts
<1>8. ASSUME NEW e \in Envelopes, ServeSettlementNotice(e)
      PROVE  CallsInv'
  BY <1>2, <1>6, <1>8 DEF ServeSettlementNotice
<1>. QED BY WireMoves, <1>2, <1>3, <1>4, <1>5, <1>6, <1>7, <1>8 DEF WireMove, Hosts

Appears(m) == ~InFlight(m) /\ InFlight(m)'

(* A message new on the wire was put there by one of two actions, or is a  *)
(* court notice.                                                           *)
LEMMA NewMessages ==
  ASSUME TypeOK, [Next]_vars, NEW e \in Envelopes
  PROVE  /\ InFlight(Request(e))' =>
              \/ InFlight(Request(e))
              \/ \E w \in SenderWarrants, isLinked \in BOOLEAN : SendRequest(e, w, isLinked)
         /\ InFlight(SettlementNotice(e))' =>
              \/ InFlight(SettlementNotice(e))
              \/ ExecuteJob(e) /\ HasSettlementToReport(e)
<1>1. call \in [Hosts -> Messages \union {None}] /\ "source" \in Hosts /\ "receiver" \in Hosts
  BY DEF TypeOK, Hosts
<1>2. ASSUME NEW m \in Messages, NEW n \in Messages, NEW answer \in {"ok", "refused"}, Serve(n, answer)
      PROVE  ~Appears(m)
  BY <1>1, <1>2 DEF Serve, InFlight, Appears
<1>3. ASSUME NEW m \in Messages, NEW h \in Hosts, Return(h) \/ Abandon(h)
      PROVE  ~Appears(m)
  BY <1>1, <1>3, NoneAssumption DEF Return, Abandon, InFlight, Appears
<1>4. ASSUME NEW m \in Messages, NEW n \in Messages, NEW h \in Hosts, Start(h, n), Appears(m)
      PROVE  m = n
  BY <1>1, <1>4 DEF Start, InFlight, Appears
<1>5. ASSUME NEW m \in Messages, UNCHANGED wireVars
      PROVE  ~Appears(m)
  BY <1>5 DEF wireVars, InFlight, Appears
<1>6. \A f \in Envelopes :
        /\ Request(f) \in Messages
        /\ SettlementNotice(f) \in Messages
        /\ \A d \in Decisions : CourtNotice(f, d) \in Messages
  BY DEF Messages
<1>7. ASSUME NEW f \in Envelopes, NEW w \in SenderWarrants, NEW isLinked \in BOOLEAN,
             SendRequest(f, w, isLinked)
      PROVE  /\ Appears(Request(e)) => e = f
             /\ ~Appears(SettlementNotice(e))
  BY <1>1, <1>4, <1>6, <1>7, MessagesDiffer DEF SendRequest, Decisions
<1>8. ASSUME NEW f \in Envelopes, NEW d \in Decisions, Start("receiver", CourtNotice(f, d))
      PROVE  ~Appears(Request(e)) /\ ~Appears(SettlementNotice(e))
  BY <1>1, <1>4, <1>6, <1>8, MessagesDiffer
<1>9. ASSUME NEW f \in Envelopes, Start("receiver", SettlementNotice(f))
      PROVE  ~Appears(Request(e)) /\ (Appears(SettlementNotice(e)) => e = f)
  BY <1>1, <1>4, <1>6, <1>9, MessagesDiffer DEF Decisions
<1>10. ASSUME NEW f \in Envelopes, ServeSettlementNotice(f)
       PROVE  ~Appears(Request(e)) /\ ~Appears(SettlementNotice(e))
  BY <1>2, <1>6, <1>10 DEF ServeSettlementNotice
<1>11. /\ Appears(Request(e)) => \E w \in SenderWarrants, isLinked \in BOOLEAN : SendRequest(e, w, isLinked)
       /\ Appears(SettlementNotice(e)) => ExecuteJob(e) /\ HasSettlementToReport(e)
  BY WireMoves, <1>2, <1>3, <1>5, <1>6, <1>7, <1>8, <1>9, <1>10 DEF WireMove
<1>. QED BY <1>11 DEF Appears

(* What the receiver has done is never undone, and a job appears only for  *)
(* a request on the wire.                                                  *)
LEMMA JobsStay ==
  ASSUME TypeOK, StoresInv, [Next]_vars, NEW e \in Envelopes
  PROVE  /\ job[e] # "none" => job'[e] # "none"
         /\ job[e] = "executed" => job'[e] = "executed"
         /\ localWarrant[e].execution = "executed" => localWarrant'[e].execution = "executed"
         /\ job[e] = "none" /\ job'[e] # "none" => InFlight(Request(e))
<1>1. /\ localWarrant \in [Envelopes -> Warrant]
      /\ job \in [Envelopes -> JobStates]
      /\ case["receiver"] \in Cases
  BY DEF TypeOK, Hosts
<1>2. \A f \in Envelopes : EntryOK(localWarrant[f], job[f], f \in torn)
  BY DEF StoresInv, StoresOK
<1>3. \A f \in Envelopes, d \in Decisions :
        /\ Reviewed(localWarrant[f], d) \in Warrant
        /\ Reviewed(localWarrant[f], d).execution = localWarrant[f].execution
  BY <1>1, ReviewedWarrant
<1>4. ASSUME NEW c \in Cases, NEW ws \in [Envelopes -> Warrant], NEW js \in [Envelopes -> JobStates],
             NEW cut, HoldAtReceiver(c, ws, js, cut), StoresOK(ws, js, cut)
      PROVE  /\ js[e] # "none" => job'[e] # "none"
             /\ js[e] = "executed" => job'[e] = "executed"
             /\ ws[e].execution = "executed" => localWarrant'[e].execution = "executed"
             /\ js[e] = "none" => job'[e] = "none"
  <2>1. EntryOK(ws[e], js[e], e \in cut)
    BY <1>4 DEF StoresOK
  <2>2. CASE c.warrant = e /\ Stayable(ws[e])
    <3>1. job'[e] = "blocked" /\ Exists(ws[e]) /\ ws[e].execution = "ready"
      BY <1>4, <2>2 DEF HoldAtReceiver, Stayable
    <3>. QED BY <2>1, <3>1 DEF EntryOK
  <2>3. CASE ~(c.warrant = e /\ Stayable(ws[e]))
    BY <1>4, <2>3 DEF HoldAtReceiver
  <2>. QED BY <2>2, <2>3
<1>5. CASE \E c \in Cases : HoldAtReceiver(c, localWarrant, job, torn)
  BY <1>1, <1>4, <1>5 DEF StoresInv
<1>6. ASSUME NEW f \in Envelopes, ServeRequest(f)
      PROVE  /\ f # e => UNCHANGED <<job[e], localWarrant[e]>>
             /\ f = e => /\ job[e] = "none" /\ localWarrant[e].execution = "ready"
                         /\ InFlight(Request(e))
  <2>1. job[f] = "none" /\ Serve(Request(f), "ok") /\ QueueUnlessBlocked(f)
    BY <1>6 DEF ServeRequest
  <2>2. ~Exists(localWarrant[f]) /\ localWarrant[f].execution = "ready"
    BY <1>2, <2>1, UnissuedWarrant DEF EntryOK
  <2>3. InFlight(Request(f))
    BY <2>1, MessagesDiffer DEF Serve, InFlight, Sender, Request, Hosts
  <2>. QED BY <1>1, <2>1, <2>2, <2>3 DEF QueueUnlessBlocked
<1>7. ASSUME NEW f \in Envelopes, NEW d \in Decisions,
             ReviewLocalWarrant(f, d) \/ ReviewLocalWarrantInterrupted(f, d)
      PROVE  /\ f # e => UNCHANGED <<job[e], localWarrant[e]>>
             /\ f = e => /\ localWarrant'[e].execution = localWarrant[e].execution
                         /\ \/ job'[e] = job[e]
                            \/ job'[e] = JobStateFor(Reviewed(localWarrant[e], d))
                         /\ job[e] # "none"
  <2>1. Exists(localWarrant[f])
    BY <1>7 DEF ReviewLocalWarrant, ReviewLocalWarrantInterrupted
  <2>2. job[f] # "none"
    BY <1>2, <2>1 DEF EntryOK
  <2>. QED BY <1>1, <1>3, <1>7, <2>2
         DEF ReviewLocalWarrant, ReviewLocalWarrantInterrupted, SyncedJob
<1>8. ASSUME NEW f \in Envelopes, ExpireLocalWarrant(f)
      PROVE  job' = job /\ localWarrant'[e].execution = localWarrant[e].execution
  BY <1>1, <1>8 DEF ExpireLocalWarrant, Warrant
<1>9. ASSUME NEW f \in Envelopes, ExecuteJob(f)
      PROVE  /\ job[e] # "none" => job'[e] # "none"
             /\ job[e] = "executed" => job'[e] = "executed"
             /\ localWarrant[e].execution = "executed" => localWarrant'[e].execution = "executed"
             /\ job[e] = "none" => job'[e] = "none"
  <2>. DEFINE ws == [localWarrant EXCEPT ![f] = MarkedExecuted(@)]
              js == [job EXCEPT ![f] = "executed"]
              cut == torn \ {f}
  <2>1. \/ HoldAtReceiver(case["receiver"], ws, js, cut)
        \/ localWarrant' = ws /\ job' = js
    BY <1>9 DEF ExecuteJob
  <2>2. /\ ws \in [Envelopes -> Warrant] /\ js \in [Envelopes -> JobStates]
        /\ ws[e].execution = localWarrant[e].execution \/ ws[e].execution = "executed"
        /\ js[e] = job[e] \/ (js[e] = "executed" /\ e = f)
    BY <1>1, MarkedWarrant DEF JobStates
  <2>3. Exists(localWarrant[f])
    BY <1>9 DEF ExecuteJob, Executable
  <2>4. job[f] # "none"
    BY <1>2, <2>3 DEF EntryOK
  <2>5. StoresOK(ws, js, cut)
    BY <2>3, ExecutionKeepsStores
  <2>. HIDE DEF ws, js, cut
  <2>6. CASE HoldAtReceiver(case["receiver"], ws, js, cut)
    BY <1>1, <1>4, <2>2, <2>4, <2>5, <2>6
  <2>7. CASE localWarrant' = ws /\ job' = js
    BY <2>2, <2>4, <2>7
  <2>. QED BY <2>1, <2>6, <2>7
<1>10. ASSUME NEW f \in Envelopes, ExecuteJobInterrupted(f)
       PROVE  /\ job' = job
              /\ localWarrant[e].execution = "executed" => localWarrant'[e].execution = "executed"
  BY <1>1, <1>10, MarkedWarrant DEF ExecuteJobInterrupted
<1>11. \A d \in Decisions :
         /\ JobStateFor(Reviewed(localWarrant[e], d)) # "none"
         /\ job[e] = "executed" => JobStateFor(Reviewed(localWarrant[e], d)) = "executed"
  BY <1>2, <1>3, JobStateOfWarrant DEF EntryOK
<1>12. CASE UNCHANGED stores
  BY <1>12 DEF stores
<1>. QED BY StoreSteps, <1>5, <1>6, <1>7, <1>8, <1>9, <1>10, <1>11, <1>12 DEF StoreStep

(* The receiver's remaining records: only the obvious action writes them.  *)
LEMMA ReceiverRecords ==
  ASSUME TypeOK, [Next]_vars
  PROVE  /\ payout => payout'
         /\ \/ noticed' = noticed
            \/ \E e \in Envelopes : CompleteSettlementNotice(e)
<1>. DEFINE Goal == /\ payout => payout'
                    /\ noticed' = noticed \/ \E e \in Envelopes : CompleteSettlementNotice(e)
<1>1. ASSUME NEW h, NEW c, Hold(h, c)
      PROVE  Goal
  BY <1>1 DEF Hold, receiverVars
<1>2. UNCHANGED receiverVars => Goal
  BY DEF receiverVars
<1>3. CASE OperatorNext
  BY <1>1, <1>2, <1>3 DEF OperatorNext, OpenCase, ResolveCase, OperatorSettle, OperatorAccept
<1>4. CASE WireNext
  BY <1>2, <1>4 DEF WireNext, CallRefused, Abandon, Refuse
<1>5. CASE SourceNext
  BY <1>1, <1>2, <1>5
    DEF SourceNext, IssueWarrant, ReviewWarrant, ExpireWarrant, SendBlockedByCase, SendRequest,
        CompleteSend, ServeCourtNotice, ServeSettlementNotice, ServeSettlementNoticeInterrupted
<1>6. CASE ReceiverNext
  <2>1. CASE ExecutePayout
    BY <1>1, <2>1 DEF ExecutePayout
  <2>2. CASE \E e \in Envelopes : CompleteSettlementNotice(e)
    BY <2>2 DEF CompleteSettlementNotice
  <2>3. CASE ~ExecutePayout /\ ~\E e \in Envelopes : CompleteSettlementNotice(e)
    <3>1. UNCHANGED <<payout, noticed>>
      BY <1>6, <2>3
        DEF ReceiverNext, ServeRequest, ReviewLocalWarrant, ReviewLocalWarrantInterrupted,
            ExpireLocalWarrant, CompleteCourtNotice, ExecuteJob, ExecuteJobInterrupted
    <3>. QED BY <3>1
  <2>. QED BY <2>1, <2>2, <2>3
<1>7. CASE UNCHANGED vars
  BY <1>2, <1>7 DEF vars
<1>. QED BY <1>3, <1>4, <1>5, <1>6, <1>7 DEF Next

(* The source's records, read off SourceMove.                              *)
LEMMA SourceRecords ==
  ASSUME TypeOK, RequestsInv, [Next]_vars, NEW e \in Envelopes
  PROVE  /\ e \in linked => e \in linked'
         /\ sentUnder[e] # None => sentUnder'[e] = sentUnder[e]
         /\ e \in acknowledged' => e \in acknowledged \/ InFlight(Request(e))
         /\ inbox'[e] # inbox[e] => InFlight(SettlementNotice(e))
<1>1. SourceMove
  BY SourceMoves DEF RequestsInv
<1>2. /\ inbox \in [Envelopes -> {"none", "received", "processed"}]
      /\ sentUnder \in [Envelopes -> SenderWarrants \union {None}]
  BY DEF TypeOK
<1>3. ASSUME NEW f \in Envelopes, NEW w \in SenderWarrants, NEW isLinked \in BOOLEAN,
             SendRequest(f, w, isLinked)
      PROVE  /\ e \in linked => e \in linked'
             /\ sentUnder[e] # None => sentUnder'[e] = sentUnder[e]
             /\ UNCHANGED <<acknowledged, inbox>>
  BY <1>2, <1>3 DEF SendRequest
<1>4. ASSUME NEW f \in Envelopes, CompleteSend(f)
      PROVE  /\ UNCHANGED <<sentUnder, linked, inbox>>
             /\ acknowledged' = acknowledged \union {f}
             /\ InFlight(Request(f))
  BY <1>4 DEF CompleteSend, InFlight, Hosts
<1>5. ASSUME NEW f \in Envelopes, ServesSettlement(f)
      PROVE  /\ UNCHANGED <<sentUnder, linked, acknowledged>>
             /\ InFlight(SettlementNotice(f))
             /\ f # e => inbox'[e] = inbox[e]
  <2>1. InFlight(SettlementNotice(f))
    BY <1>5 DEF ServesSettlement, Serve, InFlight, Sender, SettlementNotice, Hosts
  <2>. QED BY <1>2, <1>5, <2>1 DEF ServesSettlement, KeptInInbox
<1>. QED BY <1>1, <1>3, <1>4, <1>5 DEF SourceMove

LEMMA NoticesNext ==
  ASSUME TypeOK, StoresInv, RequestsInv, NoticesInv, [Next]_vars
  PROVE  NoticesInv'
<1>. SUFFICES ASSUME NEW e \in Envelopes, InFlight(SettlementNotice(e))' \/ inbox'[e] # "none"
              PROVE  /\ e \in linked' /\ payout' /\ job'[e] = "executed"
                     /\ localWarrant'[e].execution = "executed"
  BY DEF NoticesInv
<1>1. /\ localWarrant \in [Envelopes -> Warrant]
      /\ job \in [Envelopes -> JobStates]
      /\ case["receiver"] \in Cases
      /\ torn \subseteq Envelopes
  BY DEF TypeOK, Hosts
<1>2. CASE InFlight(SettlementNotice(e)) \/ inbox[e] # "none"
  <2>1. e \in linked /\ payout /\ job[e] = "executed" /\ localWarrant[e].execution = "executed"
    BY <1>2 DEF NoticesInv
  <2>. QED BY <2>1, JobsStay, SourceRecords, ReceiverRecords
<1>3. CASE ExecuteJob(e) /\ HasSettlementToReport(e)
  <2>. DEFINE ws == [localWarrant EXCEPT ![e] = MarkedExecuted(@)]
              js == [job EXCEPT ![e] = "executed"]
  <2>1. e \in linked /\ payout /\ linked' = linked /\ payout' = payout
    BY <1>3 DEF ExecuteJob, HasSettlementToReport, sourceVars
  <2>2. ws[e].execution = "executed" /\ js[e] = "executed"
    BY <1>1, MarkedWarrant
  <2>3. \/ HoldAtReceiver(case["receiver"], ws, js, torn \ {e})
        \/ localWarrant' = ws /\ job' = js
    BY <1>3 DEF ExecuteJob
  <2>4. CASE HoldAtReceiver(case["receiver"], ws, js, torn \ {e})
    <3>1. ~Stayable(ws[e])
      BY <2>2 DEF Stayable
    <3>2. ws \in [Envelopes -> Warrant] /\ js \in [Envelopes -> JobStates]
      BY <1>1, MarkedWarrant DEF JobStates
    <3>. HIDE DEF ws, js
    <3>3. localWarrant'[e] = ws[e] /\ job'[e] = js[e]
      BY <2>4, <3>1, <3>2 DEF HoldAtReceiver
    <3>. QED BY <2>1, <2>2, <3>3
  <2>. QED BY <2>1, <2>2, <2>3, <2>4
<1>4. \/ InFlight(SettlementNotice(e)) \/ inbox[e] # "none"
      \/ ExecuteJob(e) /\ HasSettlementToReport(e)
  <2>1. InFlight(SettlementNotice(e))' =>
          InFlight(SettlementNotice(e)) \/ (ExecuteJob(e) /\ HasSettlementToReport(e))
    BY NewMessages
  <2>2. inbox'[e] # "none" => inbox[e] # "none" \/ InFlight(SettlementNotice(e))
    BY SourceRecords
  <2>. QED BY <2>1, <2>2
<1>. QED BY <1>2, <1>3, <1>4

LEMMA RequestsNext ==
  ASSUME TypeOK, StoresInv, RequestsInv, NoticesInv, [Next]_vars
  PROVE  RequestsInv'
<1>1. /\ warrant \in [SenderWarrants -> Warrant]
      /\ sentUnder \in [Envelopes -> SenderWarrants \union {None}]
      /\ inbox \in [Envelopes -> {"none", "received", "processed"}]
  BY DEF TypeOK
<1>2. SpentExists /\ SourceMove
  BY SourceMoves DEF RequestsInv
<1>3. \A e \in Envelopes : sentUnder[e] # None => Exists(warrant[sentUnder[e]])
  BY DEF RequestsInv
<1>4. \A v \in Warrant : Exists(v) => Exists(MarkedExecuted(v))
  BY MarkedWarrant DEF Exists
<1>5. \A w \in SenderWarrants :
        /\ Exists(warrant[w]) => Exists(warrant'[w])
        /\ warrant'[w].execution = "executed" => Exists(warrant'[w])
  <2>1. CASE KeepsWarrants
    BY <1>2, <2>1 DEF KeepsWarrants, SpentExists
  <2>2. ASSUME NEW e \in Envelopes, NEW w \in SenderWarrants, NEW isLinked \in BOOLEAN,
               SendRequest(e, w, isLinked)
        PROVE  warrant' = warrant
    BY <2>2 DEF SendRequest
  <2>3. ASSUME NEW e \in Envelopes,
               warrant' = warrant \/ warrant' = [warrant EXCEPT ![sentUnder[e]] = MarkedExecuted(@)]
        PROVE  \A w \in SenderWarrants :
                 /\ Exists(warrant[w]) => Exists(warrant'[w])
                 /\ warrant'[w].execution = "executed" => Exists(warrant'[w])
    <3>1. ASSUME NEW w \in SenderWarrants
          PROVE  \/ warrant'[w] = warrant[w]
                 \/ Exists(warrant[w]) /\ warrant'[w] = MarkedExecuted(warrant[w])
      BY <1>1, <1>3, <2>3, NoneAssumption
    <3>. QED BY <1>1, <1>2, <1>4, <3>1 DEF SpentExists
  <2>4. ASSUME NEW e \in Envelopes, CompleteSend(e)
        PROVE  warrant' = warrant \/ warrant' = [warrant EXCEPT ![sentUnder[e]] = MarkedExecuted(@)]
    BY <2>4 DEF CompleteSend, SpentBy
  <2>5. ASSUME NEW e \in Envelopes, ServesSettlement(e)
        PROVE  \/ KeepsWarrants
               \/ warrant' = warrant
               \/ warrant' = [warrant EXCEPT ![sentUnder[e]] = MarkedExecuted(@)]
    BY <2>5 DEF ServesSettlement, Finalised
  <2>. QED BY <1>2, <2>1, <2>2, <2>3, <2>4, <2>5 DEF SourceMove, SpentExists
<1>6. SpentExists'
  BY <1>5 DEF SpentExists
<1>7. ASSUME NEW e \in Envelopes, sentUnder'[e] # None
      PROVE  Exists(warrant'[sentUnder'[e]])
  <2>1. CASE sentUnder[e] # None
    BY <1>1, <1>3, <1>5, <2>1, SourceRecords
  <2>2. CASE sentUnder[e] = None
    <3>1. PICK f \in Envelopes, w \in SenderWarrants, isLinked \in BOOLEAN :
            SendRequest(f, w, isLinked)
      BY <1>2, <1>7, <2>2 DEF SourceMove, CompleteSend, ServesSettlement
    <3>2. sentUnder'[e] = w /\ warrant' = warrant /\ Permitted(warrant[w])
      BY <1>1, <1>7, <2>2, <3>1 DEF SendRequest, ReadyToSend, ValidForExecution
    <3>. QED BY <3>2 DEF Permitted, Exists
  <2>. QED BY <2>1, <2>2
<1>8. ASSUME NEW e \in Envelopes,
             InFlight(Request(e))' \/ job'[e] # "none" \/ inbox'[e] # "none" \/ e \in acknowledged'
      PROVE  sentUnder'[e] # None
  <2>1. CASE \E w \in SenderWarrants, isLinked \in BOOLEAN : SendRequest(e, w, isLinked)
    BY <1>1, <2>1, NoneAssumption DEF SendRequest
  <2>2. CASE InFlight(Request(e)) \/ job[e] # "none" \/ inbox[e] # "none" \/ e \in acknowledged
    <3>1. sentUnder[e] # None
      BY <2>2 DEF RequestsInv
    <3>. QED BY <3>1, SourceRecords
  <2>3. CASE InFlight(SettlementNotice(e))
    <3>1. job[e] # "none"
      BY <2>3 DEF NoticesInv
    <3>. QED BY <2>2, <3>1
  <2>4. \/ \E w \in SenderWarrants, isLinked \in BOOLEAN : SendRequest(e, w, isLinked)
        \/ InFlight(Request(e)) \/ job[e] # "none" \/ inbox[e] # "none" \/ e \in acknowledged
        \/ InFlight(SettlementNotice(e))
    <3>1. CASE InFlight(Request(e))'
      BY <3>1, NewMessages
    <3>2. CASE job'[e] # "none" \/ inbox'[e] # "none" \/ e \in acknowledged'
      BY <3>2, JobsStay, SourceRecords
    <3>. QED BY <1>8, <3>1, <3>2
  <2>. QED BY <2>1, <2>2, <2>3, <2>4
<1>. QED BY <1>6, <1>7, <1>8 DEF RequestsInv

(* A host with a call pending serves nothing and starts nothing, so the    *)
(* source's records stand still until its request is answered.             *)
LEMMA SpendingNext ==
  ASSUME TypeOK, CallsInv, RequestsInv, NoticesInv, SpendingInv, [Next]_vars
  PROVE  SpendingInv'
<1>1. /\ warrant \in [SenderWarrants -> Warrant]
      /\ sentUnder \in [Envelopes -> SenderWarrants \union {None}]
      /\ inbox \in [Envelopes -> {"none", "received", "processed"}]
      /\ call \in [Hosts -> Messages \union {None}]
      /\ acknowledged \subseteq Envelopes
      /\ "source" \in Hosts
  BY DEF TypeOK, Hosts
<1>2. SourceMove
  BY SourceMoves DEF RequestsInv
<1>3. \A e \in acknowledged : sentUnder[e] \in SenderWarrants
  BY <1>1 DEF RequestsInv
<1>4. \A v \in Warrant : MarkedExecuted(v).execution = "executed"
  BY MarkedWarrant
<1>5. \A e \in Envelopes : Request(e) \in Messages /\ Request(e) # None
  BY NoneAssumption DEF Messages
<1>6. \/ \E e \in Envelopes, w \in SenderWarrants, isLinked \in BOOLEAN :
           SendRequest(e, w, isLinked)
      \/ call'["source"] \in {call["source"], None}
  <2>1. ASSUME NEW m, NEW answer, Serve(m, answer)
        PROVE  call' = call
    BY <2>1 DEF Serve
  <2>2. ASSUME NEW h \in Hosts, Return(h) \/ Abandon(h)
        PROVE  call'["source"] \in {call["source"], None}
    BY <1>1, <2>2 DEF Return, Abandon
  <2>3. ASSUME NEW m, Start("receiver", m)
        PROVE  call'["source"] = call["source"]
    BY <1>1, <2>3 DEF Start
  <2>4. ASSUME NEW e \in Envelopes, ServeSettlementNotice(e)
        PROVE  call' = call
    BY <2>4 DEF ServeSettlementNotice, Serve
  <2>. QED BY WireMoves, <2>1, <2>2, <2>3, <2>4 DEF WireMove, wireVars
<1>7. ASSUME NEW e \in Envelopes, NEW w \in SenderWarrants, NEW isLinked \in BOOLEAN,
             SendRequest(e, w, isLinked)
      PROVE  SpendingInv'
  <2>1. /\ sentUnder[e] = None
        /\ e \notin acknowledged
        /\ inbox[e] = "none"
        /\ warrant[w].execution = "ready"
        /\ UNCHANGED <<warrant, acknowledged, inbox>>
        /\ sentUnder' = [sentUnder EXCEPT ![e] = w]
        /\ linked' = linked \/ linked' = linked \union {e}
        /\ call'["source"] = Request(e)
    BY <1>1, <1>7, NoneAssumption
      DEF SendRequest, ReadyToSend, ValidForExecution, RequestsInv, Start
  <2>2. ASSUME NEW f \in Envelopes, call'["source"] = Request(f)
        PROVE  f = e
    BY <2>1, <2>2 DEF Request
  <2>3. \A f \in acknowledged : sentUnder'[f] = sentUnder[f] /\ (f \in linked' <=> f \in linked)
    BY <1>1, <2>1
  <2>4. sentUnder'[e] = w
    BY <1>1, <2>1
  <2>. QED BY <1>1, <2>1, <2>2, <2>3, <2>4
         DEF SpendingInv, SettlementSpendsWarrant, OneStandaloneRequestPerWarrant
<1>8. CASE /\ KeepsWarrants
           /\ UNCHANGED <<sentUnder, linked, acknowledged, inbox>>
           /\ call'["source"] \in {call["source"], None}
  <2>1. \A e \in Envelopes : call'["source"] = Request(e) =>
          call["source"] = Request(e) /\ sentUnder[e] \in SenderWarrants
    BY <1>1, <1>5, <1>8 DEF RequestsInv, InFlight
  <2>. QED BY <1>1, <1>3, <1>8, <2>1
         DEF SpendingInv, SettlementSpendsWarrant, OneStandaloneRequestPerWarrant, KeepsWarrants
<1>9. ASSUME NEW e \in Envelopes, CompleteSend(e)
      PROVE  SpendingInv'
  <2>1. /\ call["source"] = Request(e)
        /\ call'["source"] = None
        /\ warrant' = SpentBy(e)
        /\ acknowledged' = acknowledged \union {e}
        /\ UNCHANGED <<sentUnder, linked, inbox>>
    BY <1>1, <1>9 DEF CompleteSend, Return
  <2>2. sentUnder[e] \in SenderWarrants /\ inbox[e] = "none"
    BY <1>1, <2>1 DEF RequestsInv, InFlight, SpendingInv
  <2>3. \A f \in Envelopes : call'["source"] # Request(f)
    BY <1>5, <2>1
  <2>4. \A f \in acknowledged' : sentUnder[f] \in SenderWarrants
    BY <1>3, <2>1, <2>2
  <2>5. CASE e \in linked
    BY <1>1, <2>1, <2>2, <2>3, <2>5
      DEF SpentBy, SpendingInv, SettlementSpendsWarrant, OneStandaloneRequestPerWarrant
  <2>6. CASE e \notin linked
    <3>1. warrant' = [warrant EXCEPT ![sentUnder[e]] = MarkedExecuted(@)]
      BY <2>1, <2>6 DEF SpentBy
    <3>2. \A w \in SenderWarrants :
            /\ warrant[w].execution = "executed" => warrant'[w].execution = "executed"
            /\ w = sentUnder[e] => warrant'[w].execution = "executed"
      BY <1>1, <1>4, <3>1
    <3>3. warrant[sentUnder[e]].execution = "ready"
      BY <2>1, <2>6 DEF SpendingInv
    <3>4. \A f \in acknowledged \ linked : sentUnder[f] # sentUnder[e]
      BY <3>3 DEF SpendingInv
    <3>. QED BY <1>1, <2>1, <2>2, <2>3, <2>4, <3>2, <3>4
           DEF SpendingInv, SettlementSpendsWarrant, OneStandaloneRequestPerWarrant
  <2>. QED BY <2>5, <2>6
<1>10. ASSUME NEW e \in Envelopes, ServesSettlement(e)
       PROVE  SpendingInv'
  <2>1. call["source"] = None /\ call' = call
    BY <1>10 DEF ServesSettlement, Serve, Idle, Receiver, SettlementNotice
  <2>2. \A f \in Envelopes : call'["source"] # Request(f)
    BY <1>5, <2>1
  <2>3. UNCHANGED <<sentUnder, linked, acknowledged>>
    BY <1>10 DEF ServesSettlement
  <2>4. \A w \in SenderWarrants :
          warrant[w].execution = "executed" => warrant'[w].execution = "executed"
    BY <1>1, <1>4, <1>10 DEF ServesSettlement, KeepsWarrants, Finalised
  <2>5. ASSUME NEW f \in acknowledged, inbox'[f] = "processed"
        PROVE  warrant'[sentUnder[f]].execution = "executed"
    <3>1. CASE inbox[f] = "processed"
      BY <1>3, <2>4, <2>5, <3>1 DEF SpendingInv, SettlementSpendsWarrant
    <3>2. CASE inbox[f] # "processed"
      <4>1. f = e /\ warrant' = Finalised(e)
        BY <1>1, <1>10, <2>5, <3>2 DEF ServesSettlement, KeptInInbox
      <4>. QED BY <1>1, <1>3, <1>4, <2>5, <4>1 DEF Finalised
    <3>. QED BY <3>1, <3>2
  <2>. QED BY <1>3, <2>2, <2>3, <2>4, <2>5
         DEF SpendingInv, SettlementSpendsWarrant, OneStandaloneRequestPerWarrant
<1>. QED BY <1>2, <1>6, <1>7, <1>8, <1>9, <1>10 DEF SourceMove

LEMMA ReportsNext ==
  ASSUME TypeOK, StoresInv, CallsInv, NoticesInv, RequestsInv, ReportsInv, [Next]_vars
  PROVE  ReportsInv'
<1>1. /\ inbox \in [Envelopes -> {"none", "received", "processed"}]
      /\ call \in [Hosts -> Messages \union {None}]
      /\ reply \in [Hosts -> {"none", "ok", "refused"}]
      /\ "source" \in Hosts /\ "receiver" \in Hosts
  BY DEF TypeOK, Hosts
<1>2. \A e \in Envelopes : SettlementNotice(e) \in Messages /\ SettlementNotice(e) # None
  BY NoneAssumption DEF Messages
<1>3. \A e, f \in Envelopes : SettlementNotice(e) = SettlementNotice(f) => e = f
  BY DEF SettlementNotice
<1>4. \A e \in Envelopes : inbox[e] # "none" => inbox'[e] # "none"
  <2>1. ASSUME NEW f \in Envelopes, ServesSettlement(f)
        PROVE  \A e \in Envelopes : inbox[e] # "none" => inbox'[e] # "none"
    BY <1>1, <2>1 DEF ServesSettlement, KeptInInbox
  <2>2. SourceMove
    BY SourceMoves DEF RequestsInv
  <2>. QED BY <2>1, <2>2 DEF SourceMove, SendRequest, CompleteSend
<1>5. CASE \E e \in Envelopes : CompleteSettlementNotice(e)
  <2>1. PICK e \in Envelopes : CompleteSettlementNotice(e)
    BY <1>5
  <2>2. /\ call["receiver"] = SettlementNotice(e) /\ reply["receiver"] = "ok"
        /\ call'["receiver"] = None
        /\ noticed' = noticed \union {e}
    BY <1>1, <2>1 DEF CompleteSettlementNotice, Return, AnsweredOk
  <2>3. noticed = {} /\ inbox[e] # "none"
    BY <2>2 DEF ReportsInv
  <2>. QED BY <1>2, <1>4, <2>2, <2>3 DEF ReportsInv, OneAcknowledgedNotice, NoticedMeansReceived
<1>6. CASE noticed' = noticed
  <2>1. OneAcknowledgedNotice' /\ NoticedMeansReceived'
    <3>1. noticed \subseteq Envelopes
      BY DEF TypeOK
    <3>. QED BY <1>4, <1>6, <3>1 DEF ReportsInv, OneAcknowledgedNotice, NoticedMeansReceived
  <2>2. ASSUME NEW e \in Envelopes, call'["receiver"] = SettlementNotice(e)
        PROVE  noticed = {} /\ (reply'["receiver"] = "ok" => inbox'[e] # "none")
    <3>1. CASE UNCHANGED wireVars
      BY <1>4, <2>2, <3>1 DEF wireVars, ReportsInv
    <3>2. ASSUME NEW m \in Messages, NEW answer \in {"ok", "refused"}, Serve(m, answer),
                 answer = "refused" \/ m # SettlementNotice(e)
          PROVE  noticed = {} /\ (reply'["receiver"] = "ok" => inbox'[e] # "none")
      <4>1. call["receiver"] = SettlementNotice(e)
        BY <2>2, <3>2 DEF Serve
      <4>2. reply'["receiver"] = "ok" => reply["receiver"] = "ok"
        BY <1>1, <3>2, <4>1 DEF Serve
      <4>. QED BY <1>4, <4>1, <4>2 DEF ReportsInv
    <3>3. ASSUME NEW f \in Envelopes, ServeSettlementNotice(f)
          PROVE  noticed = {} /\ (reply'["receiver"] = "ok" => inbox'[e] # "none")
      <4>1. CASE f = e
        <5>1. inbox'[e] # "none"
          BY <1>1, <3>3, <4>1
            DEF ServeSettlementNotice, BlockSettlementNotice, RejectSettlementNotice,
                ApplySettlementNotice, KeptInInbox
        <5>2. call["receiver"] = SettlementNotice(e)
          BY <2>2, <3>3 DEF ServeSettlementNotice, Serve
        <5>. QED BY <5>1, <5>2 DEF ReportsInv
      <4>2. CASE f # e
        <5>1. Serve(SettlementNotice(f), "ok") /\ SettlementNotice(f) # SettlementNotice(e)
          BY <1>3, <3>3, <4>2 DEF ServeSettlementNotice
        <5>. QED BY <1>2, <3>2, <5>1
      <4>. QED BY <4>1, <4>2
    <3>4. ASSUME NEW h \in Hosts, Return(h) \/ Abandon(h)
          PROVE  noticed = {} /\ (reply'["receiver"] = "ok" => inbox'[e] # "none")
      <4>1. call["receiver"] = SettlementNotice(e) /\ reply'["receiver"] = reply["receiver"]
        BY <1>1, <1>2, <2>2, <3>4 DEF Return, Abandon
      <4>. QED BY <1>4, <4>1 DEF ReportsInv
    <3>5. ASSUME NEW f \in Envelopes, NEW d \in Decisions, Start("receiver", CourtNotice(f, d))
          PROVE  FALSE
      BY <1>1, <2>2, <3>5 DEF Start, CourtNotice, SettlementNotice
    <3>6. ASSUME NEW f \in Envelopes, NEW w \in SenderWarrants, NEW isLinked \in BOOLEAN,
                 SendRequest(f, w, isLinked)
          PROVE  noticed = {} /\ (reply'["receiver"] = "ok" => inbox'[e] # "none")
      <4>1. call'["receiver"] = call["receiver"] /\ reply' = reply
        BY <1>1, <3>6 DEF SendRequest, Start
      <4>. QED BY <1>4, <2>2, <4>1 DEF ReportsInv
    <3>7. ASSUME NEW f \in Envelopes, ExecuteJob(f), HasSettlementToReport(f),
                 Start("receiver", SettlementNotice(f))
          PROVE  noticed = {} /\ (reply'["receiver"] = "ok" => inbox'[e] # "none")
      <4>1. noticed = {}
        BY <3>7 DEF HasSettlementToReport
      <4>2. reply'["receiver"] = "none"
        BY <1>1, <3>7 DEF ExecuteJob, Idle, Start, CallsInv
      <4>. QED BY <4>1, <4>2
    <3>8. ASSUME NEW m \in Messages, Serve(m, "refused")
          PROVE  noticed = {} /\ (reply'["receiver"] = "ok" => inbox'[e] # "none")
      BY <3>2, <3>8
    <3>9. ASSUME NEW f \in Envelopes, Serve(Request(f), "ok")
          PROVE  noticed = {} /\ (reply'["receiver"] = "ok" => inbox'[e] # "none")
      <4>1. Request(f) \in Messages /\ Request(f) # SettlementNotice(e)
        BY DEF Messages, Request, SettlementNotice
      <4>. QED BY <3>2, <3>9, <4>1
    <3>10. ASSUME NEW f \in Envelopes, NEW d \in Decisions, Serve(CourtNotice(f, d), "ok")
           PROVE  noticed = {} /\ (reply'["receiver"] = "ok" => inbox'[e] # "none")
      <4>1. CourtNotice(f, d) \in Messages /\ CourtNotice(f, d) # SettlementNotice(e)
        BY DEF Messages, CourtNotice, SettlementNotice
      <4>. QED BY <3>2, <3>10, <4>1
    <3>. QED BY WireMoves, <3>1, <3>3, <3>4, <3>5, <3>6, <3>7, <3>8, <3>9, <3>10 DEF WireMove
  <2>. QED BY <1>6, <2>1, <2>2 DEF ReportsInv
<1>. QED BY <1>5, <1>6, ReceiverRecords

LEMMA IInvNext ==
  ASSUME TypeOK, IInv, [Next]_vars
  PROVE  IInv'
BY StoresNext, CallsNext, RequestsNext, NoticesNext, ReportsNext, SpendingNext DEF IInv

(* The inductive invariant: the two stores of the receiver, the calls in   *)
(* flight, the source's records of its requests, its warrants, and the     *)
(* settlement notices between the hosts (_deliver_federation_envelope and  *)
(* _process_received_federation_message keep them related).                *)
THEOREM InvariantHolds == Spec => [](TypeOK /\ IInv)
<1>1. TypeOK /\ IInv /\ [Next]_vars => IInv'
  BY IInvNext
<1>. QED BY IInvInit, TypeCorrect, <1>1, PTL DEF Spec

-----------------------------------------------------------------------------
(***************************************************************************)
(* What follows from the invariant.                                        *)
(***************************************************************************)

(* A settlement the source has applied was earned: its request cites the   *)
(* commitment, and the receiver has executed it and its payout             *)
(* (_process_received_federation_message, settlement_notice branch).       *)
THEOREM SettlementIsEarned == Spec => []SettledMeansExecuted
<1>1. IInv => SettledMeansExecuted
  BY DEF IInv, NoticesInv, SettledMeansExecuted
<1>. QED BY <1>1, InvariantHolds, PTL

(* A settlement the source has applied has spent the warrant of its        *)
(* request (_finalize_sender_warrant_for_settlement_notice).               *)
THEOREM SettlementIsFinal == Spec => []SettlementSpendsWarrant
<1>1. IInv => SettlementSpendsWarrant
  BY DEF IInv, SpendingInv
<1>. QED BY <1>1, InvariantHolds, PTL

(* No warrant pays for two acknowledged standalone requests                *)
(* (_deliver_federation_envelope, mark_warrant_executed).                  *)
THEOREM WarrantsAreSingleUse == Spec => []OneStandaloneRequestPerWarrant
<1>1. IInv => OneStandaloneRequestPerWarrant
  BY DEF IInv, SpendingInv
<1>. QED BY <1>1, InvariantHolds, PTL

(* The receiver holds at most one acknowledged settlement notice, and the  *)
(* source has it (_existing_federated_execution_settlement_notice).        *)
THEOREM ReportsAreFaithful == Spec => []ReportsAreTrue
<1>1. IInv => ReportsAreTrue
  BY DEF IInv, ReportsInv, ReportsAreTrue
<1>. QED BY <1>1, InvariantHolds, PTL

-----------------------------------------------------------------------------
(***************************************************************************)
(* The federated execution implements its contract.                        *)
(***************************************************************************)
Requested == {e \in Envelopes : job[e] # "none"}
Executed == {e \in Envelopes : localWarrant[e].execution = "executed"}
Settled == {e \in Envelopes : inbox[e] = "processed"}

LEMMA ContractInitial == Init => C!ContractInit
BY UnissuedWarrant DEF Init, C!ContractInit, Authorized, ValidForExecution, Permitted, Unissued

(* A step that leaves the two stores alone settles at most one request.    *)
LEMMA SettlementSteps ==
  ASSUME TypeOK, IInv, [Next]_vars, UNCHANGED stores
  PROVE  [C!ContractNext]_C!contractVars
<1>1. inbox \in [Envelopes -> {"none", "received", "processed"}]
  BY DEF TypeOK
<1>2. Requested' = Requested /\ Executed' = Executed /\ Authorized' = Authorized
  BY DEF Requested, Executed, Authorized, stores
<1>3. SourceMove
  BY SourceMoves DEF IInv, RequestsInv
<1>4. CASE inbox' = inbox
  BY <1>2, <1>4 DEF Requested, Executed, C!contractVars
<1>5. ASSUME NEW e \in Envelopes, ServesSettlement(e)
      PROVE  [C!ContractNext]_C!contractVars
  <2>1. InFlight(SettlementNotice(e))
    BY <1>5 DEF ServesSettlement, Serve, InFlight, Sender, SettlementNotice, Hosts
  <2>2. e \in Executed
    BY <2>1 DEF IInv, NoticesInv, Executed
  <2>3. Settled' = Settled \/ Settled' = Settled \union {e}
    BY <1>1, <1>5 DEF ServesSettlement, KeptInInbox, Settled
  <2>4. CASE Settled' = Settled
    BY <1>2, <2>4 DEF Requested, Executed, Settled, C!contractVars
  <2>5. CASE Settled' = Settled \union {e}
    <3>1. C!Settle(e)
      BY <1>2, <2>2, <2>5 DEF Requested, Executed, Settled, C!Settle
    <3>. QED BY <3>1 DEF C!ContractNext
  <2>. QED BY <2>3, <2>4, <2>5
<1>. QED BY <1>3, <1>4, <1>5 DEF SourceMove, SendRequest, CompleteSend

(* A step that withdraws at most one authorization, and changes nothing    *)
(* else the contract sees.                                                 *)
LEMMA WithdrawalSteps ==
  ASSUME NEW e \in Envelopes,
         Requested' = Requested, Executed' = Executed, Settled' = Settled,
         Authorized' = Authorized \/ Authorized' = Authorized \ {e}
  PROVE  [C!ContractNext]_C!contractVars
<1>1. CASE Authorized' = Authorized
  BY <1>1 DEF Requested, Executed, Settled, C!contractVars
<1>2. CASE Authorized' = Authorized \ {e}
  <2>1. C!Withdraw(e)
    BY <1>2 DEF Requested, Executed, Settled, C!Withdraw
  <2>. QED BY <2>1 DEF C!ContractNext
<1>. QED BY <1>1, <1>2

(* What a hold on the stores ws and js does to the contract's view.        *)
LEMMA HoldView ==
  ASSUME NEW c \in Cases,
         NEW ws \in [Envelopes -> Warrant],
         NEW js \in [Envelopes -> JobStates],
         NEW cut,
         StoresOK(ws, js, cut),
         HoldAtReceiver(c, ws, js, cut)
  PROVE  /\ \A e \in Envelopes :
              /\ job'[e] # "none" <=> js[e] # "none"
              /\ localWarrant'[e].execution = ws[e].execution
              /\ e # c.warrant => localWarrant'[e] = ws[e]
              /\ \/ localWarrant'[e] = ws[e]
                 \/ ~ValidForExecution(localWarrant'[e])
<1>. SUFFICES ASSUME NEW e \in Envelopes
              PROVE  /\ job'[e] # "none" <=> js[e] # "none"
                     /\ localWarrant'[e].execution = ws[e].execution
                     /\ e # c.warrant => localWarrant'[e] = ws[e]
                     /\ \/ localWarrant'[e] = ws[e]
                        \/ ~ValidForExecution(localWarrant'[e])
  OBVIOUS
<1>1. EntryOK(ws[e], js[e], e \in cut)
  BY DEF StoresOK
<1>2. CASE c.warrant = e /\ Stayable(ws[e])
  <2>1. localWarrant'[e] = Reviewed(ws[e], "stay") /\ job'[e] = "blocked"
    BY <1>2 DEF HoldAtReceiver
  <2>2. Exists(ws[e])
    BY <1>2 DEF Stayable
  <2>3. /\ Reviewed(ws[e], "stay").execution = ws[e].execution
        /\ ~ValidForExecution(Reviewed(ws[e], "stay"))
    BY DEF Reviewed, ReviewedAs, ValidForExecution, Permitted, Warrant
  <2>. QED BY <1>1, <1>2, <2>1, <2>2, <2>3 DEF EntryOK
<1>3. CASE ~(c.warrant = e /\ Stayable(ws[e]))
  BY <1>3 DEF HoldAtReceiver
<1>. QED BY <1>2, <1>3

(* A hold the receiver applies outside an execution withdraws at most the  *)
(* authorization of the case's warrant.                                    *)
LEMMA HoldSteps ==
  ASSUME NEW c \in Cases,
         Requested' = Requested, Executed' = Executed, Settled' = Settled,
         \A e \in Envelopes :
           /\ e # c.warrant =>
                (ValidForExecution(localWarrant'[e]) <=> ValidForExecution(localWarrant[e]))
           /\ ValidForExecution(localWarrant'[e]) => ValidForExecution(localWarrant[e])
  PROVE  [C!ContractNext]_C!contractVars
<1>1. CASE c.warrant \in Envelopes
  <2>1. Authorized' = Authorized \/ Authorized' = Authorized \ {c.warrant}
    BY DEF Authorized
  <2>. QED BY <1>1, <2>1, WithdrawalSteps
<1>2. CASE c.warrant \notin Envelopes
  <2>1. Authorized' = Authorized
    BY <1>2 DEF Authorized
  <2>. QED BY <2>1 DEF Requested, Executed, Settled, C!contractVars
<1>. QED BY <1>1, <1>2

(* A step that rewrites one local warrant and keeps its execution state    *)
(* gives or withdraws one authorization.                                   *)
LEMMA ReviewSteps ==
  ASSUME NEW e \in Requested,
         Requested' = Requested, Settled' = Settled,
         \A f \in Envelopes \ {e} : localWarrant'[f] = localWarrant[f],
         localWarrant'[e].execution = localWarrant[e].execution
  PROVE  [C!ContractNext]_C!contractVars
<1>1. e \in Envelopes
  BY DEF Requested
<1>2. Executed' = Executed
  BY DEF Executed
<1>3. CASE ValidForExecution(localWarrant'[e])
  <2>1. e \notin Executed
    BY <1>3 DEF ValidForExecution, Executed
  <2>2. Authorized' = Authorized \union {e}
    BY <1>1, <1>3 DEF Authorized
  <2>3. C!Authorize(e)
    BY <1>2, <2>1, <2>2 DEF Requested, Executed, Settled, C!Authorize
  <2>. QED BY <1>1, <2>3 DEF C!ContractNext
<1>4. CASE ~ValidForExecution(localWarrant'[e])
  <2>1. Authorized' = Authorized \ {e}
    BY <1>1, <1>4 DEF Authorized
  <2>. QED BY <1>1, <1>2, <2>1, WithdrawalSteps
<1>. QED BY <1>3, <1>4

(* Taking a request in.                                                    *)
LEMMA RequestSteps ==
  ASSUME TypeOK, StoresInv, NEW e \in Envelopes, ServeRequest(e)
  PROVE  [C!ContractNext]_C!contractVars
<1>1. localWarrant \in [Envelopes -> Warrant] /\ job \in [Envelopes -> JobStates]
  BY DEF TypeOK
<1>2. job[e] = "none" /\ inbox' = inbox
  BY DEF ServeRequest, sourceVars
<1>3. localWarrant[e] = Unissued
  BY <1>2 DEF StoresInv, StoresOK, EntryOK
<1>4. /\ job'[e] # "none"
      /\ \A f \in Envelopes \ {e} : job'[f] = job[f] /\ localWarrant'[f] = localWarrant[f]
      /\ localWarrant'[e] \in {Unissued, Issued(FALSE)}
  BY <1>1, <1>3 DEF ServeRequest, QueueUnlessBlocked
<1>5. \A w \in {Unissued, Issued(FALSE)} : ~ValidForExecution(w) /\ w.execution = "ready"
  BY DEF Unissued, Issued, ValidForExecution, Permitted
<1>6. Requested' = Requested \union {e} /\ e \notin Requested
  BY <1>2, <1>4 DEF Requested
<1>7. Executed' = Executed
  BY <1>3, <1>4, <1>5 DEF Executed
<1>8. Authorized' = Authorized
  BY <1>3, <1>4, <1>5 DEF Authorized
<1>9. Settled' = Settled
  BY <1>2 DEF Settled
<1>10. C!Request(e)
  BY <1>6, <1>7, <1>8, <1>9 DEF Requested, Executed, Settled, C!Request
<1>. QED BY <1>10 DEF C!ContractNext

(* Executing a job, with or without a hold found while reporting it.       *)
LEMMA ExecutionSteps ==
  ASSUME TypeOK, StoresInv, NEW e \in Envelopes, ExecuteJob(e)
  PROVE  [C!ContractNext]_C!contractVars
<1>. DEFINE ws == [localWarrant EXCEPT ![e] = MarkedExecuted(@)]
            js == [job EXCEPT ![e] = "executed"]
            cut == torn \ {e}
            c == case["receiver"]
<1>1. localWarrant \in [Envelopes -> Warrant] /\ job \in [Envelopes -> JobStates] /\ c \in Cases
  BY DEF TypeOK, Hosts
<1>2. /\ Exists(localWarrant[e])
      /\ \/ job[e] = "ready" /\ ValidForExecution(localWarrant[e])
         \/ job[e] = "executed"
      /\ inbox' = inbox
  BY DEF ExecuteJob, Executable, sourceVars
<1>3. ws \in [Envelopes -> Warrant] /\ js \in [Envelopes -> JobStates] /\ StoresOK(ws, js, cut)
  BY <1>1, <1>2, MarkedWarrant, ExecutionKeepsStores DEF JobStates
<1>4. \A f \in Envelopes :
        /\ js[f] # "none" <=> job[f] # "none"
        /\ f # e => ws[f] = localWarrant[f]
        /\ f = e => ws[f].execution = "executed"
  BY <1>1, <1>2, MarkedWarrant
<1>5. HoldAtReceiver(c, ws, js, cut) \/ (localWarrant' = ws /\ job' = js)
  BY DEF ExecuteJob
<1>. HIDE DEF ws, js, cut, c
<1>6. \A f \in Envelopes :
        /\ job'[f] # "none" <=> js[f] # "none"
        /\ localWarrant'[f].execution = ws[f].execution
        /\ f # c.warrant => localWarrant'[f] = ws[f]
        /\ localWarrant'[f] = ws[f] \/ ~ValidForExecution(localWarrant'[f])
  <2>1. CASE HoldAtReceiver(c, ws, js, cut)
    BY <1>1, <1>3, <2>1, HoldView
  <2>2. CASE localWarrant' = ws /\ job' = js
    BY <2>2
  <2>. QED BY <1>5, <2>1, <2>2
<1>7. Requested' = Requested /\ Settled' = Settled
  BY <1>2, <1>4, <1>6 DEF Requested, Settled
<1>8. Executed' = Executed \union {e}
  BY <1>4, <1>6 DEF Executed
<1>9. ~ValidForExecution(localWarrant'[e])
  BY <1>4, <1>6 DEF ValidForExecution
<1>10. CASE ValidForExecution(localWarrant[e])
  <2>1. e \in Authorized \ Executed
    BY <1>10 DEF Authorized, Executed, ValidForExecution
  <2>2. Authorized' \subseteq Authorized \ {e}
    BY <1>4, <1>6, <1>9 DEF Authorized
  <2>3. C!Execute(e)
    BY <1>7, <1>8, <2>1, <2>2 DEF Requested, Executed, Settled, C!Execute
  <2>. QED BY <2>3 DEF C!ContractNext
<1>11. CASE job[e] = "executed"
  <2>1. localWarrant[e].execution = "executed"
    BY <1>11 DEF StoresInv, StoresOK, EntryOK
  <2>2. Executed' = Executed /\ ~ValidForExecution(localWarrant[e])
    BY <1>8, <2>1 DEF Executed, ValidForExecution
  <2>3. \A f \in Envelopes :
          /\ f # c.warrant =>
               (ValidForExecution(localWarrant'[f]) <=> ValidForExecution(localWarrant[f]))
          /\ ValidForExecution(localWarrant'[f]) => ValidForExecution(localWarrant[f])
    BY <1>4, <1>6, <1>9, <2>2
  <2>. QED BY <1>1, <1>7, <2>2, <2>3, HoldSteps
<1>. QED BY <1>2, <1>10, <1>11

LEMMA ContractSteps ==
  ASSUME TypeOK, IInv, [Next]_vars
  PROVE  [C!ContractNext]_C!contractVars
<1>1. /\ localWarrant \in [Envelopes -> Warrant]
      /\ job \in [Envelopes -> JobStates]
      /\ StoresInv
  BY DEF TypeOK, IInv
<1>2. \A e \in Envelopes : EntryOK(localWarrant[e], job[e], e \in torn)
  BY <1>1 DEF StoresInv, StoresOK
<1>3. ASSUME NEW c \in Cases, HoldAtReceiver(c, localWarrant, job, torn), UNCHANGED sourceVars
      PROVE  [C!ContractNext]_C!contractVars
  <2>1. \A e \in Envelopes :
          /\ job'[e] # "none" <=> job[e] # "none"
          /\ localWarrant'[e].execution = localWarrant[e].execution
          /\ e # c.warrant => localWarrant'[e] = localWarrant[e]
          /\ localWarrant'[e] = localWarrant[e] \/ ~ValidForExecution(localWarrant'[e])
    BY <1>1, <1>3, HoldView DEF StoresInv
  <2>2. Requested' = Requested /\ Executed' = Executed /\ Settled' = Settled
    BY <1>3, <2>1 DEF Requested, Executed, Settled, sourceVars
  <2>. QED BY <2>1, <2>2, HoldSteps
<1>4. ASSUME NEW e \in Envelopes, NEW d \in Decisions,
             ReviewLocalWarrant(e, d) \/ ReviewLocalWarrantInterrupted(e, d)
      PROVE  [C!ContractNext]_C!contractVars
  <2>1. /\ Exists(localWarrant[e])
        /\ localWarrant'[e] = Reviewed(localWarrant[e], d)
        /\ \A f \in Envelopes \ {e} : localWarrant'[f] = localWarrant[f] /\ job'[f] = job[f]
        /\ job'[e] = job[e] \/ job'[e] = JobStateFor(Reviewed(localWarrant[e], d))
        /\ inbox' = inbox
    BY <1>1, <1>4
      DEF ReviewLocalWarrant, ReviewLocalWarrantInterrupted, SyncedJob, sourceVars
  <2>2. /\ Reviewed(localWarrant[e], d) \in Warrant
        /\ localWarrant'[e].execution = localWarrant[e].execution
    BY <1>1, <2>1, ReviewedWarrant
  <2>3. job[e] # "none" /\ job'[e] # "none"
    BY <1>2, <2>1, <2>2, JobStateOfWarrant DEF EntryOK
  <2>4. e \in Requested /\ Requested' = Requested /\ Settled' = Settled
    BY <2>1, <2>3 DEF Requested, Settled
  <2>. QED BY <2>1, <2>2, <2>4, ReviewSteps
<1>5. ASSUME NEW e \in Envelopes, ExpireLocalWarrant(e)
      PROVE  [C!ContractNext]_C!contractVars
  <2>1. /\ Exists(localWarrant[e])
        /\ localWarrant'[e].execution = localWarrant[e].execution
        /\ \A f \in Envelopes \ {e} : localWarrant'[f] = localWarrant[f]
        /\ job' = job /\ inbox' = inbox
    BY <1>1, <1>5 DEF ExpireLocalWarrant, Warrant, sourceVars
  <2>2. e \in Requested /\ Requested' = Requested /\ Settled' = Settled
    BY <1>2, <2>1 DEF EntryOK, Requested, Settled
  <2>. QED BY <2>1, <2>2, ReviewSteps
<1>6. ASSUME NEW e \in Envelopes, ExecuteJobInterrupted(e)
      PROVE  [C!ContractNext]_C!contractVars
  <2>1. /\ ValidForExecution(localWarrant[e])
        /\ localWarrant'[e] = MarkedExecuted(localWarrant[e])
        /\ \A f \in Envelopes \ {e} : localWarrant'[f] = localWarrant[f]
        /\ job' = job /\ inbox' = inbox
    BY <1>1, <1>6 DEF ExecuteJobInterrupted, Executable, sourceVars
  <2>2. localWarrant'[e].execution = "executed" /\ localWarrant[e].execution = "ready"
    BY <1>1, <2>1, MarkedWarrant DEF ValidForExecution
  <2>3. Requested' = Requested /\ Settled' = Settled
    BY <2>1 DEF Requested, Settled
  <2>4. Executed' = Executed \union {e} /\ e \in Authorized \ Executed
    BY <2>1, <2>2 DEF Executed, Authorized
  <2>5. Authorized' = Authorized \ {e}
    BY <2>1, <2>2 DEF Authorized, ValidForExecution
  <2>6. C!Execute(e)
    BY <2>3, <2>4, <2>5 DEF Requested, Executed, Settled, C!Execute
  <2>. QED BY <2>6 DEF C!ContractNext
<1>7. CASE UNCHANGED stores
  BY <1>7, SettlementSteps
<1>. QED BY StoreSteps, <1>1, <1>3, <1>4, <1>5, <1>6, <1>7, RequestSteps, ExecutionSteps DEF StoreStep

(* The two hosts together keep the contract: a request is taken in once    *)
(* and executed at most once, only while its local warrant authorizes it,  *)
(* and settled only after (_queue_received_execution_request through       *)
(* _complete_federated_execution_job to the settlement_notice branch).     *)
THEOREM Implementation == Spec => ImplementsContract
<1>1. TypeOK /\ IInv /\ [Next]_vars => [C!ContractNext]_C!contractVars
  BY ContractSteps
<1>. QED BY <1>1, ContractInitial, InvariantHolds, PTL DEF Spec, ImplementsContract, C!Contract
=============================================================================
