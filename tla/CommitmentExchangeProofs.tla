---------------------- MODULE CommitmentExchangeProofs ----------------------
(***************************************************************************)
(* Proofs about CommitmentExchange: what one host may believe about the    *)
(* other, and what a breach and a spent warrant hold up.  The argument has *)
(* two halves.  The copies of a commitment only gain: a record stays, and  *)
(* what the target's operator once marked stays marked, so a message that  *)
(* reports it is true whenever it is served.  And a host that waits for an *)
(* answer does nothing else, so the warrant it sent under is still ready   *)
(* when the answer spends it.                                              *)
(***************************************************************************)
EXTENDS CommitmentExchange, SequenceTheorems, TLAPS

TargetKnowsSource ==
  \A c \in Commitments : copies["target"][c] # NoCopy => copies["source"][c] # NoCopy

(* The state of the target's copy is its operator's doing.                 *)
TargetDecides ==
  \A c \in Commitments :
    copies["target"][c] # NoCopy =>
      /\ copies["target"][c].state = "accepted" => copies["target"][c].accepted = "operator"
      /\ copies["target"][c].state = "breached" => copies["target"][c].breached = "operator"

CopiesAgree == TargetKnowsSource /\ TargetDecides /\ PeerMarksAreReal

(* A message is about a commitment its sender has, and says what is so.    *)
MessagesAreTrue ==
  \A i \in DOMAIN messages :
    LET m == messages[i]
    IN  /\ copies[Sender(m.kind)][m.commitment] # NoCopy
        /\ m.kind = "acceptance" => copies["target"][m.commitment].accepted = "operator"
        /\ m.kind = "breach" => copies["target"][m.commitment].breached = "operator"
        /\ m.warrant \in RightPermits(m.kind)

(* A host waits for an answer to a message of its own that has none, and   *)
(* whose warrant is ready.                                                 *)
CallsAreOwn ==
  \A h \in Parties :
    ~Idle(h) =>
      /\ calls[h] \in DOMAIN messages
      /\ Sender(messages[calls[h]].kind) = h
      /\ ~Acknowledged(calls[h])
      /\ messages[calls[h]].kind # "execution" =>
           permits[messages[calls[h]].warrant].execution = "ready"

AcknowledgedIsSpent ==
  \A i \in DOMAIN messages :
    Acknowledged(i) /\ messages[i].kind # "execution" =>
      permits[messages[i].warrant].execution = "executed"

BreachesHaveCases ==
  \A i \in DOMAIN messages :
    messages[i].kind = "breach" /\ messages[i].status \in {"processed", "acknowledged"} =>
      breachCase["source"][messages[i].commitment] # "none"

ExchangeInv ==
  /\ CommitmentTypeOK
  /\ CopiesAgree
  /\ MessagesAreTrue /\ CallsAreOwn /\ AcknowledgedIsSpent /\ BreachesHaveCases
  /\ OneNoticePerWarrant

-----------------------------------------------------------------------------
(***************************************************************************)
(* What every step does to the copies, the cases and the warrants.         *)
(***************************************************************************)
CopiesMoved ==
  /\ copies' \in [Parties -> [Commitments -> Copy \union {NoCopy}]]
  /\ \A h \in Parties, c \in Commitments : copies[h][c] # NoCopy => copies'[h][c] # NoCopy
  /\ \A c \in Commitments :
       copies["target"][c] # NoCopy =>
         /\ copies["target"][c].accepted = "operator" => copies'["target"][c].accepted = "operator"
         /\ copies["target"][c].breached = "operator" => copies'["target"][c].breached = "operator"
  /\ CopiesAgree'

CasesMoved ==
  /\ breachCase' \in [Parties -> [Commitments -> {"none", "open", "resolved"}]]
  /\ \A c \in Commitments : breachCase["source"][c] # "none" => breachCase'["source"][c] # "none"

PermitsKept ==
  /\ permits' \in [Permits -> W!Warrant]
  /\ \A w \in Permits : permits'[w].execution = permits[w].execution

(* The invariant holds at the start.                                       *)
LEMMA ExchangeInitInv == CommitmentInit => ExchangeInv
<1> SUFFICES ASSUME CommitmentInit PROVE ExchangeInv
  OBVIOUS
<1>1. W!Reviewed(W!Issued(FALSE), "approve") \in W!Warrant
  BY DEF W!Reviewed, W!Issued, W!Unissued, W!Warrant, W!ReviewedAs, W!ReviewStates
<1>2. messages \in Seq(Message) /\ Len(messages) = 0 /\ DOMAIN messages = {}
  BY EmptySeq, LenProperties DEF CommitmentInit
<1>3. CommitmentTypeOK
  <2>1. /\ copies \in [Parties -> [Commitments -> Copy \union {NoCopy}]]
        /\ breachCase \in [Parties -> [Commitments -> {"none", "open", "resolved"}]]
    BY DEF CommitmentInit
  <2>2. permits \in [Permits -> W!Warrant]
    BY <1>1 DEF CommitmentInit
  <2>3. calls \in [Parties -> 0..MaxMessages] /\ Len(messages) <= MaxMessages
    BY <1>2, MessagesAreBounded DEF CommitmentInit
  <2> QED
    BY <1>2, <2>1, <2>2, <2>3 DEF CommitmentTypeOK
<1>4. CopiesAgree
  BY DEF CommitmentInit, CopiesAgree, TargetKnowsSource, TargetDecides, PeerMarksAreReal, Parties
<1>5. MessagesAreTrue /\ AcknowledgedIsSpent /\ BreachesHaveCases /\ OneNoticePerWarrant
  BY <1>2 DEF MessagesAreTrue, AcknowledgedIsSpent, BreachesHaveCases, OneNoticePerWarrant
<1>6. CallsAreOwn
  BY DEF CommitmentInit, CallsAreOwn, Idle
<1> QED
  BY <1>3, <1>4, <1>5, <1>6 DEF ExchangeInv

(* A review of a warrant leaves its execution state.                       *)
LEMMA PermitReviewed ==
  ASSUME ExchangeInv, NEW w \in Permits, NEW d \in W!Decisions,
         permits' = [permits EXCEPT ![w] = W!Reviewed(@, d)]
  PROVE  PermitsKept
<1>1. permits \in [Permits -> W!Warrant] /\ permits[w] \in W!Warrant
  BY DEF ExchangeInv, CommitmentTypeOK
<1>2. W!Reviewed(permits[w], d) \in W!Warrant /\ W!Reviewed(permits[w], d).execution = permits[w].execution
  BY <1>1 DEF W!Reviewed, W!Warrant, W!ReviewedAs, W!ReviewStates, W!Decisions
<1> QED
  BY <1>1, <1>2 DEF PermitsKept

(* So does what a case holds.                                              *)
LEMMA HeldKeeps ==
  ASSUME ExchangeInv, NEW h \in Parties, NEW c \in Commitments, copies[h][c] # NoCopy,
         permits' = Held(h, c)
  PROVE  PermitsKept
<1> DEFINE w == copies[h][c].warrant
<1>1. w \in SourcePacts \union SourceRuns \union {NoWarrant}
  BY DEF ExchangeInv, CommitmentTypeOK, Copy
<1>2. CASE h = "source" /\ w # NoWarrant /\ W!Stayable(permits[w])
  <2>1. w \in Permits
    BY <1>1, <1>2 DEF Permits
  <2>2. "stay" \in W!Decisions
    BY DEF W!Decisions
  <2>3. permits' = [permits EXCEPT ![w] = W!Reviewed(@, "stay")]
    BY <1>2 DEF Held
  <2> HIDE DEF w
  <2> QED
    BY <2>1, <2>2, <2>3, PermitReviewed
<1>3. CASE ~(h = "source" /\ w # NoWarrant /\ W!Stayable(permits[w]))
  BY <1>3 DEF Held, ExchangeInv, CommitmentTypeOK, PermitsKept
<1> QED
  BY <1>2, <1>3

(* A step that touches no warrant.                                         *)
LEMMA PermitsSame == ExchangeInv /\ permits' = permits => PermitsKept
BY DEF ExchangeInv, CommitmentTypeOK, PermitsKept

(* A step that touches no copy.                                            *)
LEMMA CopiesSame == ExchangeInv /\ copies' = copies => CopiesMoved
BY DEF ExchangeInv, CommitmentTypeOK, CopiesMoved, CopiesAgree, TargetKnowsSource, TargetDecides,
       PeerMarksAreReal

(* A step that touches no case, and one that opens or resolves one.        *)
LEMMA CasesSame == ExchangeInv /\ breachCase' = breachCase => CasesMoved
BY DEF ExchangeInv, CommitmentTypeOK, CasesMoved

LEMMA CaseSet ==
  ASSUME ExchangeInv, NEW h \in Parties, NEW c \in Commitments, NEW state \in {"open", "resolved"},
         breachCase' = [breachCase EXCEPT ![h][c] = state]
  PROVE  CasesMoved /\ breachCase'[h][c] = state
BY DEF ExchangeInv, CommitmentTypeOK, CasesMoved, Parties

-----------------------------------------------------------------------------
(***************************************************************************)
(* What happens to the copy of one host.                                   *)
(***************************************************************************)
(* A decision keeps a copy a copy, and writes the mark of who took it.     *)
LEMMA DecidedCopy ==
  ASSUME NEW copy \in Copy, NEW d \in DOMAIN DecidedAs, NEW by \in Marks
  PROVE  /\ Decided(copy, d, by) \in Copy
         /\ Decided(copy, d, by).state = DecidedAs[d]
         /\ Decided(copy, d, by).accepted = IF d = "accept" THEN by ELSE copy.accepted
         /\ Decided(copy, d, by).breached = IF d = "breach" THEN by ELSE copy.breached
         /\ Decided(copy, d, by).state = "accepted" <=> d = "accept"
         /\ Decided(copy, d, by).state = "breached" <=> d = "breach"
<1> DEFINE new == Decided(copy, d, by)
<1>1. /\ DOMAIN DecidedAs = {"accept", "reject", "breach", "settle"}
      /\ DecidedAs["accept"] = "accepted" /\ DecidedAs["reject"] = "rejected"
      /\ DecidedAs["breach"] = "breached" /\ DecidedAs["settle"] = "settled"
  BY DEF DecidedAs
<1>2. DecidedAs[d] \in CommitmentStates
  BY <1>1 DEF CommitmentStates
<1>3. /\ new = [[[copy EXCEPT !.state = DecidedAs[d]]
                     EXCEPT !.accepted = IF d = "accept" THEN by ELSE copy.accepted]
                     EXCEPT !.breached = IF d = "breach" THEN by ELSE copy.breached]
      /\ copy.accepted \in Marks /\ copy.breached \in Marks
  BY DEF Decided, Copy
<1>4. /\ new \in Copy
      /\ new.state = DecidedAs[d]
      /\ new.accepted = IF d = "accept" THEN by ELSE copy.accepted
      /\ new.breached = IF d = "breach" THEN by ELSE copy.breached
  BY <1>2, <1>3 DEF Copy
<1>5. (DecidedAs[d] = "accepted" <=> d = "accept") /\ (DecidedAs[d] = "breached" <=> d = "breach")
  BY <1>1
<1> QED
  BY <1>4, <1>5

(* The target's operator decides.                                          *)
LEMMA TargetReviews ==
  ASSUME ExchangeInv, NEW c \in Commitments, NEW d \in DOMAIN DecidedAs, copies["target"][c] # NoCopy,
         copies' = [copies EXCEPT !["target"][c] = Decided(@, d, "operator")]
  PROVE  CopiesMoved
<1> DEFINE old == copies["target"][c]
           new == Decided(old, d, "operator")
<1>1. copies \in [Parties -> [Commitments -> Copy \union {NoCopy}]] /\ old \in Copy
  BY DEF ExchangeInv, CommitmentTypeOK, Parties
<1>2. "operator" \in Marks
  BY DEF Marks
<1>3. /\ new \in Copy
      /\ new.accepted = IF d = "accept" THEN "operator" ELSE old.accepted
      /\ new.breached = IF d = "breach" THEN "operator" ELSE old.breached
      /\ new.state = "accepted" <=> d = "accept"
      /\ new.state = "breached" <=> d = "breach"
  BY <1>1, <1>2, DecidedCopy
<1> HIDE DEF new
<1>4. /\ copies' \in [Parties -> [Commitments -> Copy \union {NoCopy}]]
      /\ copies'["target"][c] = new
      /\ copies'["source"] = copies["source"]
      /\ \A other \in Commitments \ {c} : copies'["target"][other] = copies["target"][other]
  BY <1>1, <1>3 DEF Parties, new
<1>5. new # NoCopy
  BY <1>3, NoCopyIsNone
<1>6. TargetKnowsSource' /\ TargetDecides'
  BY <1>3, <1>4, <1>5 DEF ExchangeInv, CopiesAgree, TargetKnowsSource, TargetDecides
<1>7. PeerMarksAreReal'
  BY <1>3, <1>4, <1>5 DEF ExchangeInv, CopiesAgree, PeerMarksAreReal
<1> QED
  BY <1>3, <1>4, <1>5, <1>6, <1>7 DEF CopiesMoved, CopiesAgree, Parties

(* The source's copy is decided, by its operator or by a message that says *)
(* what the target's operator marked.                                      *)
LEMMA SourceDecided ==
  ASSUME ExchangeInv, NEW c \in Commitments, NEW d \in DOMAIN DecidedAs, NEW by \in {"operator", "peer"},
         copies["source"][c] # NoCopy,
         by = "peer" => /\ copies["target"][c] # NoCopy
                        /\ d = "accept" => copies["target"][c].accepted = "operator"
                        /\ d = "breach" => copies["target"][c].breached = "operator",
         copies' = [copies EXCEPT !["source"][c] = Decided(@, d, by)]
  PROVE  CopiesMoved
<1> DEFINE old == copies["source"][c]
           new == Decided(old, d, by)
<1>1. copies \in [Parties -> [Commitments -> Copy \union {NoCopy}]] /\ old \in Copy
  BY DEF ExchangeInv, CommitmentTypeOK, Parties
<1>2. by \in Marks
  BY DEF Marks
<1>3. /\ new \in Copy
      /\ new.accepted = IF d = "accept" THEN by ELSE old.accepted
      /\ new.breached = IF d = "breach" THEN by ELSE old.breached
  BY <1>1, <1>2, DecidedCopy
<1> HIDE DEF new
<1>4. /\ copies' \in [Parties -> [Commitments -> Copy \union {NoCopy}]]
      /\ copies'["source"][c] = new
      /\ copies'["target"] = copies["target"]
      /\ \A other \in Commitments \ {c} : copies'["source"][other] = copies["source"][other]
  BY <1>1, <1>3 DEF Parties, new
<1>5. new # NoCopy
  BY <1>3, NoCopyIsNone
<1>6. TargetKnowsSource' /\ TargetDecides'
  BY <1>3, <1>4, <1>5 DEF ExchangeInv, CopiesAgree, TargetKnowsSource, TargetDecides
<1>7. PeerMarksAreReal'
  BY <1>3, <1>4, <1>5 DEF ExchangeInv, CopiesAgree, PeerMarksAreReal
<1> QED
  BY <1>4, <1>5, <1>6, <1>7 DEF CopiesMoved, CopiesAgree, Parties

(* A host gets a new record of the commitment.                             *)
LEMMA CopyMade ==
  ASSUME ExchangeInv, NEW h \in Parties, NEW c \in Commitments, NEW w \in SourcePacts \union SourceRuns \union {NoWarrant},
         copies[h][c] = NoCopy, h = "target" => copies["source"][c] # NoCopy,
         copies' = [copies EXCEPT ![h][c] = NewCopy(w)]
  PROVE  CopiesMoved
<1> DEFINE new == NewCopy(w)
<1>1. copies \in [Parties -> [Commitments -> Copy \union {NoCopy}]]
  BY DEF ExchangeInv, CommitmentTypeOK
<1>2. new \in Copy /\ new.accepted = "no" /\ new.breached = "no" /\ new.state = "proposed"
  BY DEF NewCopy, Copy, CommitmentStates, Marks
<1> HIDE DEF new
<1>3. /\ copies' \in [Parties -> [Commitments -> Copy \union {NoCopy}]]
      /\ copies'[h][c] = new
      /\ \A other \in Parties \ {h} : copies'[other] = copies[other]
      /\ \A other \in Commitments \ {c} : copies'[h][other] = copies[h][other]
  BY <1>1, <1>2 DEF new
<1>4. new # NoCopy
  BY <1>2, NoCopyIsNone
<1>5. \A k \in Parties, other \in Commitments : copies[k][other] # NoCopy => copies'[k][other] = copies[k][other]
  BY <1>3
<1>6. "source" \in Parties /\ "target" \in Parties /\ h \in {"source", "target"}
  BY DEF Parties
<1>7. TargetKnowsSource'
  BY <1>3, <1>4, <1>5, <1>6 DEF ExchangeInv, CopiesAgree, TargetKnowsSource
<1>8. TargetDecides'
  BY <1>2, <1>3, <1>4, <1>5, <1>6 DEF ExchangeInv, CopiesAgree, TargetDecides
<1>9. PeerMarksAreReal'
  BY <1>2, <1>3, <1>4, <1>5, <1>6 DEF ExchangeInv, CopiesAgree, PeerMarksAreReal
<1> QED
  BY <1>3, <1>5, <1>6, <1>7, <1>8, <1>9 DEF CopiesMoved, CopiesAgree

-----------------------------------------------------------------------------
(***************************************************************************)
(* What happens to the messages.                                           *)
(***************************************************************************)
(* The types of the parts a step touches.                                  *)
LEMMA MessageTypes ==
  ASSUME ExchangeInv
  PROVE  /\ messages \in Seq(Message) /\ Len(messages) \in Nat /\ DOMAIN messages = 1..Len(messages)
         /\ \A i \in DOMAIN messages :
              /\ messages[i] \in Message /\ messages[i].kind \in Kinds
              /\ messages[i].commitment \in Commitments /\ messages[i].warrant \in Permits
              /\ Sender(messages[i].kind) \in Parties /\ Receiver(messages[i].kind) \in Parties
<1>1. messages \in Seq(Message)
  BY DEF ExchangeInv, CommitmentTypeOK
<1>2. Len(messages) \in Nat /\ DOMAIN messages = 1..Len(messages)
  BY <1>1, LenProperties
<1>3. \A i \in DOMAIN messages : messages[i] \in Message
  BY <1>1, <1>2, LenProperties
<1>4. \A m \in Message : /\ m.kind \in Kinds /\ m.commitment \in Commitments /\ m.warrant \in Permits
                         /\ Sender(m.kind) \in Parties /\ Receiver(m.kind) \in Parties
  BY DEF Message, Sender, Receiver, Parties
<1> QED
  BY <1>1, <1>2, <1>3, <1>4

(* A step that sends nothing and serves nothing.                           *)
LEMMA MessagesSame ==
  ASSUME ExchangeInv, CopiesMoved, CasesMoved, PermitsKept, UNCHANGED <<messages, calls>>
  PROVE  ExchangeInv'
<1>1. CommitmentTypeOK' /\ CopiesAgree'
  BY DEF ExchangeInv, CommitmentTypeOK, CopiesMoved, CasesMoved, PermitsKept
<1>2. MessagesAreTrue'
  <2> SUFFICES ASSUME NEW i \in DOMAIN messages
               PROVE  /\ copies'[Sender(messages[i].kind)][messages[i].commitment] # NoCopy
                      /\ messages[i].kind = "acceptance" =>
                           copies'["target"][messages[i].commitment].accepted = "operator"
                      /\ messages[i].kind = "breach" =>
                           copies'["target"][messages[i].commitment].breached = "operator"
                      /\ messages[i].warrant \in RightPermits(messages[i].kind)
    BY DEF MessagesAreTrue
  <2>1. messages[i].commitment \in Commitments /\ Sender(messages[i].kind) \in Parties
    BY MessageTypes
  <2>2. messages[i].kind \in {"acceptance", "breach"} => Sender(messages[i].kind) = "target"
    BY DEF Sender
  <2> QED
    BY <2>1, <2>2 DEF ExchangeInv, MessagesAreTrue, CopiesMoved
<1>3. CallsAreOwn' /\ AcknowledgedIsSpent' /\ BreachesHaveCases' /\ OneNoticePerWarrant'
  BY MessageTypes
     DEF ExchangeInv, CallsAreOwn, Idle, Acknowledged, AcknowledgedIsSpent, BreachesHaveCases,
         OneNoticePerWarrant, PermitsKept, CasesMoved
<1> QED
  BY <1>1, <1>2, <1>3 DEF ExchangeInv

(* The status of one message changes, and nothing else of it.              *)
LEMMA StatusSet ==
  ASSUME ExchangeInv, NEW i \in DOMAIN messages,
         NEW status \in {"sent", "cut", "processed", "acknowledged"},
         messages' = [messages EXCEPT ![i].status = status]
  PROVE  /\ messages' \in Seq(Message) /\ Len(messages') = Len(messages)
         /\ DOMAIN messages' = DOMAIN messages
         /\ messages'[i].status = status
         /\ \A j \in DOMAIN messages :
              /\ messages'[j].kind = messages[j].kind
              /\ messages'[j].commitment = messages[j].commitment
              /\ messages'[j].warrant = messages[j].warrant
              /\ j # i => messages'[j].status = messages[j].status
<1> DEFINE new == [messages[i] EXCEPT !.status = status]
<1>1. messages \in Seq(Message) /\ i \in 1..Len(messages) /\ messages[i] \in Message
  BY MessageTypes
<1>2. /\ new \in Message /\ new.status = status
      /\ new.kind = messages[i].kind /\ new.commitment = messages[i].commitment
      /\ new.warrant = messages[i].warrant
  BY <1>1 DEF Message
<1>3. messages' = [messages EXCEPT ![i] = new]
  OBVIOUS
<1> HIDE DEF new
<1>4. /\ messages' \in Seq(Message) /\ Len(messages') = Len(messages)
      /\ \A j \in 1..Len(messages) : messages'[j] = IF j = i THEN new ELSE messages[j]
  BY <1>1, <1>2, <1>3, ExceptSeq
<1>5. DOMAIN messages' = 1..Len(messages') /\ DOMAIN messages = 1..Len(messages)
  BY <1>1, <1>4, LenProperties
<1> QED
  BY <1>1, <1>2, <1>4, <1>5

(* A message is served, in full or in part.                                *)
LEMMA MessageServed ==
  ASSUME ExchangeInv, CopiesMoved, CasesMoved, PermitsKept, calls' = calls,
         NEW i \in DOMAIN messages, NEW status \in {"cut", "processed"},
         Finish(i, status),
         messages[i].kind = "breach" /\ status = "processed" =>
           breachCase'["source"][messages[i].commitment] # "none"
  PROVE  ExchangeInv'
<1>1. /\ messages' \in Seq(Message) /\ Len(messages') = Len(messages)
      /\ DOMAIN messages' = DOMAIN messages
      /\ messages'[i].status = status
      /\ \A j \in DOMAIN messages :
           /\ messages'[j].kind = messages[j].kind
           /\ messages'[j].commitment = messages[j].commitment
           /\ messages'[j].warrant = messages[j].warrant
           /\ j # i => messages'[j].status = messages[j].status
  BY StatusSet DEF Finish
<1>2. CommitmentTypeOK' /\ CopiesAgree'
  BY <1>1 DEF ExchangeInv, CommitmentTypeOK, CopiesMoved, CasesMoved, PermitsKept
<1>3. MessagesAreTrue'
  <2> SUFFICES ASSUME NEW j \in DOMAIN messages
               PROVE  /\ copies'[Sender(messages[j].kind)][messages[j].commitment] # NoCopy
                      /\ messages[j].kind = "acceptance" =>
                           copies'["target"][messages[j].commitment].accepted = "operator"
                      /\ messages[j].kind = "breach" =>
                           copies'["target"][messages[j].commitment].breached = "operator"
                      /\ messages[j].warrant \in RightPermits(messages[j].kind)
    BY <1>1 DEF MessagesAreTrue
  <2>1. messages[j].commitment \in Commitments /\ Sender(messages[j].kind) \in Parties
    BY MessageTypes
  <2>2. messages[j].kind \in {"acceptance", "breach"} => Sender(messages[j].kind) = "target"
    BY DEF Sender
  <2> QED
    BY <2>1, <2>2 DEF ExchangeInv, MessagesAreTrue, CopiesMoved
<1>4. CallsAreOwn'
  BY <1>1, MessageTypes DEF ExchangeInv, CallsAreOwn, Idle, Acknowledged, PermitsKept
<1>5. AcknowledgedIsSpent' /\ OneNoticePerWarrant'
  BY <1>1, MessageTypes
     DEF ExchangeInv, Acknowledged, AcknowledgedIsSpent, OneNoticePerWarrant, PermitsKept
<1>6. BreachesHaveCases'
  BY <1>1, MessageTypes DEF ExchangeInv, BreachesHaveCases, CasesMoved
<1> QED
  BY <1>2, <1>3, <1>4, <1>5, <1>6 DEF ExchangeInv

(* The permits of the two hosts, and of the two kinds of the source, are   *)
(* not shared.                                                             *)
LEMMA PermitsApart ==
  ASSUME NEW kind \in Kinds, NEW other \in Kinds, NEW w \in RightPermits(kind), w \in RightPermits(other)
  PROVE  Sender(kind) = Sender(other) /\ (kind = "execution" <=> other = "execution")
BY PermitsAreDistinct DEF Kinds, RightPermits, Sender

(* A message is sent: the sender was idle, and its warrant is ready.       *)
LEMMA SendKeeps ==
  ASSUME ExchangeInv, NEW kind \in Kinds, NEW c \in Commitments, NEW w \in Permits, Send(kind, c, w)
  PROVE  ExchangeInv'
<1> DEFINE m == [kind |-> kind, commitment |-> c, warrant |-> w, status |-> "sent"]
           n == Len(messages)
<1>1. /\ Idle(Sender(kind)) /\ w \in RightPermits(kind) /\ W!ValidForExecution(permits[w])
      /\ ReadyToSend(kind, c) /\ n < MaxMessages
      /\ messages' = Append(messages, m)
      /\ calls' = [calls EXCEPT ![Sender(kind)] = n + 1]
      /\ copies' = copies /\ breachCase' = breachCase /\ permits' = permits
  BY DEF Send, Sendable
<1>2. m \in Message /\ m.kind = kind /\ m.commitment = c /\ m.warrant = w /\ m.status = "sent"
  BY DEF Message
<1> HIDE DEF m
<1>3. messages \in Seq(Message) /\ n \in Nat /\ DOMAIN messages = 1..n
  BY MessageTypes
<1>4. /\ messages' \in Seq(Message) /\ Len(messages') = n + 1
      /\ \A i \in 1..n : messages'[i] = messages[i]
      /\ messages'[n + 1] = m
  BY <1>1, <1>2, <1>3, AppendProperties
<1>5. DOMAIN messages' = 1..(n + 1)
  BY <1>4, LenProperties
<1> HIDE DEF n
<1>6. /\ DOMAIN messages' = DOMAIN messages \union {n + 1} /\ n + 1 \notin DOMAIN messages
      /\ \A i \in DOMAIN messages : messages'[i] = messages[i]
  BY <1>3, <1>4, <1>5
<1>7. /\ Sender(kind) \in Parties /\ calls \in [Parties -> 0..MaxMessages]
      /\ n + 1 \in 0..MaxMessages /\ Len(messages') <= MaxMessages
  BY <1>1, <1>3, <1>4, MessagesAreBounded DEF Sender, Parties, ExchangeInv, CommitmentTypeOK
<1>8. CommitmentTypeOK' /\ CopiesAgree'
  <2>1. calls' \in [Parties -> 0..MaxMessages]
    BY <1>1, <1>7
  <2>2. CopiesAgree'
    BY <1>1, CopiesSame DEF CopiesMoved
  <2> QED
    BY <1>1, <1>4, <1>7, <2>1, <2>2 DEF ExchangeInv, CommitmentTypeOK
<1>9. MessagesAreTrue'
  <2>1. copies[Sender(kind)][c] # NoCopy
    BY <1>1 DEF ReadyToSend
  <2>2. kind = "acceptance" => copies["target"][c].accepted = "operator"
    BY <1>1, <2>1 DEF ReadyToSend, Sender, ExchangeInv, CopiesAgree, TargetDecides
  <2>3. kind = "breach" => copies["target"][c].breached = "operator"
    BY <1>1, <2>1 DEF ReadyToSend, Sender, ExchangeInv, CopiesAgree, TargetDecides
  <2> QED
    BY <1>1, <1>2, <1>4, <1>6, <2>1, <2>2, <2>3 DEF ExchangeInv, MessagesAreTrue
<1>10. CallsAreOwn'
  <2>1. permits[w].execution = "ready"
    BY <1>1 DEF W!ValidForExecution
  <2>2. calls'[Sender(kind)] = n + 1 /\ \A h \in Parties \ {Sender(kind)} : calls'[h] = calls[h]
    BY <1>1, <1>7
  <2>3. ASSUME NEW h \in Parties, ~(calls'[h] = 0)
        PROVE  /\ calls'[h] \in DOMAIN messages'
               /\ Sender(messages'[calls'[h]].kind) = h
               /\ messages'[calls'[h]].status # "acknowledged"
               /\ messages'[calls'[h]].kind # "execution" =>
                    permits[messages'[calls'[h]].warrant].execution = "ready"
    <3>1. CASE h = Sender(kind)
      BY <1>2, <1>4, <1>6, <2>1, <2>2, <3>1
    <3>2. CASE h # Sender(kind)
      BY <1>6, <2>2, <2>3, <3>2 DEF ExchangeInv, CallsAreOwn, Idle, Acknowledged
    <3> QED
      BY <3>1, <3>2
  <2> QED
    BY <1>1, <2>3 DEF CallsAreOwn, Idle, Acknowledged
<1>11. AcknowledgedIsSpent' /\ BreachesHaveCases' /\ OneNoticePerWarrant'
  BY <1>1, <1>2, <1>4, <1>6
     DEF ExchangeInv, AcknowledgedIsSpent, BreachesHaveCases, OneNoticePerWarrant, Acknowledged
<1> QED
  BY <1>8, <1>9, <1>10, <1>11 DEF ExchangeInv

(* The answer comes: the warrant was ready and is spent, so no message     *)
(* acknowledged before was sent under it.                                  *)
LEMMA AnswerKeeps ==
  ASSUME ExchangeInv, NEW h \in Parties, Answer(h)
  PROVE  ExchangeInv'
<1> DEFINE i == calls[h]
           spent == messages[i].warrant
<1>1. /\ i \in DOMAIN messages /\ Sender(messages[i].kind) = h
      /\ messages[i].status = "processed"
      /\ messages[i].kind # "execution" => permits[spent].execution = "ready"
  BY DEF Answer, ExchangeInv, CallsAreOwn
<1>2. /\ permits' = SpentOn(i)
      /\ messages' = [messages EXCEPT ![i].status = "acknowledged"]
      /\ calls' = [calls EXCEPT ![h] = 0]
      /\ copies' = copies /\ breachCase' = breachCase
  BY DEF Answer
<1> HIDE DEF i
<1>3. /\ messages' \in Seq(Message) /\ Len(messages') = Len(messages)
      /\ DOMAIN messages' = DOMAIN messages
      /\ messages'[i].status = "acknowledged"
      /\ \A j \in DOMAIN messages :
           /\ messages'[j].kind = messages[j].kind
           /\ messages'[j].commitment = messages[j].commitment
           /\ messages'[j].warrant = messages[j].warrant
           /\ j # i => messages'[j].status = messages[j].status
  BY <1>1, <1>2, StatusSet
<1>4. /\ spent \in Permits /\ messages[i].kind \in Kinds /\ spent \in RightPermits(messages[i].kind)
      /\ permits \in [Permits -> W!Warrant] /\ permits[spent] \in W!Warrant
  BY <1>1, MessageTypes DEF ExchangeInv, CommitmentTypeOK, MessagesAreTrue
<1>5. /\ permits' \in [Permits -> W!Warrant]
      /\ messages[i].kind = "execution" => permits' = permits
      /\ messages[i].kind # "execution" => permits'[spent].execution = "executed"
      /\ \A w \in Permits \ {spent} : permits'[w] = permits[w]
  <2>1. CASE messages[i].kind = "execution"
    BY <1>2, <1>4, <2>1 DEF SpentOn
  <2>2. CASE messages[i].kind # "execution"
    <3>1. W!MarkedExecuted(permits[spent]) \in W!Warrant
          /\ W!MarkedExecuted(permits[spent]).execution = "executed"
      BY <1>4 DEF W!MarkedExecuted, W!Warrant
    <3>2. permits' = [permits EXCEPT ![spent] = W!MarkedExecuted(permits[spent])]
      BY <1>2, <2>2 DEF SpentOn
    <3> QED
      BY <1>4, <2>2, <3>1, <3>2
  <2> QED
    BY <2>1, <2>2
<1> HIDE DEF spent
<1>6. \A w \in Permits : permits[w].execution = "executed" => permits'[w].execution = "executed"
  BY <1>4, <1>5
<1>7. CommitmentTypeOK' /\ CopiesAgree'
  <2>1. calls' \in [Parties -> 0..MaxMessages]
    BY <1>2, MessagesAreBounded DEF ExchangeInv, CommitmentTypeOK
  <2>2. CopiesAgree'
    BY <1>2, CopiesSame DEF CopiesMoved
  <2> QED
    BY <1>2, <1>3, <1>5, <2>1, <2>2 DEF ExchangeInv, CommitmentTypeOK
<1>8. MessagesAreTrue'
  BY <1>2, <1>3 DEF ExchangeInv, MessagesAreTrue
<1>9. CallsAreOwn'
  <2> SUFFICES ASSUME NEW k \in Parties, calls'[k] # 0
               PROVE  /\ calls'[k] \in DOMAIN messages'
                      /\ Sender(messages'[calls'[k]].kind) = k
                      /\ messages'[calls'[k]].status # "acknowledged"
                      /\ messages'[calls'[k]].kind # "execution" =>
                           permits'[messages'[calls'[k]].warrant].execution = "ready"
    BY DEF CallsAreOwn, Idle, Acknowledged
  <2>1. k # h /\ calls'[k] = calls[k]
    BY <1>2 DEF ExchangeInv, CommitmentTypeOK
  <2> DEFINE j == calls[k]
  <2>2. /\ j \in DOMAIN messages /\ Sender(messages[j].kind) = k /\ messages[j].status # "acknowledged"
        /\ messages[j].kind # "execution" => permits[messages[j].warrant].execution = "ready"
    BY <2>1 DEF ExchangeInv, CallsAreOwn, Idle, Acknowledged
  <2> HIDE DEF j
  <2>3. /\ messages[j].kind \in Kinds /\ messages[j].warrant \in RightPermits(messages[j].kind)
        /\ messages[j].warrant \in Permits
    BY <2>2, MessageTypes DEF ExchangeInv, MessagesAreTrue
  <2>4. j # i /\ messages[j].warrant # spent
    BY <1>1, <1>4, <2>1, <2>2, <2>3, PermitsApart
  <2>5. messages'[j].status # "acknowledged" /\ Sender(messages'[j].kind) = k
    BY <1>3, <2>2, <2>4
  <2>6. messages'[j].kind # "execution" => permits'[messages'[j].warrant].execution = "ready"
    BY <1>3, <1>5, <2>2, <2>3, <2>4
  <2> QED
    BY <1>3, <2>1, <2>2, <2>5, <2>6 DEF j
<1>10. AcknowledgedIsSpent'
  <2> SUFFICES ASSUME NEW j \in DOMAIN messages, messages'[j].status = "acknowledged",
                      messages[j].kind # "execution"
               PROVE  permits'[messages[j].warrant].execution = "executed"
    BY <1>3 DEF AcknowledgedIsSpent, Acknowledged
  <2>1. CASE j = i
    BY <1>5, <2>1 DEF spent
  <2>2. CASE j # i
    BY <1>3, <1>6, <2>2, MessageTypes DEF ExchangeInv, AcknowledgedIsSpent, Acknowledged
  <2> QED
    BY <2>1, <2>2
<1>11. BreachesHaveCases'
  <2>1. messages[i].kind = "breach" => breachCase["source"][messages[i].commitment] # "none"
    BY <1>1 DEF ExchangeInv, BreachesHaveCases
  <2> QED
    BY <1>2, <1>3, <2>1 DEF ExchangeInv, BreachesHaveCases
<1>12. OneNoticePerWarrant'
  <2>1. ASSUME NEW j \in DOMAIN messages, j # i, messages[j].status = "acknowledged",
               messages[j].warrant = spent
        PROVE  messages[i].kind = "execution" /\ messages[j].kind = "execution"
    <3>1. messages[j].kind \in Kinds /\ spent \in RightPermits(messages[j].kind)
      BY <2>1, MessageTypes DEF ExchangeInv, MessagesAreTrue
    <3>2. messages[j].kind = "execution" <=> messages[i].kind = "execution"
      BY <1>4, <3>1, PermitsApart
    <3>3. messages[j].kind # "execution" => permits[spent].execution = "executed"
      BY <2>1 DEF ExchangeInv, AcknowledgedIsSpent, Acknowledged
    <3> QED
      BY <1>1, <3>2, <3>3
  <2> SUFFICES ASSUME NEW j \in DOMAIN messages, NEW k \in DOMAIN messages,
                      messages'[j].status = "acknowledged", messages'[k].status = "acknowledged",
                      messages[j].warrant = messages[k].warrant, messages[j].kind # "execution"
               PROVE  j = k
    BY <1>3 DEF OneNoticePerWarrant, Acknowledged
  <2>2. CASE j = i
    BY <1>3, <2>1, <2>2 DEF spent
  <2>3. CASE k = i
    BY <1>3, <2>1, <2>3 DEF spent
  <2>4. CASE j # i /\ k # i
    BY <1>3, <2>4 DEF ExchangeInv, OneNoticePerWarrant, Acknowledged
  <2> QED
    BY <2>2, <2>3, <2>4
<1> QED
  BY <1>7, <1>8, <1>9, <1>10, <1>11, <1>12 DEF ExchangeInv

(* The sender gives a message up.                                          *)
LEMMA GiveUpKeeps ==
  ASSUME ExchangeInv, NEW h \in Parties, GiveUp(h)
  PROVE  ExchangeInv'
<1>1. calls' = [calls EXCEPT ![h] = 0] /\ UNCHANGED <<copies, breachCase, permits, messages>>
  BY DEF GiveUp
<1>2. calls' \in [Parties -> 0..MaxMessages] /\ \A k \in Parties : calls'[k] \in {0, calls[k]}
  BY <1>1, MessagesAreBounded DEF ExchangeInv, CommitmentTypeOK
<1>3. CommitmentTypeOK' /\ CopiesAgree'
  BY <1>1, <1>2, CopiesSame DEF ExchangeInv, CommitmentTypeOK, CopiesMoved
<1>4. CallsAreOwn'
  BY <1>1, <1>2 DEF ExchangeInv, CallsAreOwn, Idle, Acknowledged
<1>5. MessagesAreTrue' /\ AcknowledgedIsSpent' /\ BreachesHaveCases' /\ OneNoticePerWarrant'
  BY <1>1 DEF ExchangeInv, MessagesAreTrue, AcknowledgedIsSpent, BreachesHaveCases,
              OneNoticePerWarrant, Acknowledged
<1> QED
  BY <1>3, <1>4, <1>5 DEF ExchangeInv

(* A proposal is served: the target gets a copy unless it has one.         *)
LEMMA ServeProposalKeeps ==
  ASSUME ExchangeInv, NEW i \in DOMAIN messages, ServeProposal(i)
  PROVE  ExchangeInv'
<1> DEFINE c == messages[i].commitment
<1>1. /\ messages[i].kind = "proposal" /\ Finish(i, "processed")
      /\ copies' = [copies EXCEPT !["target"][c] = SyncedProposal(@, messages[i].warrant)]
      /\ breachCase' = breachCase /\ permits' = permits /\ calls' = calls
  BY DEF ServeProposal, Arrived
<1>2. c \in Commitments /\ copies["source"][c] # NoCopy
  BY <1>1, MessageTypes DEF ExchangeInv, MessagesAreTrue, Sender
<1>3. /\ copies \in [Parties -> [Commitments -> Copy \union {NoCopy}]]
      /\ messages[i].warrant \in SourcePacts
  BY <1>1 DEF ExchangeInv, CommitmentTypeOK, MessagesAreTrue, RightPermits
<1> HIDE DEF c
<1>4. CopiesMoved
  <2>1. CASE copies["target"][c] = NoCopy
    <3>1. copies' = [copies EXCEPT !["target"][c] = NewCopy(messages[i].warrant)]
      BY <1>1, <2>1 DEF SyncedProposal
    <3>2. "target" \in Parties
      BY DEF Parties
    <3> QED
      BY <1>2, <1>3, <2>1, <3>1, <3>2, CopyMade
  <2>2. CASE copies["target"][c] # NoCopy
    <3>1. copies' = copies
      BY <1>1, <1>2, <1>3, <2>2 DEF SyncedProposal, Parties
    <3> QED
      BY <3>1, CopiesSame
  <2> QED
    BY <2>1, <2>2
<1> QED
  BY <1>1, <1>4, CasesSame, PermitsSame, MessageServed

(* An acceptance is served: the target's operator had accepted.            *)
LEMMA ServeAcceptanceKeeps ==
  ASSUME ExchangeInv, NEW i \in DOMAIN messages, ServeAcceptance(i)
  PROVE  ExchangeInv'
<1> DEFINE c == messages[i].commitment
<1>1. /\ messages[i].kind = "acceptance" /\ Finish(i, "processed")
      /\ copies' = [copies EXCEPT !["source"][c] =
                      IF @.state = "accepted" THEN @ ELSE Decided(@, "accept", "peer")]
      /\ breachCase' = breachCase /\ permits' = permits /\ calls' = calls
  BY DEF ServeAcceptance, Arrived
<1>2. /\ c \in Commitments /\ copies["target"][c] # NoCopy /\ copies["target"][c].accepted = "operator"
      /\ copies["source"][c] # NoCopy
  BY <1>1, MessageTypes DEF ExchangeInv, MessagesAreTrue, Sender, CopiesAgree, TargetKnowsSource
<1> HIDE DEF c
<1>3. CopiesMoved
  <2>1. CASE copies["source"][c].state = "accepted"
    <3>1. copies' = copies
      BY <1>1, <1>2, <2>1 DEF ExchangeInv, CommitmentTypeOK, Parties
    <3> QED
      BY <3>1, CopiesSame
  <2>2. CASE copies["source"][c].state # "accepted"
    <3>1. copies' = [copies EXCEPT !["source"][c] = Decided(@, "accept", "peer")]
      BY <1>1, <2>2
    <3>2. "accept" \in DOMAIN DecidedAs /\ "accept" # "breach"
      BY DEF DecidedAs
    <3> QED
      BY <1>2, <3>1, <3>2, SourceDecided
  <2> QED
    BY <2>1, <2>2
<1> QED
  BY <1>1, <1>3, CasesSame, PermitsSame, MessageServed

(* A notice of breach is served, in full or in part.                       *)
LEMMA ServeBreachKeeps ==
  ASSUME ExchangeInv, NEW i \in DOMAIN messages, ServeBreach(i)
  PROVE  ExchangeInv'
<1> DEFINE c == messages[i].commitment
<1>1. /\ messages[i].kind = "breach"
      /\ copies' = [copies EXCEPT !["source"][c] = BreachedByNotice(@)]
      /\ calls' = calls
      /\ \/ Finish(i, "cut") /\ UNCHANGED <<breachCase, permits>>
         \/ Finish(i, "cut") /\ breachCase' = EnsuredCase("source", c)
              /\ permits' \in {permits, Held("source", c)}
         \/ Finish(i, "processed") /\ breachCase' = EnsuredCase("source", c)
              /\ permits' = Held("source", c)
  BY DEF ServeBreach, Arrived
<1>2. /\ c \in Commitments /\ copies["target"][c] # NoCopy /\ copies["target"][c].breached = "operator"
      /\ copies["source"][c] # NoCopy /\ "source" \in Parties
  BY <1>1, MessageTypes
     DEF ExchangeInv, MessagesAreTrue, Sender, CopiesAgree, TargetKnowsSource, Parties
<1> HIDE DEF c
<1>3. CopiesMoved
  <2>1. CASE copies["source"][c].state = "breached"
    <3>1. copies' = copies
      BY <1>1, <1>2, <2>1 DEF BreachedByNotice, ExchangeInv, CommitmentTypeOK, Parties
    <3> QED
      BY <3>1, CopiesSame
  <2>2. CASE copies["source"][c].state # "breached"
    <3>1. copies' = [copies EXCEPT !["source"][c] = Decided(@, "breach", "peer")]
      BY <1>1, <2>2 DEF BreachedByNotice
    <3>2. "breach" \in DOMAIN DecidedAs
      BY DEF DecidedAs
    <3> QED
      BY <1>2, <3>1, <3>2, SourceDecided
  <2> QED
    BY <2>1, <2>2
<1>4. PermitsKept
  BY <1>1, <1>2, HeldKeeps, PermitsSame
<1>5. breachCase' = EnsuredCase("source", c) => CasesMoved /\ breachCase'["source"][c] = "open"
  BY <1>2, CaseSet DEF EnsuredCase
<1>6. breachCase' = breachCase => CasesMoved
  BY CasesSame
<1>7. CASE Finish(i, "cut") /\ CasesMoved
  BY <1>1, <1>3, <1>4, <1>7, MessageServed
<1>8. CASE Finish(i, "processed") /\ CasesMoved /\ breachCase'["source"][c] = "open"
  BY <1>1, <1>3, <1>4, <1>8, MessageServed DEF c
<1> QED
  BY <1>1, <1>5, <1>6, <1>7, <1>8

(* A review of a commitment.                                               *)
LEMMA ReviewKeeps ==
  ASSUME ExchangeInv, NEW h \in Parties, NEW c \in Commitments, NEW d \in Reviews[h],
         ReviewCommitment(h, c, d)
  PROVE  ExchangeInv'
<1>1. d \in DOMAIN DecidedAs
  BY OperatorsDecide
<1>2. /\ copies[h][c] # NoCopy
      /\ copies' = [copies EXCEPT ![h][c] = Decided(@, d, "operator")]
      /\ UNCHANGED <<messages, calls>>
      /\ breachCase' \in {breachCase, EnsuredCase(h, c)}
      /\ permits' \in {permits, Held(h, c)}
  BY DEF ReviewCommitment
<1>3. CopiesMoved
  <2>1. CASE h = "source"
    BY <1>1, <1>2, <2>1, SourceDecided
  <2>2. CASE h = "target"
    BY <1>1, <1>2, <2>2, TargetReviews
  <2> QED
    BY <2>1, <2>2 DEF Parties
<1>4. CasesMoved
  BY <1>2, CasesSame, CaseSet DEF EnsuredCase
<1>5. PermitsKept
  BY <1>2, HeldKeeps, PermitsSame
<1> QED
  BY <1>2, <1>3, <1>4, <1>5, MessagesSame

(* Every step keeps the invariant.                                         *)
LEMMA ExchangeStepInv == ExchangeInv /\ [CommitmentNext]_exchangeVars => ExchangeInv'
<1> SUFFICES ASSUME ExchangeInv, [CommitmentNext]_exchangeVars PROVE ExchangeInv'
  OBVIOUS
<1>1. ASSUME NEW c \in Commitments, NEW w \in Bindings, Propose(c, w) PROVE ExchangeInv'
  <2>1. /\ copies["source"][c] = NoCopy /\ copies' = [copies EXCEPT !["source"][c] = NewCopy(w)]
        /\ "source" \in Parties /\ UNCHANGED <<breachCase, permits, messages, calls>>
    BY <1>1 DEF Propose, Parties
  <2>2. CopiesMoved
    BY <2>1, CopyMade, BindingsAreOfTheSource
  <2> QED
    BY <2>1, <2>2, CasesSame, PermitsSame, MessagesSame
<1>2. ASSUME NEW h \in Parties, NEW c \in Commitments, ResolveBreachCase(h, c) PROVE ExchangeInv'
  BY <1>2, CaseSet, CopiesSame, PermitsSame, MessagesSame DEF ResolveBreachCase
<1>3. ASSUME NEW h \in Parties, NEW c \in Commitments, SettlementBlocked(h, c) PROVE ExchangeInv'
  BY <1>3, HeldKeeps, CopiesSame, CasesSame, MessagesSame DEF SettlementBlocked
<1>4. ASSUME NEW kind \in Kinds, NEW c \in Commitments, NEW w \in Permits, SendHeldByCase(kind, c, w)
      PROVE  ExchangeInv'
  <2>1. /\ copies[Sender(kind)][c] # NoCopy /\ Sender(kind) \in Parties
        /\ permits' = Held(Sender(kind), c) /\ UNCHANGED <<copies, breachCase, messages, calls>>
    BY <1>4 DEF SendHeldByCase, Sendable, ReadyToSend, Sender, Parties
  <2> QED
    BY <2>1, HeldKeeps, CopiesSame, CasesSame, MessagesSame
<1>5. ASSUME NEW i \in DOMAIN messages, ServeExecution(i) PROVE ExchangeInv'
  <2>1. /\ messages[i].kind # "breach" /\ Finish(i, "processed")
        /\ UNCHANGED <<copies, breachCase, permits, calls>>
    BY <1>5 DEF ServeExecution, Arrived
  <2> QED
    BY <2>1, CopiesSame, CasesSame, PermitsSame, MessageServed
<1>6. ASSUME NEW w \in Permits, NEW d \in CourtDecisions, ReviewPermit(w, d) PROVE ExchangeInv'
  <2>1. d \in W!Decisions /\ permits' = [permits EXCEPT ![w] = W!Reviewed(@, d)]
        /\ UNCHANGED <<copies, breachCase, messages, calls>>
    BY <1>6, CourtDecides DEF ReviewPermit
  <2> QED
    BY <2>1, PermitReviewed, CopiesSame, CasesSame, MessagesSame
<1>7. CASE UNCHANGED exchangeVars
  BY <1>7, CopiesSame, CasesSame, PermitsSame, MessagesSame DEF exchangeVars
<1> QED
  BY <1>1, <1>2, <1>3, <1>4, <1>5, <1>6, <1>7, ReviewKeeps, SendKeeps, AnswerKeeps, GiveUpKeeps,
     ServeProposalKeeps, ServeAcceptanceKeeps, ServeBreachKeeps DEF CommitmentNext

-----------------------------------------------------------------------------
(* The types hold in every reachable state.                                *)
THEOREM ExchangeTyped == CommitmentSpec => []CommitmentTypeOK
<1>1. ExchangeInv => CommitmentTypeOK
  BY DEF ExchangeInv
<1> QED
  BY <1>1, ExchangeInitInv, ExchangeStepInv, PTL DEF CommitmentSpec

(* What the source marks as its peer's doing, the peer's operator did,     *)
(* however late and in whatever order the messages are served.             *)
THEOREM MarksAreReal == CommitmentSpec => []PeerMarksAreReal
<1>1. ExchangeInv => PeerMarksAreReal
  BY DEF ExchangeInv, CopiesAgree
<1> QED
  BY <1>1, ExchangeInitInv, ExchangeStepInv, PTL DEF CommitmentSpec

(* A warrant for commitments carries one acknowledged message, although    *)
(* deliveries are given up and repeated under it.                          *)
THEOREM NoticesSpendWarrants == CommitmentSpec => []OneNoticePerWarrant
<1>1. ExchangeInv => OneNoticePerWarrant
  BY DEF ExchangeInv
<1> QED
  BY <1>1, ExchangeInitInv, ExchangeStepInv, PTL DEF CommitmentSpec

(* Once a notice of breach was processed in full, no execution is sent     *)
(* under the commitment before the case it opened is resolved: a late      *)
(* acceptance may make the commitment accepted again, the case remains.    *)
THEOREM BreachHolds == CommitmentSpec => BreachHoldsExecution
<1>1. ExchangeInv /\ [CommitmentNext]_exchangeVars =>
        [Len(messages') > Len(messages) /\ messages'[Len(messages')].kind = "execution" =>
           LET c == messages'[Len(messages')].commitment
           IN  (\E i \in DOMAIN messages : /\ messages[i].kind = "breach" /\ messages[i].commitment = c
                                           /\ messages[i].status \in {"processed", "acknowledged"})
                 => breachCase["source"][c] = "resolved"]_exchangeVars
  <2> SUFFICES ASSUME ExchangeInv, CommitmentNext, Len(messages') > Len(messages),
                      messages'[Len(messages')].kind = "execution",
                      NEW i \in DOMAIN messages, messages[i].kind = "breach",
                      messages[i].commitment = messages'[Len(messages')].commitment,
                      messages[i].status \in {"processed", "acknowledged"}
               PROVE  breachCase["source"][messages[i].commitment] = "resolved"
    BY DEF exchangeVars
  <2>1. PICK kind \in Kinds, c \in Commitments, w \in Permits : Send(kind, c, w)
    <3>1. ASSUME NEW j \in DOMAIN messages,
                 ServeProposal(j) \/ ServeAcceptance(j) \/ ServeBreach(j) \/ ServeExecution(j)
          PROVE  Len(messages') = Len(messages)
      BY <3>1, StatusSet DEF ServeProposal, ServeAcceptance, ServeBreach, ServeExecution, Finish
    <3>2. ASSUME NEW h \in Parties, Answer(h) PROVE Len(messages') = Len(messages)
      BY <3>2, StatusSet DEF Answer, ExchangeInv, CallsAreOwn
    <3>3. messages' # messages /\ ~(Len(messages') = Len(messages))
      BY MessageTypes
    <3> QED
      BY <3>1, <3>2, <3>3
         DEF CommitmentNext, Propose, ResolveBreachCase, SettlementBlocked, ReviewCommitment,
             SendHeldByCase, GiveUp, ReviewPermit
  <2> DEFINE m == [kind |-> kind, commitment |-> c, warrant |-> w, status |-> "sent"]
  <2>2. /\ messages' = Append(messages, m) /\ m \in Message
        /\ kind # "breach" => ~Blocked(Sender(kind), c)
    BY <2>1 DEF Send, Message
  <2>3. m.kind = kind /\ m.commitment = c
    OBVIOUS
  <2> HIDE DEF m
  <2>4. messages'[Len(messages')] = m
    BY <2>2, MessageTypes, AppendProperties
  <2>5. kind = "execution" /\ messages[i].commitment = c
    BY <2>3, <2>4
  <2>6. breachCase["source"][c] # "open"
    BY <2>2, <2>5 DEF Blocked, Sender
  <2>7. breachCase["source"][c] # "none"
    BY <2>5 DEF ExchangeInv, BreachesHaveCases
  <2>8. breachCase["source"][c] \in {"none", "open", "resolved"}
    BY DEF ExchangeInv, CommitmentTypeOK, Parties
  <2> QED
    BY <2>5, <2>6, <2>7, <2>8
<1> QED
  BY <1>1, ExchangeInitInv, ExchangeStepInv, PTL DEF CommitmentSpec, BreachHoldsExecution

(* A proposal that is served leaves a copy the target has as it is: only   *)
(* the service of a proposal changes its status while it is unanswered,    *)
(* and the answer to one touches no copy.                                  *)
THEOREM ProposalsAreHarmless == CommitmentSpec => ProposalUndoesNothing
<1>1. ExchangeInv /\ [CommitmentNext]_exchangeVars =>
        [\A i \in DOMAIN messages, c \in Commitments :
           /\ messages[i].kind = "proposal" /\ messages[i].status # messages'[i].status
           /\ copies["target"][c] # NoCopy
           => copies'["target"][c] = copies["target"][c]]_exchangeVars
  <2> SUFFICES ASSUME ExchangeInv, CommitmentNext, NEW i \in DOMAIN messages, NEW c \in Commitments,
                      messages[i].kind = "proposal", messages[i].status # messages'[i].status,
                      copies["target"][c] # NoCopy
               PROVE  copies'["target"][c] = copies["target"][c]
    BY DEF exchangeVars
  <2>1. messages' # messages
    OBVIOUS
  <2>2. ASSUME NEW j \in DOMAIN messages,
               ServeProposal(j) \/ ServeAcceptance(j) \/ ServeBreach(j) \/ ServeExecution(j)
        PROVE  copies'["target"][c] = copies["target"][c]
    <3>1. j = i
      BY <2>2, StatusSet DEF ServeProposal, ServeAcceptance, ServeBreach, ServeExecution, Finish
    <3>2. ServeProposal(i)
      BY <2>2, <3>1 DEF ServeAcceptance, ServeBreach, ServeExecution, Arrived
    <3>3. copies' = [copies EXCEPT !["target"][messages[i].commitment] =
                       SyncedProposal(@, messages[i].warrant)]
      BY <3>2 DEF ServeProposal
    <3>4. copies \in [Parties -> [Commitments -> Copy \union {NoCopy}]] /\ "target" \in Parties
      BY DEF ExchangeInv, CommitmentTypeOK, Parties
    <3> QED
      BY <3>3, <3>4 DEF SyncedProposal
  <2> QED
    BY <2>1, <2>2
       DEF CommitmentNext, Propose, ResolveBreachCase, SettlementBlocked, ReviewCommitment,
           SendHeldByCase, Send, Answer, GiveUp, ReviewPermit
<1> QED
  BY <1>1, ExchangeInitInv, ExchangeStepInv, PTL DEF CommitmentSpec, ProposalUndoesNothing
=============================================================================
