---------------------------- MODULE PeersProofs ----------------------------
(***************************************************************************)
(* Proofs about what this host keeps of its peers: whom it trusts, and     *)
(* what it hands to them.                                                  *)
(***************************************************************************)
EXTENDS PeerTrust, HandoffDispatch, FiniteSetTheorems, TLAPS

(***************************************************************************)
(* Trust.  The invariant is inductive with the types: a step that takes a  *)
(* peer's last active case away looks at the case store it has just saved  *)
(* and reinstates the peer, or was cut before it could.                    *)
(***************************************************************************)

TrustInv == TypeOK /\ NoOrphanSuspension

(* The invariant holds at the start.                                       *)
LEMMA TrustInitInv == Init => TrustInv
BY DEF Init, TrustInv, TypeOK, NoOrphanSuspension, TrustStates, Claims

(* The steps that write a case: what they leave of the store.              *)
LEMMA FiledCase ==
  ASSUME TypeOK, NEW c \in CaseIds, NEW p \in Peers, NEW kind \in Claims, File(c, p, kind)
  PROVE  /\ status' \in [CaseIds -> {"none", "open", "stayed", "resolved"}]
         /\ claim' \in [CaseIds -> Claims] /\ about' \in [CaseIds -> Peers \union {None}]
         /\ status[c] = "none"
         /\ status'[c] = "open" /\ claim'[c] = kind /\ about'[c] = p
         /\ \A d \in CaseIds \ {c} : status'[d] = status[d] /\ claim'[d] = claim[d] /\ about'[d] = about[d]
BY DEF File, TypeOK

LEMMA ReviewedCase ==
  ASSUME TypeOK, NEW c \in CaseIds, NEW decision \in {"stay", "resolve"}, Review(c, decision)
  PROVE  /\ status' \in [CaseIds -> {"none", "open", "stayed", "resolved"}]
         /\ status[c] # "none" /\ UNCHANGED <<about, mirrored>>
         /\ status'[c] = IF decision = "stay" THEN "stayed" ELSE "resolved"
         /\ \A d \in CaseIds \ {c} : status'[d] = status[d]
BY DEF Review, TypeOK

(* What every case step leaves of the store: no other case changes, and c  *)
(* is still about the same peer.                                           *)
CaseMoved(c) ==
  /\ status' \in [CaseIds -> {"none", "open", "stayed", "resolved"}]
  /\ claim' \in [CaseIds -> Claims] /\ about' \in [CaseIds -> Peers \union {None}]
  /\ \A d \in CaseIds \ {c} : status'[d] = status[d] /\ claim'[d] = claim[d] /\ about'[d] = about[d]
  /\ status[c] # "none" => about'[c] = about[c]
  /\ about'[c] \in Peers
  /\ mirrored' \subseteq CaseIds
  /\ lastWord' = lastWord

(* A step that leaves c active may do either of its consequences, or none: *)
(* it takes the blame from a peer only by giving c another claim type.     *)
LEMMA ActiveKept ==
  ASSUME TrustInv, NEW c \in CaseIds, CaseMoved(c), status'[c] \in Blocking,
         \/ Completed(c, SuspendForCase(c))
         \/ Interrupted(c)
         \/ UNCHANGED <<trust, cut>> /\ relabelled' = relabelled \union Unblamed(c)
         \/ claim' = claim /\ UNCHANGED <<trust, excuses>>
  PROVE  TrustInv'
<1>0. PICK p \in Peers : p = about'[c]
  BY DEF CaseMoved
<1>a. /\ status[c] # "none" => p = about[c]
      /\ status[c] \in Blocking => status[c] # "none"
  BY <1>0 DEF CaseMoved, Blocking
<1>b. Unblamed(c) \subseteq {p} /\ (Unblamed(c) # {} => claim'[c] \notin PeerClaims)
  BY <1>a DEF Unblamed
<1>1. /\ trust' \in [Peers -> TrustStates \union {"unregistered"}]
      /\ cut' \subseteq Peers /\ relabelled' \subseteq Peers
      /\ \A q \in Peers \ {p} :
           trust'[q] = trust[q] /\ (q \in cut' <=> q \in cut) /\ (q \in relabelled' <=> q \in relabelled)
      /\ trust'[p] # trust[p] => claim'[c] \in PeerClaims
      /\ p \in cut \union relabelled /\ p \notin cut' \union relabelled' => claim'[c] \in PeerClaims
  BY <1>0, <1>b
     DEF Completed, Interrupted, SuspendForCase, SetTrust, CaseMoved, TrustInv, TypeOK, TrustStates, excuses
<1>c. p \in cut' \union relabelled' \/ Unblamed(c) = {}
  <2>1. CASE claim'[c] \in PeerClaims
    BY <1>b, <2>1
  <2>2. CASE claim' = claim
    BY <2>2 DEF Unblamed
  <2>3. CASE Interrupted(c)
    BY <1>0, <2>3 DEF Interrupted
  <2>4. CASE Unblamed(c) # {}
    <3>1. p \in Unblamed(c)
      BY <1>b, <2>4
    <3> QED
      BY <1>b, <2>2, <2>4, <3>1 DEF Completed, Interrupted
  <2> QED
    BY <2>4
<1>2. \A q \in Peers : ActiveCasesAbout(q) \ {c} \subseteq ActiveCasesAbout(q)'
  BY DEF CaseMoved, ActiveCasesAbout, Blocking
<1>3. claim'[c] \in PeerClaims => c \in ActiveCasesAbout(p)'
  BY <1>0 DEF ActiveCasesAbout
<1>4. TypeOK'
  BY <1>1 DEF CaseMoved, TrustInv, TypeOK
<1>5. NoOrphanSuspension'
  <2> SUFFICES ASSUME NEW q \in Peers, trust'[q] = "suspended"
               PROVE  ActiveCasesAbout(q)' # {} \/ lastWord'[q] = "suspended" \/ q \in cut' \union relabelled'
    BY DEF NoOrphanSuspension
  <2>1. CASE q = p /\ claim'[c] \in PeerClaims
    BY <1>3, <2>1
  <2>2. CASE q = p /\ claim'[c] \notin PeerClaims
    <3>1. trust[p] = "suspended" /\ (p \in cut \union relabelled => p \in cut' \union relabelled')
      BY <1>1, <2>2
    <3>2. lastWord' = lastWord
      BY DEF CaseMoved
    <3>3. ActiveCasesAbout(p) # {} \/ lastWord[p] = "suspended" \/ p \in cut \union relabelled
      BY <3>1 DEF TrustInv, NoOrphanSuspension
    <3>4. CASE c \in ActiveCasesAbout(p)
      <4>1. p \in Unblamed(c)
        BY <2>2, <3>4 DEF ActiveCasesAbout, Unblamed
      <4> QED
        BY <1>c, <2>2, <4>1
    <3>5. CASE c \notin ActiveCasesAbout(p)
      BY <1>2, <2>2, <3>1, <3>2, <3>3, <3>5
    <3> QED
      BY <3>4, <3>5
  <2>3. CASE q # p
    <3>1. c \notin ActiveCasesAbout(q)
      BY <1>a, <2>3 DEF ActiveCasesAbout
    <3>2. /\ ActiveCasesAbout(q) # {} => ActiveCasesAbout(q)' # {}
          /\ lastWord' = lastWord /\ trust[q] = "suspended"
          /\ q \in cut \union relabelled => q \in cut' \union relabelled'
      BY <1>1, <1>2, <2>3, <3>1 DEF CaseMoved
    <3> QED
      BY <3>2 DEF TrustInv, NoOrphanSuspension
  <2> QED
    BY <2>1, <2>2, <2>3
<1> QED
  BY <1>4, <1>5 DEF TrustInv

(* A step that resolves c, and reinstates its peer or is cut.              *)
LEMMA ResolvedKept ==
  ASSUME TrustInv, NEW c \in CaseIds, NEW kind \in Claims, Review(c, "resolve"), lastWord' = lastWord,
         claim' = [claim EXCEPT ![c] = kind],
         Completed(c, RestoreForCase(c)) \/ Interrupted(c)
  PROVE  TrustInv'
<1>1. /\ status' \in [CaseIds -> {"none", "open", "stayed", "resolved"}]
      /\ claim' \in [CaseIds -> Claims] /\ claim'[c] = kind
      /\ status[c] # "none" /\ about' = about /\ mirrored' = mirrored
      /\ status'[c] = "resolved"
      /\ \A d \in CaseIds \ {c} : status'[d] = status[d] /\ claim'[d] = claim[d]
  BY ReviewedCase DEF TrustInv, TypeOK
<1>2. PICK p \in Peers : p = about[c]
  BY <1>1 DEF TrustInv, TypeOK
<1>b. Unblamed(c) \subseteq {p}
  BY <1>2 DEF Unblamed
<1>3. /\ trust' \in [Peers -> TrustStates \union {"unregistered"}]
      /\ cut' \subseteq Peers /\ relabelled' \subseteq Peers
      /\ \A q \in Peers \ {p} :
           trust'[q] = trust[q] /\ (q \in cut' <=> q \in cut) /\ (q \in relabelled' <=> q \in relabelled)
  BY <1>1, <1>2, <1>b DEF Completed, Interrupted, RestoreForCase, SetTrust, TrustInv, TypeOK, TrustStates
<1>4. \A q \in Peers \ {p} : ActiveCasesAbout(q)' = ActiveCasesAbout(q)
  BY <1>1, <1>2 DEF ActiveCasesAbout
<1>5. TypeOK'
  BY <1>1, <1>3 DEF TrustInv, TypeOK
<1>6. ASSUME NEW q \in Peers, q # p, trust'[q] = "suspended"
      PROVE  ActiveCasesAbout(q)' # {} \/ lastWord'[q] = "suspended" \/ q \in cut' \union relabelled'
  BY <1>3, <1>4, <1>6 DEF TrustInv, NoOrphanSuspension
<1>7. ASSUME trust'[p] = "suspended"
      PROVE  ActiveCasesAbout(p)' # {} \/ lastWord'[p] = "suspended" \/ p \in cut' \union relabelled'
  <2>1. CASE Interrupted(c)
    BY <1>1, <1>2, <2>1 DEF Interrupted
  <2>2. CASE kind \notin PeerClaims /\ Completed(c, RestoreForCase(c))
    <3>1. trust' = trust /\ cut' = cut /\ relabelled' = relabelled \union Unblamed(c)
      BY <1>1, <2>2 DEF Completed, RestoreForCase
    <3>2. CASE c \in ActiveCasesAbout(p)
      <4>1. p \in Unblamed(c)
        BY <1>1, <1>2, <2>2, <3>2 DEF ActiveCasesAbout, Unblamed
      <4> QED
        BY <3>1, <4>1
    <3>3. CASE c \notin ActiveCasesAbout(p)
      <4>1. ActiveCasesAbout(p)' = ActiveCasesAbout(p)
        BY <1>1, <1>2, <2>2, <3>3 DEF ActiveCasesAbout
      <4>2. lastWord' = lastWord
        OBVIOUS
      <4> QED
        BY <1>2, <1>7, <3>1, <4>1, <4>2 DEF TrustInv, NoOrphanSuspension
    <3> QED
      BY <3>2, <3>3
  <2>3. CASE kind \in PeerClaims /\ Completed(c, RestoreForCase(c))
    <3>1. BlockingPeerCases(p, status') = ActiveCasesAbout(p)'
      BY <1>1 DEF BlockingPeerCases, ActiveCasesAbout
    <3>2. trust \in [Peers -> TrustStates \union {"unregistered"}]
      BY DEF TrustInv, TypeOK
    <3>3. CASE trust[p] # "revoked" /\ ActiveCasesAbout(p)' = {}
      <4>1. trust' = [trust EXCEPT ![p] = IF @ = "unregistered" THEN @ ELSE "trusted"]
        BY <1>1, <1>2, <2>3, <3>1, <3>3 DEF Completed, RestoreForCase, SetTrust
      <4> QED
        BY <1>2, <1>7, <3>2, <4>1
    <3>4. CASE trust[p] = "revoked"
      BY <1>1, <1>2, <1>7, <2>3, <3>4 DEF Completed, RestoreForCase
    <3>5. CASE ActiveCasesAbout(p)' # {}
      BY <3>5
    <3> QED
      BY <3>3, <3>4, <3>5
  <2> QED
    BY <2>1, <2>2, <2>3
<1>8. NoOrphanSuspension'
  BY <1>6, <1>7 DEF NoOrphanSuspension
<1> QED
  BY <1>5, <1>8 DEF TrustInv

(* A case that is filed or found moves as described.                       *)
LEMMA EnsuredMoves ==
  ASSUME TrustInv, NEW c \in CaseIds, NEW p \in Peers, NEW kind \in PeerClaims,
         Ensure(c, p, kind), lastWord' = lastWord
  PROVE  CaseMoved(c) /\ status'[c] \in Blocking /\ Unblamed(c) = {}
<1>1. kind \in Claims
  BY DEF PeerClaims, Claims
<1>2. CASE File(c, p, kind) /\ UNCHANGED mirrored
  BY <1>1, <1>2, FiledCase DEF CaseMoved, TrustInv, TypeOK, Blocking, Unblamed
<1>3. CASE /\ status[c] \in Blocking /\ claim[c] = kind /\ about[c] = p
           /\ UNCHANGED caseVars
  BY <1>3 DEF CaseMoved, TrustInv, TypeOK, caseVars, Unblamed
<1> QED
  BY <1>2, <1>3 DEF Ensure

(* Every step keeps the invariant.                                         *)
LEMMA TrustStepInv == TrustInv /\ [Next]_vars => TrustInv'
<1> SUFFICES ASSUME TrustInv, [Next]_vars PROVE TrustInv'
  OBVIOUS
<1>1. ASSUME NEW c \in CaseIds, NEW p \in Peers, NEW kind \in Claims, OpenCase(c, p, kind)
      PROVE  TrustInv'
  <2>1. CaseMoved(c) /\ status'[c] \in Blocking
    BY <1>1, FiledCase DEF OpenCase, CaseMoved, TrustInv, TypeOK, Blocking
  <2> QED
    BY <1>1, <2>1, ActiveKept DEF OpenCase
<1>2. ASSUME NEW c \in CaseIds, NEW p \in Peers,
             OpenCaseForDelivery(c, p) \/ BreachCommitment(c, p) \/ ReceiveBreachNotice(c, p)
      PROVE  TrustInv'
  <2>1. PICK kind \in PeerClaims : Ensure(c, p, kind)
    BY <1>2 DEF OpenCaseForDelivery, BreachCommitment, ReceiveBreachNotice, PeerClaims
  <2>2. /\ CaseMoved(c) /\ status'[c] \in Blocking
        /\ Unblamed(c) = {}
    BY <1>2, <2>1, EnsuredMoves DEF OpenCaseForDelivery, BreachCommitment, ReceiveBreachNotice
  <2> QED
    BY <1>2, <2>2, ActiveKept DEF OpenCaseForDelivery, BreachCommitment, ReceiveBreachNotice, excuses
<1>3. ASSUME NEW c \in CaseIds, StayCase(c) \/ \E kind \in Claims : MirrorStay(c, kind)
      PROVE  TrustInv'
  <2>1. /\ claim' \in [CaseIds -> Claims] /\ \A d \in CaseIds \ {c} : claim'[d] = claim[d]
        /\ Review(c, "stay") /\ lastWord' = lastWord
    BY <1>3 DEF StayCase, MirrorStay, TrustInv, TypeOK
  <2>2. CaseMoved(c) /\ status'[c] \in Blocking
    BY <2>1, ReviewedCase DEF CaseMoved, TrustInv, TypeOK, Blocking
  <2> QED
    BY <1>3, <2>2, ActiveKept DEF StayCase, MirrorStay
<1>4. ASSUME NEW c \in CaseIds, ResolveCase(c) \/ \E kind \in Claims : MirrorResolve(c, kind)
      PROVE  TrustInv'
  <2>1. CASE ResolveCase(c)
    <3>1. claim' = [claim EXCEPT ![c] = claim[c]] /\ claim[c] \in Claims
      BY <2>1 DEF ResolveCase, TrustInv, TypeOK
    <3> QED
      BY <2>1, <3>1, ResolvedKept DEF ResolveCase
  <2>2. CASE \E kind \in Claims : MirrorResolve(c, kind)
    BY <2>2, ResolvedKept DEF MirrorResolve
  <2> QED
    BY <1>4, <2>1, <2>2
<1>5. ASSUME NEW c \in CaseIds, NEW p \in Peers, NEW kind \in Claims, MirrorOpen(c, p, kind)
      PROVE  TrustInv'
  <2>1. CaseMoved(c) /\ status'[c] \in Blocking
    <3>1. CASE File(c, p, kind) /\ mirrored' = mirrored \union {c}
      BY <1>5, <3>1, FiledCase DEF MirrorOpen, CaseMoved, TrustInv, TypeOK, Blocking
    <3>2. CASE /\ about[c] = p /\ status' = [status EXCEPT ![c] = "open"]
               /\ claim' = [claim EXCEPT ![c] = kind]
               /\ UNCHANGED <<about, mirrored>>
      BY <1>5, <3>2 DEF MirrorOpen, CaseMoved, TrustInv, TypeOK, Blocking
    <3> QED
      BY <1>5, <3>1, <3>2 DEF MirrorOpen
  <2> QED
    BY <1>5, <2>1, ActiveKept DEF MirrorOpen
<1>6. ASSUME NEW p \in Peers, NEW state \in TrustStates,
             UpsertPeer(p, state) \/ SetPeerState(p, state)
      PROVE  TrustInv'
  <2>1. /\ trust' = [trust EXCEPT ![p] = state] /\ lastWord' = [lastWord EXCEPT ![p] = state]
        /\ cut' = cut \ {p} /\ relabelled' = relabelled \ {p} /\ UNCHANGED caseVars
    BY <1>6 DEF UpsertPeer, SetPeerState, SetTrust
  <2>2. TypeOK'
    BY <2>1 DEF TrustInv, TypeOK, caseVars
  <2>3. \A q \in Peers : ActiveCasesAbout(q)' = ActiveCasesAbout(q)
    BY <2>1 DEF ActiveCasesAbout, caseVars
  <2>4. NoOrphanSuspension'
    BY <2>1, <2>3 DEF TrustInv, TypeOK, NoOrphanSuspension
  <2> QED
    BY <2>2, <2>4 DEF TrustInv
<1>7. CASE UNCHANGED vars
  BY <1>7 DEF vars, caseVars, excuses, TrustInv, TypeOK, NoOrphanSuspension, ActiveCasesAbout
<1> QED
  <2>1. {"suspended", "revoked"} \subseteq TrustStates
    BY DEF TrustStates
  <2> QED
    BY <1>1, <1>2, <1>3, <1>4, <1>5, <1>6, <1>7, <2>1 DEF Next, CaseNext, PeerNext

(* The types hold in every reachable state.                                *)
THEOREM TrustTyped == Spec => []TypeOK
<1>1. TrustInv => TypeOK
  BY DEF TrustInv
<1> QED
  BY <1>1, TrustInitInv, TrustStepInv, PTL DEF Spec

(* A peer is suspended for a reason: an active case that blames it, the    *)
(* operator's word, an update lost in a crash, or a case that a notice of  *)
(* the peer took the blame out of while it was active.                     *)
THEOREM SuspensionsHaveReasons == Spec => []NoOrphanSuspension
<1>1. TrustInv => NoOrphanSuspension
  BY DEF TrustInv
<1> QED
  BY <1>1, TrustInitInv, TrustStepInv, PTL DEF Spec

(* A case step reinstates a suspended peer only, and only when the store   *)
(* it saved has no active case that blames the peer.                       *)
THEOREM ReinstatementIsEarned == Spec => ReinstatedOnlyWhenClear
<1>1. TrustInv /\ [Next]_vars =>
        [\A p \in Peers :
           trust'[p] = "trusted" /\ trust[p] # "trusted" /\ CaseNext =>
             trust[p] = "suspended" /\ ActiveCasesAbout(p)' = {}]_vars
  <2> SUFFICES ASSUME TrustInv, NEW p \in Peers, trust'[p] = "trusted", trust[p] # "trusted", CaseNext
               PROVE  trust[p] = "suspended" /\ ActiveCasesAbout(p)' = {}
    OBVIOUS
  <2>1. trust \in [Peers -> TrustStates \union {"unregistered"}]
    BY DEF TrustInv, TypeOK
  <2>2. ASSUME NEW c \in CaseIds, Completed(c, SuspendForCase(c)) PROVE FALSE
    BY <2>1, <2>2 DEF Completed, SuspendForCase, SetTrust
  <2>3. ASSUME NEW c \in CaseIds, Interrupted(c) \/ trust' = trust PROVE FALSE
    BY <2>3 DEF Interrupted
  <2>4. PICK c \in CaseIds : Completed(c, RestoreForCase(c))
    BY <2>2, <2>3
       DEF CaseNext, OpenCase, MirrorOpen, OpenCaseForDelivery, BreachCommitment, ReceiveBreachNotice,
           StayCase, ResolveCase, MirrorStay, MirrorResolve
  <2>5. /\ trust[about'[c]] # "revoked" /\ BlockingPeerCases(about'[c], status') = {}
        /\ trust' = [trust EXCEPT ![about'[c]] = IF @ = "unregistered" THEN @ ELSE "trusted"]
    BY <2>4 DEF Completed, RestoreForCase, SetTrust
  <2>6. p = about'[c] /\ trust[p] # "unregistered"
    BY <2>1, <2>5
  <2>7. BlockingPeerCases(p, status') = ActiveCasesAbout(p)'
    BY DEF BlockingPeerCases, ActiveCasesAbout
  <2> QED
    BY <2>1, <2>5, <2>6, <2>7 DEF TrustStates
<1> QED
  BY <1>1, TrustInitInv, TrustStepInv, PTL DEF Spec, ReinstatedOnlyWhenClear

-----------------------------------------------------------------------------
(***************************************************************************)
(* Handoffs.  A record that may be dispatched has been promoted once more  *)
(* often than it was delivered, and a delivery that names no commitment    *)
(* has spent its warrant.                                                  *)
(***************************************************************************)
PromotionsPayDeliveries ==
  \A h \in Handoffs :
    /\ Cardinality(Recorded(h)) <= promotions[h]
    /\ queue[h] # Absent /\ queue[h].state = "dispatchable" =>
         Cardinality(Recorded(h)) < promotions[h]

DeliveriesSpendWarrants ==
  \A i \in DOMAIN envelopes :
    envelopes[i].recorded /\ ~envelopes[i].linked =>
      warrant[envelopes[i].warrant] = "executed"

HandoffInv ==
  HandoffTypeOK /\ EvidenceIsReal /\ PromotionsPayDeliveries /\ DeliveriesSpendWarrants
    /\ EveryDeliveryIsAuthorised

(* Nothing was sent at the start.                                          *)
LEMMA HandoffInitInv == HandoffInit => HandoffInv
<1> SUFFICES ASSUME HandoffInit PROVE HandoffInv
  OBVIOUS
<1> USE DEF HandoffInit
<1>1. HandoffTypeOK
  <2>1. envelopes \in Seq(Envelope) /\ Len(envelopes) = 0
    OBVIOUS
  <2>2. promotions \in [Handoffs -> 0..MaxPromotions] /\ Len(envelopes) <= MaxEnvelopes
    BY <2>1, BoundsAreNumbers
  <2> QED
    BY <2>1, <2>2 DEF HandoffTypeOK, DispatchStates
<1>2. DOMAIN envelopes = {} /\ \A h \in Handoffs : Recorded(h) = {}
  BY DEF Recorded
<1>3. PromotionsPayDeliveries
  <2>1. \A h \in Handoffs : Cardinality(Recorded(h)) = 0 /\ promotions[h] = 0 /\ queue[h] = Absent
    BY <1>2, FS_EmptySet
  <2> QED
    BY <2>1 DEF PromotionsPayDeliveries
<1> QED
  BY <1>1, <1>2, <1>3 DEF HandoffInv, EvidenceIsReal, DeliveriesSpendWarrants,
    EveryDeliveryIsAuthorised, PromotionsPayDeliveries

(* The deliveries of a handoff are finitely many.                          *)
LEMMA DeliveriesFinite ==
  ASSUME HandoffTypeOK, NEW h \in Handoffs
  PROVE  IsFiniteSet(Recorded(h)) /\ Cardinality(Recorded(h)) \in Nat
<1>1. Recorded(h) \subseteq 1..Len(envelopes) /\ Len(envelopes) \in Nat
  BY DEF Recorded, HandoffTypeOK
<1> QED
  <2>1. IsFiniteSet(1..Len(envelopes))
    BY <1>1, FS_Interval
  <2>2. IsFiniteSet(Recorded(h))
    BY <1>1, <2>1, FS_Subset
  <2> QED
    BY <2>2, FS_CardinalityType

(* A request sent is the last envelope; the others stay what they were.    *)
LEMMA SentIsLast ==
  ASSUME HandoffTypeOK, NEW h \in Handoffs, NEW w \in Warrants, NEW linked \in BOOLEAN,
         NEW applied \in BOOLEAN, NEW recorded \in BOOLEAN,
         Sent(h, w, linked, applied, recorded), Len(envelopes) < MaxEnvelopes
  PROVE  /\ envelopes' \in Seq(Envelope) /\ Len(envelopes') <= MaxEnvelopes
         /\ DOMAIN envelopes = 1..Len(envelopes)
         /\ DOMAIN envelopes' = (DOMAIN envelopes) \union {Len(envelopes) + 1}
         /\ Len(envelopes) + 1 \notin DOMAIN envelopes
         /\ \A i \in DOMAIN envelopes : envelopes'[i] = envelopes[i]
         /\ envelopes'[Len(envelopes) + 1] =
              [handoff |-> h, warrant |-> w, linked |-> linked,
               applied |-> applied, recorded |-> recorded]
<1> DEFINE e == [handoff |-> h, warrant |-> w, linked |-> linked,
                 applied |-> applied, recorded |-> recorded]
<1>1. e \in Envelope /\ envelopes \in Seq(Envelope) /\ envelopes' = Append(envelopes, e)
  BY DEF Envelope, HandoffTypeOK, Sent
<1> HIDE DEF e
<1>2. /\ envelopes' \in Seq(Envelope) /\ Len(envelopes') = Len(envelopes) + 1
      /\ \A i \in 1..Len(envelopes) : envelopes'[i] = envelopes[i]
      /\ envelopes'[Len(envelopes) + 1] = e
      /\ Len(envelopes) \in Nat /\ DOMAIN envelopes = 1..Len(envelopes)
      /\ DOMAIN envelopes' = 1..(Len(envelopes) + 1)
  BY <1>1
<1>3. 1..(Len(envelopes) + 1) = 1..Len(envelopes) \union {Len(envelopes) + 1}
  BY <1>2
<1>4. Len(envelopes) + 1 \notin 1..Len(envelopes) /\ Len(envelopes) + 1 <= MaxEnvelopes
  BY <1>2, BoundsAreNumbers
<1> QED
  BY <1>2, <1>3, <1>4 DEF e

(* A recorded request is one more delivery of its handoff; another changes *)
(* no count.                                                               *)
LEMMA SentIsCounted ==
  ASSUME HandoffTypeOK, NEW h \in Handoffs, NEW w \in Warrants, NEW linked \in BOOLEAN,
         NEW applied \in BOOLEAN, NEW recorded \in BOOLEAN,
         Sent(h, w, linked, applied, recorded), Len(envelopes) < MaxEnvelopes
  PROVE  \A g \in Handoffs :
           Cardinality(Recorded(g)') = IF g = h /\ recorded THEN Cardinality(Recorded(g)) + 1
                                                            ELSE Cardinality(Recorded(g))
<1> TAKE g \in Handoffs
<1> DEFINE n == Len(envelopes) + 1
<1>1. /\ DOMAIN envelopes' = (DOMAIN envelopes) \union {n} /\ n \notin DOMAIN envelopes
      /\ \A i \in DOMAIN envelopes : envelopes'[i] = envelopes[i]
      /\ envelopes'[n].handoff = h /\ envelopes'[n].recorded = recorded
  <2>1. envelopes'[n] = [handoff |-> h, warrant |-> w, linked |-> linked,
                         applied |-> applied, recorded |-> recorded]
    BY SentIsLast
  <2> HIDE DEF n
  <2>2. envelopes'[n].handoff = h /\ envelopes'[n].recorded = recorded
    BY <2>1
  <2>3. /\ DOMAIN envelopes' = (DOMAIN envelopes) \union {n} /\ n \notin DOMAIN envelopes
        /\ \A i \in DOMAIN envelopes : envelopes'[i] = envelopes[i]
    BY SentIsLast DEF n
  <2> QED
    BY <2>2, <2>3
<1> HIDE DEF n
<1>2. n \notin Recorded(g) /\ IsFiniteSet(Recorded(g))
  BY <1>1, DeliveriesFinite DEF Recorded
<1>3. CASE g = h /\ recorded
  <2>1. Recorded(g)' = Recorded(g) \union {n}
    BY <1>1, <1>3 DEF Recorded
  <2> QED
    BY <1>2, <1>3, <2>1, FS_AddElement
<1>4. CASE ~(g = h /\ recorded)
  <2>1. Recorded(g)' = Recorded(g)
    BY <1>1, <1>4 DEF Recorded
  <2> QED
    BY <1>4, <2>1
<1> QED
  BY <1>3, <1>4

(* What may be sent has a promotion left, and its warrant is unspent.      *)
LEMMA DeliverableIsPromoted ==
  ASSUME HandoffInv, NEW h \in Handoffs, NEW w \in Warrants, Deliverable(h, w)
  PROVE  /\ queue[h] # Absent /\ warrant[w] = "ready" /\ Len(envelopes) < MaxEnvelopes
         /\ Cardinality(Recorded(h)) < promotions[h]
<1>1. /\ queue[h] # Absent /\ ~AlreadyDispatched(h) /\ warrant[w] = "ready"
      /\ Len(envelopes) < MaxEnvelopes
  BY DEF Deliverable
<1>2. queue[h] \in [state : DispatchStates, evidence : Nat \union {Absent}]
  BY <1>1 DEF HandoffInv, HandoffTypeOK
<1>3. queue[h].state = "dispatchable"
  BY <1>1, <1>2 DEF AlreadyDispatched, HandoffInv, EvidenceIsReal, DispatchStates
<1> QED
  BY <1>1, <1>3 DEF HandoffInv, PromotionsPayDeliveries

(* A step that sends nothing and leaves the records and the warrants keeps *)
(* the invariant.                                                          *)
LEMMA NothingSent ==
  ASSUME HandoffInv, HandoffTypeOK', UNCHANGED <<queue, warrant, envelopes, promotions>>
  PROVE  HandoffInv'
<1>1. \A h \in Handoffs : Recorded(h)' = Recorded(h)
  BY DEF Recorded
<1> QED
  BY <1>1 DEF HandoffInv, EvidenceIsReal, PromotionsPayDeliveries, DeliveriesSpendWarrants,
    EveryDeliveryIsAuthorised

(* A request that leaves this host, answered or not.                       *)
LEMMA SendingKeeps ==
  ASSUME HandoffInv, NEW h \in Handoffs, NEW w \in Warrants, NEW linked \in BOOLEAN,
         NEW applied \in BOOLEAN, NEW recorded \in BOOLEAN, recorded => applied,
         Deliverable(h, w), Sent(h, w, linked, applied, recorded),
         queue' = IF recorded
                    THEN [queue EXCEPT ![h] = [state |-> "dispatched",
                                               evidence |-> Len(envelopes) + 1]]
                    ELSE queue,
         Spend(w, linked) \/ (warrant' = warrant /\ ~recorded),
         UNCHANGED <<registryVars, previews, promotions, local>>
  PROVE  HandoffInv'
<1> DEFINE n == Len(envelopes) + 1
<1>1. /\ queue[h] # Absent /\ warrant[w] = "ready" /\ Len(envelopes) < MaxEnvelopes
      /\ Cardinality(Recorded(h)) < promotions[h]
  BY DeliverableIsPromoted
<1>2. /\ envelopes' \in Seq(Envelope) /\ Len(envelopes') <= MaxEnvelopes
      /\ DOMAIN envelopes' = (DOMAIN envelopes) \union {n} /\ n \notin DOMAIN envelopes
      /\ \A i \in DOMAIN envelopes : envelopes'[i] = envelopes[i]
      /\ envelopes'[n] = [handoff |-> h, warrant |-> w, linked |-> linked,
                          applied |-> applied, recorded |-> recorded]
  BY <1>1, SentIsLast DEF HandoffInv
<1>3. n \in Nat /\ HandoffTypeOK
  BY DEF HandoffInv, HandoffTypeOK
<1>4. \A g \in Handoffs :
        Cardinality(Recorded(g)') = IF g = h /\ recorded THEN Cardinality(Recorded(g)) + 1
                                                         ELSE Cardinality(Recorded(g))
  BY <1>1, <1>3, SentIsCounted
<1>5. /\ \A v \in Warrants : warrant[v] = "executed" => warrant'[v] = "executed"
      /\ recorded /\ ~linked => warrant'[w] = "executed"
      /\ warrant' \in [Warrants -> {"ready", "executed"}]
  BY <1>3 DEF HandoffTypeOK, Spend
<1>6. \A g \in Handoffs :
        queue'[g] = IF g = h /\ recorded THEN [state |-> "dispatched", evidence |-> n]
                                         ELSE queue[g]
  BY <1>3 DEF HandoffTypeOK
<1>7. HandoffTypeOK'
  <2>1. queue' \in [Handoffs -> [state : DispatchStates, evidence : Nat \union {Absent}]
                                  \union {Absent}]
    BY <1>3, <1>6 DEF HandoffTypeOK, DispatchStates
  <2> QED
    BY <1>2, <1>3, <1>5, <2>1 DEF HandoffTypeOK, registryVars
<1> HIDE DEF n
<1>8. EvidenceIsReal'
  <2> SUFFICES ASSUME NEW g \in Handoffs, queue'[g] # Absent
               PROVE  /\ queue'[g].state = "dispatched" => queue'[g].evidence # Absent
                      /\ queue'[g].evidence # Absent =>
                           /\ queue'[g].evidence \in DOMAIN envelopes'
                           /\ envelopes'[queue'[g].evidence].handoff = g
                           /\ envelopes'[queue'[g].evidence].applied
                           /\ envelopes'[queue'[g].evidence].recorded
    BY DEF EvidenceIsReal
  <2>1. CASE g = h /\ recorded
    BY <1>2, <1>3, <1>6, <2>1, AbsentIsNothing
  <2>2. CASE ~(g = h /\ recorded)
    <3>1. queue'[g] = queue[g]
      BY <1>6, <2>2
    <3> QED
      BY <1>2, <3>1 DEF HandoffInv, EvidenceIsReal
  <2> QED
    BY <2>1, <2>2
<1>9. PromotionsPayDeliveries' /\ \A g \in Handoffs : Cardinality(Recorded(g)') <= promotions'[g]
  <2> SUFFICES ASSUME NEW g \in Handoffs
               PROVE  /\ Cardinality(Recorded(g)') <= promotions'[g]
                      /\ queue'[g] # Absent /\ queue'[g].state = "dispatchable" =>
                           Cardinality(Recorded(g)') < promotions'[g]
    BY DEF PromotionsPayDeliveries
  <2>1. promotions'[g] \in Nat /\ promotions'[g] = promotions[g] /\ Cardinality(Recorded(g)) \in Nat
    BY <1>3, DeliveriesFinite, BoundsAreNumbers DEF HandoffTypeOK
  <2>2. CASE g = h /\ recorded
    BY <1>1, <1>4, <1>6, <2>1, <2>2
  <2>3. CASE ~(g = h /\ recorded)
    BY <1>4, <1>6, <2>1, <2>3 DEF HandoffInv, PromotionsPayDeliveries
  <2> QED
    BY <2>2, <2>3
<1>10. \A i \in DOMAIN envelopes : envelopes[i].warrant \in Warrants
  <2>1. \A i \in DOMAIN envelopes : envelopes[i] \in Envelope
    BY <1>3 DEF HandoffTypeOK
  <2> QED
    BY <2>1 DEF Envelope
<1>11. DeliveriesSpendWarrants'
  <2> SUFFICES ASSUME NEW i \in DOMAIN envelopes', envelopes'[i].recorded, ~envelopes'[i].linked
               PROVE  warrant'[envelopes'[i].warrant] = "executed"
    BY DEF DeliveriesSpendWarrants
  <2>1. CASE i = n
    BY <1>2, <1>5, <2>1
  <2>2. CASE i \in DOMAIN envelopes
    BY <1>2, <1>5, <1>10, <2>2 DEF HandoffInv, DeliveriesSpendWarrants
  <2> QED
    BY <1>2, <2>1, <2>2
<1>12. \A i \in DOMAIN envelopes :
         envelopes[i].recorded /\ ~envelopes[i].linked => envelopes[i].warrant # w
  BY <1>1 DEF HandoffInv, DeliveriesSpendWarrants
<1>13. \A i, j \in DOMAIN envelopes' :
         /\ envelopes'[i].warrant = envelopes'[j].warrant
         /\ envelopes'[i].recorded /\ ~envelopes'[i].linked
         /\ envelopes'[j].recorded /\ ~envelopes'[j].linked
         => i = j
  <2> SUFFICES ASSUME NEW i \in DOMAIN envelopes', NEW j \in DOMAIN envelopes',
                      envelopes'[i].warrant = envelopes'[j].warrant,
                      envelopes'[i].recorded, ~envelopes'[i].linked,
                      envelopes'[j].recorded, ~envelopes'[j].linked
               PROVE  i = j
    OBVIOUS
  <2>1. CASE i \in DOMAIN envelopes /\ j \in DOMAIN envelopes
    BY <1>2, <2>1 DEF HandoffInv, EveryDeliveryIsAuthorised
  <2>2. CASE i = n
    BY <1>2, <1>12, <2>2
  <2>3. CASE j = n
    BY <1>2, <1>12, <2>3
  <2> QED
    BY <1>2, <2>1, <2>2, <2>3
<1> QED
  BY <1>7, <1>8, <1>9, <1>11, <1>13 DEF HandoffInv, EveryDeliveryIsAuthorised
(* The steps of the handoffs keep the invariant.                           *)
LEMMA HandoffStepInv == HandoffInv /\ [HandoffNext]_handoffVars => HandoffInv'
<1> SUFFICES ASSUME HandoffInv, [HandoffNext]_handoffVars PROVE HandoffInv'
  OBVIOUS
<1>t. HandoffTypeOK
  BY DEF HandoffInv
<1>1. ASSUME NEW p \in Hosts, NEW entry \in PeerChoices, RegisterPeer(p, entry)
      PROVE  HandoffInv'
  <2>1. HandoffTypeOK'
    BY <1>t, <1>1, ChoicesAreEntries DEF RegisterPeer, HandoffTypeOK, sendVars
  <2> QED
    BY <1>1, <2>1, NothingSent DEF RegisterPeer, sendVars
<1>2. ASSUME NEW p \in Hosts, NEW state \in EntryStates, SetPeerTrust(p, state)
      PROVE  HandoffInv'
  <2>1. peers[p] \in PeerEntry
    BY <1>t, <1>2 DEF SetPeerTrust, HandoffTypeOK
  <2>2. [peers[p] EXCEPT !.trust = state] \in PeerEntry
    BY <2>1 DEF PeerEntry
  <2>3. peers' = [peers EXCEPT ![p] = [peers[p] EXCEPT !.trust = state]]
    BY <1>2 DEF SetPeerTrust
  <2>4. HandoffTypeOK'
    BY <1>t, <1>2, <2>2, <2>3 DEF SetPeerTrust, HandoffTypeOK, sendVars
  <2> QED
    BY <1>2, <2>4, NothingSent DEF SetPeerTrust, sendVars
<1>3. ASSUME NEW o \in Orgs, NEW answer \in Statuses, MutateAdmission(o, answer)
      PROVE  HandoffInv'
  <2>1. HandoffTypeOK'
    BY <1>t, <1>3, ChoicesAreEntries DEF MutateAdmission, HandoffTypeOK, sendVars
  <2> QED
    BY <1>3, <2>1, NothingSent DEF MutateAdmission, sendVars
<1>4. CASE PreviewRoutes
  <2>1. HandoffTypeOK'
    BY <1>t, <1>4 DEF PreviewRoutes, UpsertPreview, HandoffTypeOK, sendVars, registryVars
  <2> QED
    BY <1>4, <2>1, NothingSent DEF PreviewRoutes, sendVars
<1>5. ASSUME NEW h \in Handoffs, AcknowledgeInterrupted(h)
      PROVE  HandoffInv'
  <2>1. HandoffTypeOK'
    BY <1>t, <1>5 DEF AcknowledgeInterrupted, HandoffTypeOK, sendVars, registryVars
  <2> QED
    BY <1>5, <2>1, NothingSent DEF AcknowledgeInterrupted, sendVars
<1>6. ASSUME NEW h \in Handoffs, Acknowledge(h)
      PROVE  HandoffInv'
  <2>1. Promoted(queue[h]) \in [state : DispatchStates, evidence : Nat \union {Absent}]
    BY <1>t DEF HandoffTypeOK, Promoted, DispatchStates
  <2>2. /\ \A g \in Handoffs : queue'[g] = IF g = h THEN Promoted(queue[h]) ELSE queue[g]
        /\ \A g \in Handoffs : promotions'[g] = IF g = h THEN promotions[h] + 1 ELSE promotions[g]
        /\ UNCHANGED <<warrant, envelopes>>
    BY <1>t, <1>6 DEF Acknowledge, HandoffTypeOK, sendVars
  <2>3. \A g \in Handoffs : promotions[g] \in Nat
    BY <1>t, BoundsAreNumbers DEF HandoffTypeOK
  <2>4. HandoffTypeOK'
    <3>1. previews' \in [Handoffs -> [acknowledged : BOOLEAN] \union {Absent}]
      BY <1>t, <1>6 DEF Acknowledge, HandoffTypeOK
    <3>2. promotions' \in [Handoffs -> 0..MaxPromotions]
      BY <1>t, <1>6, BoundsAreNumbers DEF Acknowledge, HandoffTypeOK
    <3>3. queue' \in [Handoffs -> [state : DispatchStates, evidence : Nat \union {Absent}]
                                    \union {Absent}]
      BY <1>t, <1>6, <2>1 DEF Acknowledge, HandoffTypeOK
    <3> QED
      BY <1>t, <1>6, <3>1, <3>2, <3>3 DEF Acknowledge, HandoffTypeOK, sendVars, registryVars
  <2>5. EvidenceIsReal'
    BY <2>2 DEF HandoffInv, EvidenceIsReal, Promoted
  <2>6. \A g \in Handoffs : Recorded(g)' = Recorded(g)
    BY <2>2 DEF Recorded
  <2>7. \A g \in Handoffs : Cardinality(Recorded(g)) \in Nat
    BY <1>t, DeliveriesFinite
  <2>8. PromotionsPayDeliveries'
    BY <2>2, <2>3, <2>6, <2>7 DEF HandoffInv, PromotionsPayDeliveries
  <2> QED
    BY <2>2, <2>4, <2>5, <2>8 DEF HandoffInv, PromotionsPayDeliveries, DeliveriesSpendWarrants,
      EveryDeliveryIsAuthorised
<1>7. ASSUME NEW h \in Handoffs, NEW w \in Warrants, NEW linked \in BOOLEAN,
             RunRemote(h, w, linked)
      PROVE  HandoffInv'
  BY <1>7, SendingKeeps DEF RunRemote
<1>8. ASSUME NEW h \in Handoffs, NEW w \in Warrants, NEW linked \in BOOLEAN,
             RunRemoteUnanswered(h, w, linked)
      PROVE  HandoffInv'
  BY <1>8, SendingKeeps DEF RunRemoteUnanswered
<1>9. ASSUME NEW h \in Handoffs, NEW w \in Warrants, NEW linked \in BOOLEAN,
             NEW marked \in BOOLEAN, RunRemoteInterrupted(h, w, linked, marked)
      PROVE  HandoffInv'
  BY <1>9, SendingKeeps DEF RunRemoteInterrupted
<1>10. ASSUME NEW i \in 1..MaxEnvelopes, LateArrival(i)
       PROVE  HandoffInv'
  <2>1. envelopes \in Seq(Envelope) /\ i \in DOMAIN envelopes /\ envelopes[i] \in Envelope
    BY <1>t, <1>10 DEF LateArrival, HandoffTypeOK
  <2>2. [envelopes[i] EXCEPT !.applied = TRUE] \in Envelope
    BY <2>1 DEF Envelope
  <2>3. envelopes' = [envelopes EXCEPT ![i] = [envelopes[i] EXCEPT !.applied = TRUE]]
    BY <1>10 DEF LateArrival
  <2>4. envelopes' \in Seq(Envelope) /\ Len(envelopes') = Len(envelopes)
    BY <2>1, <2>2, <2>3
  <2>5. /\ DOMAIN envelopes' = DOMAIN envelopes
        /\ \A j \in DOMAIN envelopes :
             /\ envelopes'[j].handoff = envelopes[j].handoff
             /\ envelopes'[j].warrant = envelopes[j].warrant
             /\ envelopes'[j].linked = envelopes[j].linked
             /\ envelopes'[j].recorded = envelopes[j].recorded
             /\ envelopes[j].applied => envelopes'[j].applied
    <3> SUFFICES ASSUME NEW j \in DOMAIN envelopes
                 PROVE  /\ envelopes'[j].handoff = envelopes[j].handoff
                        /\ envelopes'[j].warrant = envelopes[j].warrant
                        /\ envelopes'[j].linked = envelopes[j].linked
                        /\ envelopes'[j].recorded = envelopes[j].recorded
                        /\ envelopes[j].applied => envelopes'[j].applied
      BY <2>3
    <3>1. CASE j = i
      BY <2>1, <2>3, <3>1 DEF Envelope
    <3>2. CASE j # i
      BY <2>3, <3>2
    <3> QED
      BY <3>1, <3>2
  <2>6. HandoffTypeOK'
    BY <1>t, <1>10, <2>4 DEF LateArrival, HandoffTypeOK, registryVars
  <2>7. UNCHANGED <<queue, warrant, promotions>>
    BY <1>10 DEF LateArrival
  <2>8. EvidenceIsReal'
    BY <2>5, <2>7 DEF HandoffInv, EvidenceIsReal
  <2>9. \A g \in Handoffs : Recorded(g)' = Recorded(g)
    BY <2>5 DEF Recorded
  <2>10. PromotionsPayDeliveries'
    BY <2>7, <2>9 DEF HandoffInv, PromotionsPayDeliveries
  <2>11. DeliveriesSpendWarrants'
    BY <2>5, <2>7 DEF HandoffInv, DeliveriesSpendWarrants
  <2>12. EveryDeliveryIsAuthorised'
    BY <2>5, <2>7, <2>9 DEF HandoffInv, EveryDeliveryIsAuthorised
  <2> QED
    BY <2>6, <2>8, <2>10, <2>11, <2>12 DEF HandoffInv
<1>11. CASE LocalStep
  <2>1. UNCHANGED <<registryVars, previews, queue, sendVars, promotions>>
    BY <1>11 DEF LocalStep, UpsertLocalRecord, ExecuteLocalJob, RunLocal, RunLocalInterrupted
  <2>2. local' \in [LocalRecords -> [state : DispatchStates \union {Absent},
                                     job : {Absent, "blocked", "pending", "executed"}]]
    <3>1. \A l \in LocalRecords :
            local[l] \in [state : DispatchStates \union {Absent},
                          job : {Absent, "blocked", "pending", "executed"}]
      BY <1>t DEF HandoffTypeOK
    <3>2. PICK l \in LocalRecords :
            \/ UpsertLocalRecord(l)
            \/ ExecuteLocalJob(l)
            \/ \E blocked \in BOOLEAN : RunLocal(l, blocked) \/ RunLocalInterrupted(l, blocked)
      BY <1>11 DEF LocalStep
    <3>3. CASE UpsertLocalRecord(l)
      BY <1>t, <3>1, <3>3 DEF UpsertLocalRecord, HandoffTypeOK, DispatchStates
    <3>6. CASE ExecuteLocalJob(l)
      BY <1>t, <3>1, <3>6 DEF ExecuteLocalJob, HandoffTypeOK, DispatchStates
    <3>4. CASE \E blocked \in BOOLEAN : RunLocal(l, blocked)
      BY <1>t, <3>1, <3>4 DEF RunLocal, QueuedJob, HandoffTypeOK, DispatchStates
    <3>5. CASE \E blocked \in BOOLEAN : RunLocalInterrupted(l, blocked)
      BY <1>t, <3>1, <3>5 DEF RunLocalInterrupted, QueuedJob, HandoffTypeOK, DispatchStates
    <3> QED
      BY <3>2, <3>3, <3>4, <3>5, <3>6
  <2>3. HandoffTypeOK'
    BY <1>t, <2>1, <2>2 DEF HandoffTypeOK, registryVars, sendVars
  <2> QED
    BY <2>1, <2>3, NothingSent DEF sendVars
<1>12. CASE UNCHANGED handoffVars
  <2>1. HandoffTypeOK'
    BY <1>t, <1>12 DEF handoffVars, HandoffTypeOK, registryVars, sendVars
  <2> QED
    BY <1>12, <2>1, NothingSent DEF handoffVars, sendVars
<1> QED
  BY <1>1, <1>2, <1>3, <1>4, <1>5, <1>6, <1>7, <1>8, <1>9, <1>10, <1>11, <1>12
    DEF HandoffNext, RemoteStep

(* The five stores of the handoffs keep their types.                       *)
THEOREM HandoffsTyped == HandoffSpec => []HandoffTypeOK
<1>1. HandoffInv => HandoffTypeOK
  BY DEF HandoffInv
<1> QED
  BY <1>1, HandoffInitInv, HandoffStepInv, PTL DEF HandoffSpec

(* A dispatch record never shows as evidence a delivery that the peer did  *)
(* not apply and answer, whatever crashes, losses and acknowledgements     *)
(* come between.                                                           *)
THEOREM EvidenceOfDelivery == HandoffSpec => []EvidenceIsReal
<1>1. HandoffInv => EvidenceIsReal
  BY DEF HandoffInv
<1> QED
  BY <1>1, HandoffInitInv, HandoffStepInv, PTL DEF HandoffSpec

(* A handoff is delivered and recorded at most once for every              *)
(* acknowledgement, and a warrant that names no commitment authorises one  *)
(* recorded delivery.                                                      *)
THEOREM DeliveriesAreAuthorised == HandoffSpec => []EveryDeliveryIsAuthorised
<1>1. HandoffInv => EveryDeliveryIsAuthorised
  BY DEF HandoffInv
<1> QED
  BY <1>1, HandoffInitInv, HandoffStepInv, PTL DEF HandoffSpec
=============================================================================
