----------------------------- MODULE PeerTrust ------------------------------
(***************************************************************************)
(* How one host decides which federation peers it trusts.  Two stores move *)
(* together without a transaction: the institution's case records          *)
(* (kernel/cases.py) and the host's peer registry (kernel/federation.py).  *)
(* A case whose claim type blames the peer suspends it when the case is    *)
(* opened or stayed, and reinstates it when the last such case about the   *)
(* peer is resolved.  Cases come from the operator, from failed            *)
(* deliveries, from breached commitments, and from case notices of the     *)
(* peer itself, which the host mirrors as cases about that peer.  Beside   *)
(* all this the operator sets trust states by hand.                        *)
(***************************************************************************)
CONSTANTS
  Peers,       \* host ids the operator may register
  CaseIds,     \* case ids
  None         \* the target of a case that does not exist

ASSUME NoneIsNoPeer == None \notin Peers

(* "risky" stands for fraudulent_proof, invalid_settlement_notice and      *)
(* misrouted_execution, "breach" for breach_of_commitment, "other" for the *)
(* claim types that do not blame a peer.                                   *)
Claims == {"risky", "breach", "other"}
PeerClaims == {"risky", "breach"}

TrustStates == {"trusted", "suspended", "revoked"}
Decisions == {"open", "stay", "resolve"}

VARIABLES
  trust,       \* the registry: each peer's trust state, or "unregistered"
  status,      \* the case store: "none", "open", "stayed" or "resolved"
  claim,       \* the claim type of each case
  about,       \* the peer each case targets
  mirrored,    \* the cases created by a peer's case notice
  lastWord,    \* history: what the operator last set by hand for each peer
  cut,         \* history: peers whose registry update was lost in a crash
  relabelled   \* history: peers a case no longer blames since a notice renamed its claim

caseVars == <<status, claim, about, mirrored>>
excuses == <<cut, relabelled>>
vars == <<trust, caseVars, lastWord, excuses>>

TypeOK ==
  /\ trust \in [Peers -> TrustStates \union {"unregistered"}]
  /\ status \in [CaseIds -> {"none", "open", "stayed", "resolved"}]
  /\ claim \in [CaseIds -> Claims]
  /\ about \in [CaseIds -> Peers \union {None}]
  /\ mirrored \subseteq CaseIds
  /\ lastWord \in [Peers -> TrustStates \union {"none"}]
  /\ cut \subseteq Peers /\ relabelled \subseteq Peers
  /\ \A c \in CaseIds : status[c] # "none" => about[c] \in Peers

Init ==
  /\ trust = [p \in Peers |-> "unregistered"]
  /\ status = [c \in CaseIds |-> "none"]
  /\ claim = [c \in CaseIds |-> "other"]
  /\ about = [c \in CaseIds |-> None]
  /\ mirrored = {}
  /\ lastWord = [p \in Peers |-> "none"]
  /\ cut = {} /\ relabelled = {}

-----------------------------------------------------------------------------
Blocking == {"open", "stayed"}

(* The cases that require peer p to be blocked, in the store cs.           *)
BlockingPeerCases(p, cs) ==
  {c \in CaseIds : cs[c] \in Blocking /\ claim'[c] \in PeerClaims /\ about'[c] = p}

(* A registry that does not know the peer is left as it is.                *)
SetTrust(p, state) ==
  trust' = [trust EXCEPT ![p] = IF @ = "unregistered" THEN @ ELSE state]

(***************************************************************************)
(* The two consequences of a case step, on the case store it has saved.    *)
(***************************************************************************)
SuspendForCase(c) ==
  IF claim'[c] \in PeerClaims /\ status'[c] \in Blocking
    THEN SetTrust(about'[c], "suspended")
    ELSE UNCHANGED trust

RestoreWithoutLooking(c) ==
  IF claim'[c] \in PeerClaims /\ trust[about'[c]] # "revoked"
    THEN SetTrust(about'[c], "trusted")
    ELSE UNCHANGED trust

RestoreOnlyRisky(c) ==
  IF /\ claim'[c] = "risky"
     /\ trust[about'[c]] # "revoked"
     /\ BlockingPeerCases(about'[c], status') = {}
    THEN SetTrust(about'[c], "trusted")
    ELSE UNCHANGED trust

RestoreForCase(c) ==
  IF /\ claim'[c] \in PeerClaims
     /\ trust[about'[c]] # "revoked"
     /\ BlockingPeerCases(about'[c], status') = {}
    THEN SetTrust(about'[c], "trusted")
    ELSE UNCHANGED trust

(* The peer that loses an active case against it, as a notice gives the    *)
(* case a claim type that blames nobody.                                   *)
Unblamed(c) ==
  {p \in {about[c]} : status[c] \in Blocking /\ claim[c] \in PeerClaims /\ claim'[c] \notin PeerClaims}

(* A crash between the two stores loses the second update.                 *)
Completed(c, consequence) ==
  /\ consequence
  /\ IF claim'[c] \in PeerClaims
       THEN cut' = cut \ {about'[c]} /\ relabelled' = relabelled \ {about'[c]}
       ELSE cut' = cut /\ relabelled' = relabelled \union Unblamed(c)
Interrupted(c) ==
  /\ UNCHANGED trust
  /\ cut' = cut \union {about'[c]} /\ relabelled' = relabelled \union Unblamed(c)

(***************************************************************************)
(* Writing the case store.                                                 *)
(***************************************************************************)
File(c, p, kind) ==
  /\ status[c] = "none"
  /\ status' = [status EXCEPT ![c] = "open"]
  /\ claim' = [claim EXCEPT ![c] = kind]
  /\ about' = [about EXCEPT ![c] = p]

ReviewStoringDecision(c, decision) ==
  /\ status[c] # "none"
  /\ status' = [status EXCEPT ![c] = decision]
  /\ UNCHANGED <<about, mirrored>>

Review(c, decision) ==
  /\ status[c] # "none"
  /\ status' = [status EXCEPT ![c] = IF decision = "stay" THEN "stayed" ELSE "resolved"]
  /\ UNCHANGED <<about, mirrored>>

(* A case that is filed anew unless an active one says the same already;   *)
(* either way its consequence is drawn again.                              *)
Ensure(c, p, kind) ==
  \/ /\ File(c, p, kind)
     /\ UNCHANGED mirrored
  \/ /\ status[c] \in Blocking
     /\ claim[c] = kind
     /\ about[c] = p
     /\ UNCHANGED caseVars

-----------------------------------------------------------------------------
(***************************************************************************)
(* Case steps.                                                             *)
(***************************************************************************)
OpenCase(c, p, kind) ==
  /\ File(c, p, kind)
  /\ UNCHANGED <<mirrored, lastWord>>
  /\ Completed(c, SuspendForCase(c)) \/ Interrupted(c)

(* A trusted peer's receipt does not check out, or its settlement notice.  *)
OpenCaseForDelivery(c, p) ==
  /\ trust[p] = "trusted"
  /\ Ensure(c, p, "risky")
  /\ UNCHANGED lastWord
  /\ Completed(c, SuspendForCase(c)) \/ Interrupted(c)

(* The operator breaches a commitment: the case is opened, the peer is not *)
(* suspended.                                                              *)
BreachCommitment(c, p) ==
  /\ Ensure(c, p, "breach")
  /\ UNCHANGED <<trust, lastWord, excuses>>

ReceiveBreachNotice(c, p) ==
  /\ trust[p] = "trusted"
  /\ Ensure(c, p, "breach")
  /\ UNCHANGED lastWord
  /\ Completed(c, SuspendForCase(c)) \/ Interrupted(c)

(* Any case can be stayed or resolved, in any state, any number of times.  *)
StayCase(c) ==
  /\ Review(c, "stay")
  /\ UNCHANGED <<claim, lastWord>>
  /\ Completed(c, SuspendForCase(c)) \/ Interrupted(c)

ResolveCase(c) ==
  /\ Review(c, "resolve")
  /\ UNCHANGED <<claim, lastWord>>
  /\ Completed(c, RestoreForCase(c)) \/ Interrupted(c)

(***************************************************************************)
(* A case notice is served even while its sender is suspended.  What it    *)
(* says of a case it mirrored before replaces what the case said, its      *)
(* claim type too.                                                         *)
(***************************************************************************)
Heard(p) == trust[p] \in {"trusted", "suspended"}

MirrorOpen(c, p, kind) ==
  /\ Heard(p)
  /\ \/ File(c, p, kind) /\ mirrored' = mirrored \union {c}
     \/ /\ c \in mirrored
        /\ about[c] = p
        /\ status' = [status EXCEPT ![c] = "open"]
        /\ claim' = [claim EXCEPT ![c] = kind]
        /\ UNCHANGED <<about, mirrored>>
  /\ UNCHANGED lastWord
  /\ Completed(c, SuspendForCase(c)) \/ Interrupted(c)

(* A stay notice changes the case and not the peer.                        *)
MirrorStay(c, kind) ==
  /\ c \in mirrored
  /\ Heard(about[c])
  /\ Review(c, "stay")
  /\ claim' = [claim EXCEPT ![c] = kind]
  /\ relabelled' = relabelled \union Unblamed(c)
  /\ UNCHANGED <<trust, lastWord, cut>>

MirrorResolve(c, kind) ==
  /\ c \in mirrored
  /\ Heard(about[c])
  /\ Review(c, "resolve")
  /\ claim' = [claim EXCEPT ![c] = kind]
  /\ UNCHANGED lastWord
  /\ Completed(c, RestoreForCase(c)) \/ Interrupted(c)

CaseNext ==
  \E c \in CaseIds :
    \/ \E p \in Peers :
         \/ \E kind \in Claims : OpenCase(c, p, kind) \/ MirrorOpen(c, p, kind)
         \/ OpenCaseForDelivery(c, p)
         \/ BreachCommitment(c, p)
         \/ ReceiveBreachNotice(c, p)
    \/ StayCase(c)
    \/ ResolveCase(c)
    \/ \E kind \in Claims : MirrorStay(c, kind) \/ MirrorResolve(c, kind)

-----------------------------------------------------------------------------
(***************************************************************************)
(* The operator's peer commands look at no case.  An upsert may set any    *)
(* state or keep the one there is; a new peer is trusted by default.       *)
(***************************************************************************)
UpsertPeer(p, state) ==
  /\ trust' = [trust EXCEPT ![p] = state]
  /\ lastWord' = [lastWord EXCEPT ![p] = state]
  /\ cut' = cut \ {p} /\ relabelled' = relabelled \ {p}
  /\ UNCHANGED caseVars

SetPeerState(p, state) ==
  /\ trust[p] # "unregistered"
  /\ SetTrust(p, state)
  /\ lastWord' = [lastWord EXCEPT ![p] = state]
  /\ cut' = cut \ {p} /\ relabelled' = relabelled \ {p}
  /\ UNCHANGED caseVars

PeerNext ==
  \E p \in Peers :
    \/ \E state \in TrustStates : UpsertPeer(p, state)
    \/ \E state \in {"suspended", "revoked"} : SetPeerState(p, state)

Next == CaseNext \/ PeerNext

Spec == Init /\ [][Next]_vars

-----------------------------------------------------------------------------
ActiveCasesAbout(p) ==
  {c \in CaseIds : status[c] \in Blocking /\ claim[c] \in PeerClaims /\ about[c] = p}

(* No peer is left suspended by cases that have all been resolved: a       *)
(* suspended peer has an active case about it, was suspended by hand, had  *)
(* its registry update lost in a crash, or told this host itself that an   *)
(* active case no longer blames it (_maybe_restore_peer_for_case           *)
(* reinstates with the last case, whatever order they are resolved in).    *)
NoOrphanSuspension ==
  \A p \in Peers :
    trust[p] = "suspended" =>
      ActiveCasesAbout(p) # {} \/ lastWord[p] = "suspended" \/ p \in cut \union relabelled

(* A case step never reinstates a peer that another active case still      *)
(* blames, and never touches one that is revoked at that moment except to  *)
(* suspend it.                                                             *)
ReinstatedOnlyWhenClear ==
  [][\A p \in Peers :
       trust'[p] = "trusted" /\ trust[p] # "trusted" /\ CaseNext =>
         trust[p] = "suspended" /\ ActiveCasesAbout(p)' = {}]_vars

(* What docs/OPERATOR_LANGUAGE.md:280 and the test                         *)
(* test_maybe_restore_peer_for_case_preserves_revoked_peer say: the peer   *)
(* the operator revoked is out until the operator says otherwise.          *)
RevokedStaysOut ==
  \A p \in Peers : lastWord[p] = "revoked" => trust[p] # "trusted"

(* What README.md:315-320 says: a case of a risky claim type that becomes  *)
(* open or stayed suspends the trusted peer.  Updates lost in a crash are  *)
(* excepted.                                                               *)
RiskyCaseSuspends ==
  [][\A c \in CaseIds :
       /\ status[c] \notin Blocking
       /\ status'[c] \in Blocking
       /\ claim'[c] = "risky"
       /\ about'[c] \notin cut'
       => trust'[about'[c]] # "trusted"]_vars
=============================================================================
