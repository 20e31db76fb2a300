----------------------------- MODULE HostProofs ----------------------------
(***************************************************************************)
(* Proofs about the smaller parts of one host: who may change it           *)
(* (WorkspaceAccess), the plans of its payouts (PayoutPlans), what its     *)
(* agents may spend (RuntimeBudget), and that the parts keep their types   *)
(* when they are one host (MCHost).                                        *)
(***************************************************************************)
EXTENDS MCHost, CommitmentExchangeProofs, PeersProofs, InductionLemmas

-----------------------------------------------------------------------------
(***************************************************************************)
(* Access: what a session authorises.  That a revoked session stays out    *)
(* needs to know where a revocation is kept: in the memory of the process  *)
(* if the session's key is the key of this process, and in the file if the *)
(* key outlives processes.                                                 *)
(***************************************************************************)

(* Every answered revocation is remembered, or its session is of a process *)
(* that has ended.                                                         *)
Remembered ==
  \A s \in answered :
    /\ s \in revoked \/ tokens[s].key < process
    /\ secret => s \in revocations

(* What is remembered is the id of a session, and a process whose key      *)
(* outlives it has read the file.                                          *)
RevokedWasIssued ==
  /\ \A s \in revoked \union revocations \union answered : tokens[s] # NoRequest
  /\ secret => revocations \subseteq revoked

(* The key of a token is one a process has had.                            *)
KeysArePast ==
  \A s \in Sessions : tokens[s] # NoRequest => tokens[s].key <= process /\ (secret => tokens[s].key = 0)

AccessInv == AccessTypeOK /\ Remembered /\ RevokedWasIssued /\ KeysArePast

(* The invariant holds at the start.                                       *)
LEMMA AccessInitInv == AccessInit => AccessInv
BY CredentialIsAUser, AccessBounds
   DEF AccessInit, AccessInv, AccessTypeOK, Remembered, RevokedWasIssued, KeysArePast, Organization,
       Roles, Rank, Lifecycles

(* Every step keeps it.                                                    *)
LEMMA AccessStepInv == AccessInv /\ [AccessNext]_accessVars => AccessInv'
<1> SUFFICES ASSUME AccessInv, [AccessNext]_accessVars PROVE AccessInv'
  OBVIOUS
<1> USE AccessBounds, CredentialIsAUser, GrantedAreRoles DEF AccessInv
<1>1. CASE CommandReads
  BY <1>1 DEF CommandReads, AccessTypeOK, Remembered, RevokedWasIssued, KeysArePast
<1>2. CASE Age
  BY <1>2 DEF Age, AccessTypeOK, Remembered, RevokedWasIssued, KeysArePast
<1>3. CASE Restart
  <2>1. AccessTypeOK'
    BY <1>3 DEF Restart, AccessTypeOK
  <2>2. process \in Nat /\ process' = process + 1
    BY <1>3 DEF Restart, AccessTypeOK
  <2>3. KeysArePast'
    BY <1>3, <2>2 DEF Restart, AccessTypeOK, KeysArePast, Token
  <2>4. RevokedWasIssued'
    BY <1>3 DEF Restart, AccessTypeOK, RevokedWasIssued
  <2>5. Remembered'
    <3> SUFFICES ASSUME NEW s \in answered
                 PROVE  (s \in revoked' \/ tokens[s].key < process') /\ (secret => s \in revocations)
      BY <1>3 DEF Restart, Remembered
    <3>1. s \in Sessions /\ tokens[s] # NoRequest /\ tokens[s].key <= process
      BY DEF AccessTypeOK, RevokedWasIssued, KeysArePast
    <3>2. tokens[s].key \in Nat
      BY <3>1 DEF AccessTypeOK, Token
    <3> QED
      BY <1>3, <2>2, <3>1, <3>2 DEF Restart, Remembered
  <2> QED
    BY <2>1, <2>3, <2>4, <2>5
<1>4. CASE RefuseRequest
  BY <1>4 DEF RefuseRequest, AccessTypeOK, Remembered, RevokedWasIssued, KeysArePast
<1>5. ASSUME NEW user \in Users, NEW role \in GrantedRoles, AddMember(user, role) PROVE AccessInv'
  <2>1. AccessTypeOK'
    BY <1>5 DEF AddMember, AccessTypeOK, Organization
  <2> QED
    BY <1>5, <2>1 DEF AddMember, Remembered, RevokedWasIssued, KeysArePast
<1>6. ASSUME NEW s \in Sessions \union {NoRequest}, NEW path \in Paths, Authorize(s, path)
      PROVE  AccessInv'
  <2>1. UserOf(s) \in Users
    BY <1>6 DEF Authorize, Validates, UserOf, AccessTypeOK, Token
  <2>2. RoleOf(s) \in Roles
    BY <1>6, <2>1 DEF Authorize, RoleOf, AccessTypeOK, Organization
  <2>3. AccessTypeOK'
    BY <1>6, <2>1, <2>2 DEF Authorize, AccessTypeOK, Request
  <2> QED
    BY <1>6, <2>3 DEF Authorize, Remembered, RevokedWasIssued, KeysArePast
<1>7. ASSUME NEW s \in Sessions, IssueSession(s) PROVE AccessInv'
  <2>1. request \in Request /\ tokens[s] = NoRequest
    BY <1>7 DEF IssueSession, Handling, AccessTypeOK
  <2>2. Key \in 0..MaxRestarts /\ Key <= process /\ (secret => Key = 0)
    BY DEF Key, AccessTypeOK
  <2>3. Issued(request.user, request.role) \in Token
    BY <2>1, <2>2 DEF Issued, Token, Request, AccessTypeOK
  <2>4. AccessTypeOK'
    BY <1>7, <2>3 DEF IssueSession, Handling, AccessTypeOK
  <2>5. \A r \in Sessions : tokens'[r] = IF r = s THEN Issued(request.user, request.role) ELSE tokens[r]
    BY <1>7 DEF IssueSession, AccessTypeOK
  <2>6. KeysArePast'
    BY <1>7, <2>2, <2>5 DEF IssueSession, KeysArePast, Issued
  <2>7. s \notin revoked \union revocations \union answered
    BY <2>1 DEF RevokedWasIssued
  <2>8. RevokedWasIssued'
    BY <1>7, <2>5, <2>7 DEF IssueSession, RevokedWasIssued, AccessTypeOK
  <2>9. Remembered'
    BY <1>7, <2>5, <2>7 DEF IssueSession, Remembered, AccessTypeOK
  <2> QED
    BY <2>4, <2>6, <2>8, <2>9
<1>8. ASSUME NEW s \in Sessions, RevokeInMemory(s) PROVE AccessInv'
  BY <1>8 DEF RevokeInMemory, AccessTypeOK, Remembered, RevokedWasIssued, KeysArePast
<1>9. ASSUME NEW s \in Sessions, RevokeSession(s) PROVE AccessInv'
  BY <1>9 DEF RevokeSession, Handling, AccessTypeOK, Remembered, RevokedWasIssued, KeysArePast
<1>10. ASSUME NEW lifecycle \in Lifecycles, TransitionLifecycle(lifecycle) PROVE AccessInv'
  <2>1. AccessTypeOK'
    BY <1>10 DEF TransitionLifecycle, Handling, AccessTypeOK, Organization
  <2> QED
    BY <1>10, <2>1 DEF TransitionLifecycle, Handling, Remembered, RevokedWasIssued, KeysArePast
<1>11. CASE UNCHANGED accessVars
  BY <1>11 DEF accessVars, AccessTypeOK, Remembered, RevokedWasIssued, KeysArePast
<1> QED
  BY <1>1, <1>2, <1>3, <1>4, <1>5, <1>6, <1>7, <1>8, <1>9, <1>10, <1>11 DEF AccessNext

-----------------------------------------------------------------------------
(* A session that validates was never reported revoked.                    *)
LEMMA ValidIsNotRevoked ==
  ASSUME AccessInv, NEW s \in Sessions, Validates(s)
  PROVE  s \notin answered
<1> SUFFICES ASSUME s \in answered PROVE FALSE
  OBVIOUS
<1>1. tokens[s] # NoRequest /\ tokens[s].key = Key /\ s \notin revoked
  BY DEF Validates
<1>2. tokens[s].key < process /\ (secret => s \in revocations)
  BY <1>1 DEF AccessInv, Remembered
<1>3. ~secret
  BY <1>1, <1>2 DEF AccessInv, RevokedWasIssued
<1>4. tokens[s].key = process /\ process \in Nat
  BY <1>1, <1>3 DEF Key, AccessInv, AccessTypeOK
<1> QED
  BY <1>2, <1>4

(* A request begins when it is authorised, and in no other way.            *)
LEMMA OnlyAuthorizeBegins ==
  ASSUME AccessNext, request' # request, request' # NoRequest
  PROVE  \E s \in Sessions \union {NoRequest}, path \in Paths : Authorize(s, path)
BY DEF AccessNext, CommandReads, AddMember, Age, Restart, RefuseRequest, IssueSession, RevokeInMemory,
       RevokeSession, TransitionLifecycle, Handling

(* The types hold in every reachable state.                                *)
THEOREM AccessTyped == AccessSpec => []AccessTypeOK
<1>1. AccessInv => AccessTypeOK
  BY DEF AccessInv
<1> QED
  BY <1>1, AccessInitInv, AccessStepInv, PTL DEF AccessSpec

(* Once a revocation was answered, the session authorises nothing: not in  *)
(* the process that answered, which has it in memory, nor in a later one,  *)
(* which has either read the file or another key.                          *)
THEOREM RevocationIsFinal == AccessSpec => RevokedSessionsStayOut
<1>1. AccessInv /\ [AccessNext]_accessVars =>
        [request' # request /\ request' # NoRequest => request'.session \notin answered]_accessVars
  <2> SUFFICES ASSUME AccessInv, AccessNext, request' # request, request' # NoRequest
               PROVE  request'.session \notin answered
    BY DEF accessVars
  <2>1. PICK s \in Sessions \union {NoRequest}, path \in Paths : Authorize(s, path)
    BY OnlyAuthorizeBegins
  <2>2. request'.session = s /\ (s # NoRequest => Validates(s))
    BY <2>1 DEF Authorize
  <2>3. CASE s = NoRequest
    BY <2>2, <2>3, NoRequestIsNone DEF AccessInv, AccessTypeOK
  <2>4. CASE s # NoRequest
    BY <2>2, <2>4, ValidIsNotRevoked
  <2> QED
    BY <2>3, <2>4
<1> QED
  BY <1>1, AccessInitInv, AccessStepInv, PTL DEF AccessSpec, RevokedSessionsStayOut

(* A request is authorised by the role its user has in the file when it    *)
(* arrives, whether it carries the credential or a session.                *)
THEOREM DemotionIsSeen == AccessSpec => SessionNeverOutranksUser
<1>1. [AccessNext]_accessVars =>
        [request' # request /\ request' # NoRequest =>
           /\ organization.role[request'.user] # NoRequest
           /\ Rank[organization.role[request'.user]] >= Rank[Required[request'.path]]]_accessVars
  <2> SUFFICES ASSUME AccessNext, request' # request, request' # NoRequest
               PROVE  /\ organization.role[request'.user] # NoRequest
                      /\ Rank[organization.role[request'.user]] >= Rank[Required[request'.path]]
    BY DEF accessVars
  <2>1. PICK s \in Sessions \union {NoRequest}, path \in Paths : Authorize(s, path)
    BY OnlyAuthorizeBegins
  <2> QED
    BY <2>1 DEF Authorize, RoleOf
<1> QED
  BY <1>1, PTL DEF AccessSpec, SessionNeverOutranksUser

(* Only a command that had read the file before an institution was         *)
(* dissolved brings it back: no transition leads out of "dissolved".       *)
THEOREM DissolutionIsFinal == AccessSpec => DissolvedUnlessOverwritten
<1>1. AccessInv /\ [AccessNext]_accessVars =>
        [organization.lifecycle = "dissolved" /\ organization'.lifecycle # "dissolved" =>
           command # NoRequest /\ command.lifecycle # "dissolved"]_accessVars
  <2> SUFFICES ASSUME AccessInv, AccessNext,
                      organization.lifecycle = "dissolved", organization'.lifecycle # "dissolved"
               PROVE  command # NoRequest /\ command.lifecycle # "dissolved"
    BY DEF accessVars
  <2>1. CASE \E user \in Users, role \in GrantedRoles : AddMember(user, role)
    BY <2>1 DEF AddMember, AccessInv, AccessTypeOK, Organization
  <2>2. ASSUME NEW lifecycle \in Lifecycles, TransitionLifecycle(lifecycle) PROVE FALSE
    BY <2>2 DEF TransitionLifecycle, MovesFrom, Moves
  <2> QED
    BY <2>1, <2>2 DEF AccessNext, CommandReads, Age, Restart, RefuseRequest, Authorize, IssueSession,
                      RevokeInMemory, RevokeSession
<1> QED
  BY <1>1, AccessInitInv, AccessStepInv, PTL DEF AccessSpec, DissolvedUnlessOverwritten

-----------------------------------------------------------------------------
(***************************************************************************)
(* Plans: what waits for approval, and that the two stores of a dry run    *)
(* differ by no more than the swallowed saves.  A candidate is saved from  *)
(* a copy of the preview, so what is proved of the copy has to be          *)
(* remembered from the moment it was read.                                 *)
(***************************************************************************)

(* A preview that could be promoted now has been worthy.                   *)
PromotableIsWorthy ==
  \A id \in Plans : planPreviews[id] # NoRecord /\ Promotable(planPreviews[id]) => id \in worthy

(* So has the one a running promotion read.                                *)
PromotionIsWorthy ==
  promotion # NoRecord => promotion.id \in worthy /\ Promotable(promotion.preview)

(* And what a candidate was made of.                                       *)
CandidatesAreWorthy ==
  \A id \in Plans : candidates[id] # NoRecord => id \in worthy /\ Promotable(candidates[id].snapshot)

(* The plans one of the two stores lacks.                                  *)
Torn == {id \in Plans : (planPreviews[id] = NoRecord) # (id \notin records)}

PlanInv ==
  /\ PlanTypeOK
  /\ PromotableIsWorthy /\ PromotionIsWorthy /\ CandidatesAreWorthy
  /\ QueuesAgree

(* The invariant holds at the start.                                       *)
LEMMA PlanInitInv == PlanInit => PlanInv
<1> SUFFICES ASSUME PlanInit PROVE PlanInv
  OBVIOUS
<1>1. PlanTypeOK /\ PromotableIsWorthy /\ PromotionIsWorthy /\ CandidatesAreWorthy
  BY PlanAssumptions
     DEF PlanInit, PlanTypeOK, PromotableIsWorthy, PromotionIsWorthy, CandidatesAreWorthy
<1>2. Torn = {}
  BY DEF PlanInit, Torn
<1>3. QueuesAgree
  BY <1>2, FS_EmptySet DEF QueuesAgree, Torn, PlanInit
<1> QED
  BY <1>1, <1>3 DEF PlanInv

(* Saving a preview keeps the types, and records that it was worthy.       *)
LEMMA SavedPreview ==
  ASSUME PlanInv, NEW id \in Plans, NEW r \in Preview, SavePreview(id, r)
  PROVE  /\ planPreviews' \in [Plans -> Preview \union {NoRecord}]
         /\ worthy' \subseteq Plans /\ worthy \subseteq worthy'
         /\ planPreviews'[id] = r
         /\ \A other \in Plans \ {id} : planPreviews'[other] = planPreviews[other]
         /\ PromotableIsWorthy'
<1>1. /\ planPreviews' \in [Plans -> Preview \union {NoRecord}]
      /\ planPreviews'[id] = r
      /\ \A other \in Plans \ {id} : planPreviews'[other] = planPreviews[other]
  BY DEF SavePreview, PlanInv, PlanTypeOK
<1>2. worthy' \subseteq Plans /\ worthy \subseteq worthy' /\ (Promotable(r) => id \in worthy')
  BY DEF SavePreview, PlanInv, PlanTypeOK
<1>3. PromotableIsWorthy'
  BY <1>1, <1>2 DEF PlanInv, PromotableIsWorthy, Promotable
<1> QED
  BY <1>1, <1>2, <1>3

(* A step that tears no plan keeps the bound.                              *)
LEMMA NoMoreTorn ==
  ASSUME PlanInv, Torn' \subseteq Torn, faults' \in Nat, faults <= faults'
  PROVE  QueuesAgree'
<1>1. IsFiniteSet(Torn)
  BY PlanAssumptions, FS_Subset DEF Torn
<1>2. IsFiniteSet(Torn') /\ Cardinality(Torn') <= Cardinality(Torn)
  BY <1>1, FS_Subset
<1>3. Cardinality(Torn) \in Nat /\ Cardinality(Torn') \in Nat
  BY <1>1, <1>2, FS_CardinalityType
<1>4. Cardinality(Torn) <= faults /\ faults \in Nat
  BY PlanAssumptions DEF PlanInv, QueuesAgree, Torn, PlanTypeOK
<1>5. Cardinality(Torn') <= faults'
  BY <1>2, <1>3, <1>4
<1> QED
  BY <1>5 DEF QueuesAgree, Torn

(* The saves a dry run did not do are counted.                             *)
LEMMA LostSavesAreCounted ==
  ASSUME NEW saved
  PROVE  /\ IsFiniteSet({"preview", "record"} \ saved)
         /\ Cardinality({"preview", "record"} \ saved) \in Nat
<1>1. IsFiniteSet({"preview"})
  BY FS_Singleton
<1>2. IsFiniteSet({"preview"} \cup {"record"})
  BY <1>1, FS_AddElement
<1>3. {"preview", "record"} \ saved \in SUBSET ({"preview"} \cup {"record"})
  OBVIOUS
<1> QED
  BY <1>2, <1>3, FS_Subset, FS_CardinalityType

(* Saving another preview over one there is keeps the invariant.           *)
LEMMA SavedPreviewKeeps ==
  ASSUME PlanInv, NEW id \in Plans, NEW r \in Preview, SavePreview(id, r), planPreviews[id] # NoRecord,
         UNCHANGED <<executable, candidates, records, promotion, faults>>
  PROVE  PlanInv'
<1>1. /\ planPreviews' \in [Plans -> Preview \union {NoRecord}]
      /\ worthy' \subseteq Plans /\ worthy \subseteq worthy' /\ PromotableIsWorthy'
      /\ planPreviews'[id] = r
      /\ \A other \in Plans \ {id} : planPreviews'[other] = planPreviews[other]
  BY SavedPreview
<1>2. Torn' \subseteq Torn
  BY <1>1, NoRecordIsNone DEF Torn
<1>3. QueuesAgree'
  BY <1>2, NoMoreTorn, PlanAssumptions DEF PlanInv, PlanTypeOK
<1> QED
  BY <1>1, <1>3
     DEF PlanInv, PlanTypeOK, PromotionIsWorthy, CandidatesAreWorthy

(* A dry run tears its plan only if exactly one of its saves fails.        *)
LEMMA DryRunTears ==
  ASSUME PlanInv, NEW id \in Plans, NEW saved \in SUBSET {"preview", "record"}, DryRun(id, saved)
  PROVE  QueuesAgree'
<1> DEFINE lost == {"preview", "record"} \ saved
           fresh == [state |-> "previewed", acknowledged |-> FALSE, settled |-> FALSE]
<1>1. planPreviews[id] = NoRecord /\ id \notin records /\ faults' = faults + Cardinality(lost)
  BY DEF DryRun
<1>2. /\ "preview" \in saved => planPreviews' = [planPreviews EXCEPT ![id] = fresh]
      /\ "preview" \notin saved => planPreviews' = planPreviews
      /\ records' = IF "record" \in saved THEN records \union {id} ELSE records
  BY DEF DryRun, SavePreview, Queued
<1>3. fresh # NoRecord
  <2>1. fresh \in Preview
    BY DEF Preview, PreviewStates
  <2> HIDE DEF fresh
  <2> QED
    BY <2>1, NoRecordIsNone
<1>4. \A other \in Plans \ {id} :
        planPreviews'[other] = planPreviews[other] /\ (other \in records' <=> other \in records)
  BY <1>2 DEF PlanInv, PlanTypeOK
<1>5. Torn' \subseteq Torn \union {id}
  BY <1>4 DEF Torn
<1>6. IsFiniteSet(lost) /\ Cardinality(lost) \in Nat
  BY LostSavesAreCounted
<1>7. faults \in Nat
  BY PlanAssumptions DEF PlanInv, PlanTypeOK
<1>8. CASE lost = {}
  <2>1. planPreviews'[id] = fresh /\ id \in records'
    BY <1>2, <1>8 DEF PlanInv, PlanTypeOK
  <2>2. Torn' \subseteq Torn
    BY <2>1, <1>3, <1>5 DEF Torn
  <2> QED
    BY <2>2, <1>1, <1>6, <1>7, NoMoreTorn
<1>9. CASE lost # {}
  <2>1. Cardinality(lost) >= 1
    BY <1>6, <1>9, FS_EmptySet
  <2>2. IsFiniteSet(Torn) /\ Cardinality(Torn) \in Nat /\ Cardinality(Torn) <= faults
    BY PlanAssumptions, FS_Subset, FS_CardinalityType DEF Torn, PlanInv, QueuesAgree
  <2>3. /\ IsFiniteSet(Torn \union {id}) /\ Cardinality(Torn \union {id}) \in Nat
        /\ Cardinality(Torn \union {id}) <= Cardinality(Torn) + 1
    BY <2>2, FS_AddElement, FS_CardinalityType
  <2>4. IsFiniteSet(Torn') /\ Cardinality(Torn') \in Nat
        /\ Cardinality(Torn') <= Cardinality(Torn \union {id})
    BY <2>3, <1>5, FS_Subset, FS_CardinalityType
  <2>5. Cardinality(Torn') <= faults'
    BY <2>1, <2>2, <2>3, <2>4, <1>1, <1>6, <1>7
  <2> QED
    BY <2>5 DEF QueuesAgree, Torn
<1> QED
  BY <1>8, <1>9

(* Every step keeps the invariant.                                         *)
LEMMA PlanStepInv == PlanInv /\ [PlanNext]_planVars => PlanInv'
<1> SUFFICES ASSUME PlanInv, [PlanNext]_planVars PROVE PlanInv'
  OBVIOUS
<1> USE PlanAssumptions
<1>0. faults \in Nat
  BY DEF PlanInv, PlanTypeOK
<1>1. CASE MoveGate
  <2>1. Torn' = Torn
    BY <1>1 DEF MoveGate, Torn
  <2>2. QueuesAgree'
    BY <1>0, <1>1, <2>1, NoMoreTorn DEF MoveGate
  <2> QED
    BY <1>1, <2>2
       DEF MoveGate, PlanInv, PlanTypeOK, PromotableIsWorthy, PromotionIsWorthy, CandidatesAreWorthy
<1>2. CASE Promote
  <2>1. Torn' = Torn
    BY <1>2 DEF Promote, Torn
  <2>2. QueuesAgree'
    BY <1>0, <1>2, <2>1, NoMoreTorn DEF Promote
  <2> DEFINE made == [state |-> "candidate", ready |-> TRUE, settled |-> FALSE, snapshot |-> promotion.preview]
  <2>3. promotion \in [id : Plans, preview : Preview] /\ made \in Candidate
    BY <1>2 DEF Promote, PlanInv, PlanTypeOK, Candidate, CandidateStates
  <2>4. /\ candidates' \in [Plans -> Candidate \union {NoRecord}]
        /\ candidates'[promotion.id] = made
        /\ \A other \in Plans \ {promotion.id} : candidates'[other] = candidates[other]
    BY <1>2, <2>3 DEF Promote, PlanInv, PlanTypeOK
  <2>5. PlanTypeOK' /\ PromotableIsWorthy' /\ PromotionIsWorthy'
    BY <1>2, <2>4 DEF Promote, PlanInv, PlanTypeOK, PromotableIsWorthy, PromotionIsWorthy
  <2>6. CandidatesAreWorthy'
    BY <1>2, <2>3, <2>4 DEF Promote, PlanInv, PromotionIsWorthy, CandidatesAreWorthy
  <2> QED
    BY <2>2, <2>5, <2>6 DEF PlanInv
<1>3. ASSUME NEW id \in Plans, AcknowledgePlan(id) PROVE PlanInv'
  <2> DEFINE r == [planPreviews[id] EXCEPT !.acknowledged = TRUE]
  <2>1. r \in Preview /\ SavePreview(id, r)
    BY <1>3 DEF AcknowledgePlan, PlanInv, PlanTypeOK, Preview
  <2> HIDE DEF r
  <2> QED
    BY <1>3, <2>1, <1>0, SavedPreviewKeeps DEF AcknowledgePlan
<1>4. ASSUME NEW id \in Plans, ReadForPromotion(id) PROVE PlanInv'
  <2>1. Torn' = Torn
    BY <1>4 DEF ReadForPromotion, Torn
  <2>2. QueuesAgree'
    BY <1>0, <1>4, <2>1, NoMoreTorn DEF ReadForPromotion
  <2> QED
    BY <1>4, <2>2 DEF ReadForPromotion, PlanInv, PlanTypeOK, PromotableIsWorthy, PromotionIsWorthy,
                      CandidatesAreWorthy
<1>5. ASSUME NEW id \in Plans, NEW saved \in SUBSET {"preview", "record"}, DryRun(id, saved)
      PROVE  PlanInv'
  <2>1. QueuesAgree'
    BY <1>5, DryRunTears
  <2>2. faults' \in 0..MaxFaults
    <3>1. IsFiniteSet({"preview", "record"} \ saved) /\ Cardinality({"preview", "record"} \ saved) \in Nat
      BY LostSavesAreCounted
    <3> QED
      BY <1>5, <3>1, <1>0 DEF DryRun
  <2>3. records' \subseteq Plans
    BY <1>5 DEF DryRun, Queued, PlanInv, PlanTypeOK
  <2>4. CASE "preview" \in saved
    <3> DEFINE r == [state |-> "previewed", acknowledged |-> FALSE, settled |-> FALSE]
    <3>1. r \in Preview /\ SavePreview(id, r)
      BY <1>5, <2>4 DEF DryRun, Preview, PreviewStates
    <3> HIDE DEF r
    <3>2. /\ planPreviews' \in [Plans -> Preview \union {NoRecord}]
          /\ worthy' \subseteq Plans /\ worthy \subseteq worthy' /\ PromotableIsWorthy'
      BY <3>1, SavedPreview
    <3>3. PlanTypeOK'
      BY <1>5, <2>2, <2>3, <3>2 DEF DryRun, PlanInv, PlanTypeOK
    <3>4. PromotionIsWorthy' /\ CandidatesAreWorthy'
      BY <1>5, <3>2 DEF DryRun, PlanInv, PromotionIsWorthy, CandidatesAreWorthy
    <3> QED
      BY <2>1, <3>2, <3>3, <3>4 DEF PlanInv
  <2>5. CASE "preview" \notin saved
    BY <1>5, <2>1, <2>2, <2>3, <2>5
       DEF DryRun, PlanInv, PlanTypeOK, PromotableIsWorthy, PromotionIsWorthy, CandidatesAreWorthy
  <2> QED
    BY <2>4, <2>5
<1>6. ASSUME NEW id \in Plans, NEW given \in Preview, UpsertPlanPreview(id, given) PROVE PlanInv'
  BY <1>6, <1>0, SavedPreviewKeeps DEF UpsertPlanPreview
<1>7. ASSUME NEW id \in Plans, NEW state \in CandidateStates, NEW settled \in BOOLEAN,
             NEW ready \in BOOLEAN, UpsertCandidate(id, state, settled, ready)
      PROVE  PlanInv'
  <2>1. Torn' = Torn
    BY <1>7 DEF UpsertCandidate, Torn
  <2>2. QueuesAgree'
    BY <1>0, <1>7, <2>1, NoMoreTorn DEF UpsertCandidate
  <2>3. candidates[id] \in Candidate
    BY <1>7 DEF UpsertCandidate, PlanInv, PlanTypeOK
  <2> DEFINE moved == [candidates[id] EXCEPT !.state = state, !.settled = settled, !.ready = ready]
  <2>4. moved \in Candidate /\ moved.snapshot = candidates[id].snapshot
    BY <2>3 DEF Candidate
  <2>5. candidates' = [candidates EXCEPT ![id] = moved]
    BY <1>7, <2>3 DEF UpsertCandidate, PlanInv, PlanTypeOK, Candidate
  <2> HIDE DEF moved
  <2>6. candidates' \in [Plans -> Candidate \union {NoRecord}]
    BY <2>4, <2>5 DEF PlanInv, PlanTypeOK
  <2>7. CandidatesAreWorthy'
    BY <1>7, <2>4, <2>5, <2>3 DEF UpsertCandidate, PlanInv, PlanTypeOK, CandidatesAreWorthy
  <2> QED
    BY <1>7, <2>2, <2>6, <2>7
       DEF UpsertCandidate, PlanInv, PlanTypeOK, PromotableIsWorthy, PromotionIsWorthy
<1>8. CASE UNCHANGED planVars
  <2>1. Torn' = Torn
    BY <1>8 DEF planVars, Torn
  <2>2. QueuesAgree'
    BY <1>0, <1>8, <2>1, NoMoreTorn DEF planVars
  <2> QED
    BY <1>8, <2>2
       DEF planVars, PlanInv, PlanTypeOK, PromotableIsWorthy, PromotionIsWorthy, CandidatesAreWorthy
<1> QED
  BY <1>1, <1>2, <1>3, <1>4, <1>5, <1>6, <1>7, <1>8 DEF PlanNext

(* The types hold in every reachable state.                                *)
THEOREM PlansTyped == PlanSpec => []PlanTypeOK
<1>1. PlanInv => PlanTypeOK
  BY DEF PlanInv
<1> QED
  BY <1>1, PlanInitInv, PlanStepInv, PTL DEF PlanSpec

(* What waits for approval was acknowledged and unsettled when it was read *)
(* for promotion, whatever happened to the preview before it was saved.    *)
THEOREM ApprovalsAreEarned == PlanSpec => []ApprovalWasEarned
<1>1. PlanInv => ApprovalWasEarned
  <2> SUFFICES ASSUME PlanInv, NEW id \in Plans, candidates[id] # NoRecord
               PROVE  id \in worthy /\ PreviewInspection(candidates[id].snapshot) \in {"acknowledged", "blocked"}
    BY DEF ApprovalWasEarned
  <2>1. id \in worthy /\ Promotable(candidates[id].snapshot)
    BY DEF PlanInv, CandidatesAreWorthy
  <2>2. candidates[id].snapshot.state \in {"previewed", "blocked"}
    BY DEF PlanInv, PlanTypeOK, Candidate, Preview, PreviewStates
  <2> DEFINE r == candidates[id].snapshot
  <2>3. ~r.settled /\ r.acknowledged
    BY <2>1 DEF Promotable
  <2>4. PreviewInspection(r) \in {"acknowledged", "blocked"}
    <3>1. CASE r.state = "blocked"
      BY <2>3, <3>1 DEF PreviewInspection
    <3>2. CASE r.state = "previewed"
      BY <2>3, <3>2 DEF PreviewInspection
    <3> QED
      BY <2>2, <3>1, <3>2
  <2> QED
    BY <2>1, <2>4
<1> QED
  BY <1>1, PlanInitInv, PlanStepInv, PTL DEF PlanSpec

(* The preview store and the execution queue know the same plans, but for  *)
(* as many as saves of dry runs failed and were swallowed.                 *)
THEOREM StoresDifferByFaults == PlanSpec => []QueuesAgree
<1>1. PlanInv => QueuesAgree
  BY DEF PlanInv
<1> QED
  BY <1>1, PlanInitInv, PlanStepInv, PTL DEF PlanSpec

-----------------------------------------------------------------------------
(***************************************************************************)
(* Budgets.  How a call moves money between the totals of the reservation  *)
(* store: a reservation, or the set of those that lapse, changes its       *)
(* status, and its estimate goes from one total to the other.              *)
(***************************************************************************)
Stored(s) == s \in [Reservations -> Reservation \union {Missing}]
OnRecord(s, R) == R \subseteq Reservations /\ \A r \in R : s[r] \in Reservation

Total(s, kind) == EstimateSum(s, With(s, kind))
Spent(s) == ActualSum(s, With(s, "committed"))
Active(s) == Cardinality(With(s, "reserved"))

(* What the property says of the counters, the crashes and the totals.     *)
ErrOneWay(c, k, spent, released, expired, reserved, active) ==
  /\ c.committed <= spent
  /\ c.released <= released
  /\ c.expired >= expired
  /\ k = 0 => /\ c.committed = spent
              /\ c.released = released
              /\ c.expired = expired
              /\ c.reserved = reserved
              /\ c.active = active

Agree ==
  ErrOneWay(counters, crashes, Spent(store), Total(store, "released"), Total(store, "expired"),
            Total(store, "reserved"), Active(store))

BudgetInv == BudgetTypeOK /\ Agree

LEMMA ReservationFields ==
  \A x \in Reservation : /\ x.agent \in Agents /\ x.action \in Actions
                         /\ x.status \in {"reserved", "committed", "released", "expired"}
                         /\ x.estimate \in Nat /\ x.actual \in Nat /\ x.expires \in Nat /\ x # Missing
<1> SUFFICES ASSUME NEW x \in Reservation
             PROVE  /\ x.agent \in Agents /\ x.action \in Actions
                    /\ x.status \in {"reserved", "committed", "released", "expired"}
                    /\ x.estimate \in Nat /\ x.actual \in Nat /\ x.expires \in Nat /\ x # Missing
  OBVIOUS
<1>1. x.estimate \in Estimates /\ x.actual \in Actuals \union {0}
  BY DEF Reservation
<1>2. x # Missing
  BY MissingIsNoRecord
<1>3. Estimates \subseteq Nat /\ Actuals \union {0} \subseteq Nat
  BY AmountsAreCosts
<1>4. x.estimate \in Nat /\ x.actual \in Nat
  <2> DEFINE costs == Actuals \union {0}
  <2> HIDE DEF costs
  <2>1. x.actual \in costs /\ costs \subseteq Nat
    BY <1>1, <1>3 DEF costs
  <2> QED
    BY <1>1, <1>3, <2>1
<1> QED
  BY <1>2, <1>4 DEF Reservation

LEMMA WithRecorded ==
  ASSUME NEW s, Stored(s), NEW kind
  PROVE  OnRecord(s, With(s, kind)) /\ IsFiniteSet(With(s, kind))
<1>1. With(s, kind) \subseteq Reservations
  BY DEF With
<1> QED
  BY <1>1, ReservationsAreFinite, FS_Subset DEF With, OnRecord, Stored

LEMMA SumsNatural ==
  ASSUME NEW s, NEW R, OnRecord(s, R)
  PROVE  EstimateSum(s, R) \in Nat /\ ActualSum(s, R) \in Nat
<1>1. IsFiniteSet(R)
  BY ReservationsAreFinite, FS_Subset DEF OnRecord
<1>2. [r \in R |-> s[r].estimate] \in [R -> Nat] /\ [r \in R |-> s[r].actual] \in [R -> Nat]
  BY ReservationFields DEF OnRecord
<1> QED
  BY <1>1, <1>2, FunctionSumIsNatural DEF EstimateSum, ActualSum

LEMMA EstimatesAgree ==
  ASSUME NEW s, NEW z, NEW R, \A r \in R : z[r].estimate = s[r].estimate
  PROVE  EstimateSum(z, R) = EstimateSum(s, R)
<1>1. [r \in R |-> z[r].estimate] = [r \in R |-> s[r].estimate]
  OBVIOUS
<1> QED
  BY <1>1 DEF EstimateSum

LEMMA ActualsAgree ==
  ASSUME NEW s, NEW z, NEW R, \A r \in R : z[r].actual = s[r].actual
  PROVE  ActualSum(z, R) = ActualSum(s, R)
<1>1. [r \in R |-> z[r].actual] = [r \in R |-> s[r].actual]
  OBVIOUS
<1> QED
  BY <1>1 DEF ActualSum

SumsSplitAt(s, R, Q) ==
  /\ EstimateSum(s, R) = EstimateSum(s, Q) + EstimateSum(s, R \ Q)
  /\ ActualSum(s, R) = ActualSum(s, Q) + ActualSum(s, R \ Q)
  /\ EstimateSum(s, Q) \in Nat /\ EstimateSum(s, R \ Q) \in Nat
  /\ ActualSum(s, Q) \in Nat /\ ActualSum(s, R \ Q) \in Nat

LEMMA SumsSplit ==
  ASSUME NEW s, NEW R, OnRecord(s, R), NEW Q \in SUBSET R
  PROVE  SumsSplitAt(s, R, Q)
<1>1. IsFiniteSet(Q) /\ IsFiniteSet(R \ Q) /\ OnRecord(s, Q) /\ OnRecord(s, R \ Q)
  BY ReservationsAreFinite, FS_Subset DEF OnRecord
<1>2. \A r \in R : s[r].estimate \in Nat /\ s[r].actual \in Nat
  BY ReservationFields DEF OnRecord
<1>3. EstimateSum(s, R) = EstimateSum(s, Q) + EstimateSum(s, R \ Q)
  <2> DEFINE f == [r \in R |-> s[r].estimate]
             e == [r \in Q |-> s[r].estimate]
             d == [r \in R \ Q |-> s[r].estimate]
  <2>1. CutInTwo(f, e, d, Q, R \ Q)
    BY <1>2 DEF CutInTwo
  <2>2. EstimateSum(s, R) = SumFunction(f) /\ EstimateSum(s, Q) = SumFunction(e)
        /\ EstimateSum(s, R \ Q) = SumFunction(d)
    BY DEF EstimateSum
  <2> HIDE DEF f, e, d
  <2> QED
    BY <1>1, <2>1, <2>2, FunctionSumSplits
<1>4. ActualSum(s, R) = ActualSum(s, Q) + ActualSum(s, R \ Q)
  <2> DEFINE f == [r \in R |-> s[r].actual]
             e == [r \in Q |-> s[r].actual]
             d == [r \in R \ Q |-> s[r].actual]
  <2>1. CutInTwo(f, e, d, Q, R \ Q)
    BY <1>2 DEF CutInTwo
  <2>2. ActualSum(s, R) = SumFunction(f) /\ ActualSum(s, Q) = SumFunction(e)
        /\ ActualSum(s, R \ Q) = SumFunction(d)
    BY DEF ActualSum
  <2> HIDE DEF f, e, d
  <2> QED
    BY <1>1, <2>1, <2>2, FunctionSumSplits
<1> QED
  BY <1>1, <1>3, <1>4, SumsNatural DEF SumsSplitAt

LEMMA SumsOfOne ==
  ASSUME NEW s, NEW r, OnRecord(s, {r})
  PROVE  EstimateSum(s, {r}) = s[r].estimate /\ ActualSum(s, {r}) = s[r].actual
<1> DEFINE e == [q \in {r} |-> s[q].estimate]
           a == [q \in {r} |-> s[q].actual]
<1>1. e \in [{r} -> Nat] /\ a \in [{r} -> Nat] /\ e[r] = s[r].estimate /\ a[r] = s[r].actual
  BY ReservationFields DEF OnRecord
<1>2. EstimateSum(s, {r}) = SumFunction(e) /\ ActualSum(s, {r}) = SumFunction(a)
  BY DEF EstimateSum, ActualSum
<1> HIDE DEF e, a
<1> QED
  BY <1>1, <1>2, FunctionSumOfOne

(* The reservations R go from one status to another, in the store s that   *)
(* becomes z.                                                              *)
StatusChanges(s, z, R, from, to) ==
  /\ Stored(s) /\ Stored(z) /\ R \subseteq With(s, from) /\ from # to
  /\ \A r \in R : z[r] \in Reservation /\ z[r].status = to /\ z[r].estimate = s[r].estimate
  /\ \A r \in Reservations \ R : z[r] = s[r]

LEMMA MovedSets ==
  ASSUME NEW s, NEW z, NEW R, NEW from, NEW to, StatusChanges(s, z, R, from, to)
  PROVE  /\ With(z, from) = With(s, from) \ R
         /\ With(z, to) = With(s, to) \union R /\ With(s, to) \intersect R = {}
         /\ \A kind : kind # from /\ kind # to => With(z, kind) = With(s, kind)
<1> USE ReservationFields DEF StatusChanges, With, Stored
<1>1. With(z, from) = With(s, from) \ R
  OBVIOUS
<1>2. With(z, to) = With(s, to) \union R /\ With(s, to) \intersect R = {}
  OBVIOUS
<1>3. ASSUME NEW kind, kind # from, kind # to PROVE With(z, kind) = With(s, kind)
  BY <1>3
<1> QED
  BY <1>1, <1>2, <1>3

LEMMA MovedSums ==
  ASSUME NEW s, NEW z, NEW R, NEW from, NEW to, StatusChanges(s, z, R, from, to)
  PROVE  /\ Total(s, from) = Total(z, from) + EstimateSum(s, R)
         /\ Total(z, to) = Total(s, to) + EstimateSum(s, R)
         /\ \A kind : kind # from /\ kind # to => Total(z, kind) = Total(s, kind)
         /\ \A kind : Total(s, kind) \in Nat /\ Total(z, kind) \in Nat
         /\ EstimateSum(s, R) \in Nat
<1>1. Stored(s) /\ Stored(z)
  BY DEF StatusChanges
<1>2. \A kind : OnRecord(s, With(s, kind)) /\ OnRecord(z, With(z, kind))
  BY <1>1, WithRecorded
<1>3. \A kind : Total(s, kind) \in Nat /\ Total(z, kind) \in Nat
  BY <1>2, SumsNatural DEF Total
<1>4. \A kind : \A r \in With(s, kind) : r \in Reservations
  BY DEF With
<1>5. Total(s, from) = Total(z, from) + EstimateSum(s, R) /\ EstimateSum(s, R) \in Nat
  <2>1. /\ EstimateSum(s, With(s, from)) = EstimateSum(s, R) + EstimateSum(s, With(s, from) \ R)
        /\ EstimateSum(s, R) \in Nat /\ EstimateSum(s, With(s, from) \ R) \in Nat
    <3>1. R \in SUBSET With(s, from)
      BY DEF StatusChanges
    <3>2. SumsSplitAt(s, With(s, from), R)
      BY <1>2, <3>1, SumsSplit
    <3> QED
      BY <3>2 DEF SumsSplitAt
  <2>2. \A r \in With(s, from) \ R : z[r].estimate = s[r].estimate
    BY <1>4 DEF StatusChanges
  <2>3. EstimateSum(z, With(s, from) \ R) = EstimateSum(s, With(s, from) \ R)
    BY <2>2, EstimatesAgree
  <2>4. With(z, from) = With(s, from) \ R
    BY MovedSets
  <2>5. Total(z, from) = EstimateSum(s, With(s, from) \ R)
    BY <2>3, <2>4 DEF Total
  <2> QED
    BY <2>1, <2>5 DEF Total
<1>6. Total(z, to) = Total(s, to) + EstimateSum(s, R)
  <2>1. With(z, to) = With(s, to) \union R /\ With(s, to) \intersect R = {}
    BY MovedSets
  <2>2. R \in SUBSET With(z, to) /\ With(z, to) \ R = With(s, to)
    BY <2>1
  <2>3. EstimateSum(z, With(z, to)) = EstimateSum(z, R) + EstimateSum(z, With(z, to) \ R)
    <3>1. SumsSplitAt(z, With(z, to), R)
      BY <1>2, <2>2, SumsSplit
    <3> QED
      BY <3>1 DEF SumsSplitAt
  <2>4. \A r \in With(s, to) : z[r].estimate = s[r].estimate
    BY <1>4, <2>1 DEF StatusChanges
  <2>5. EstimateSum(z, With(s, to)) = EstimateSum(s, With(s, to))
    BY <2>4, EstimatesAgree
  <2>6. \A r \in R : z[r].estimate = s[r].estimate
    BY DEF StatusChanges
  <2>7. EstimateSum(z, R) = EstimateSum(s, R)
    BY <2>6, EstimatesAgree
  <2>8. EstimateSum(z, With(z, to) \ R) = EstimateSum(s, With(s, to))
    BY <2>2, <2>5
  <2>9. EstimateSum(s, With(s, to)) \in Nat /\ EstimateSum(s, R) \in Nat
    BY <1>2, <1>5, SumsNatural
  <2> QED
    BY <2>3, <2>7, <2>8, <2>9 DEF Total
<1>7. ASSUME NEW kind, kind # from, kind # to PROVE Total(z, kind) = Total(s, kind)
  <2>1. With(z, kind) = With(s, kind)
    BY <1>7, MovedSets
  <2>2. \A r \in With(s, kind) : r \notin R
    BY <1>7 DEF StatusChanges, With
  <2>3. \A r \in With(s, kind) : z[r].estimate = s[r].estimate
    BY <1>4, <2>2 DEF StatusChanges
  <2>4. EstimateSum(z, With(s, kind)) = EstimateSum(s, With(s, kind))
    BY <2>3, EstimatesAgree
  <2> QED
    BY <2>1, <2>4 DEF Total
<1> QED
  BY <1>3, <1>5, <1>6, <1>7

(* What has been spent changes by a commit only.                           *)
LEMMA SpentIsNatural ==
  ASSUME NEW s, Stored(s)
  PROVE  Spent(s) \in Nat /\ Active(s) \in Nat
BY WithRecorded, SumsNatural, FS_CardinalityType DEF Spent, Active

LEMMA SpentStays ==
  ASSUME NEW s, NEW z, NEW R, NEW from, NEW to, StatusChanges(s, z, R, from, to),
         from # "committed", to # "committed"
  PROVE  Spent(z) = Spent(s)
<1>1. With(z, "committed") = With(s, "committed")
  BY MovedSets
<1>2. \A r \in With(s, "committed") : r \in Reservations /\ r \notin R
  BY DEF StatusChanges, With
<1>3. \A r \in With(s, "committed") : z[r].actual = s[r].actual
  BY <1>2 DEF StatusChanges
<1>4. ActualSum(z, With(s, "committed")) = ActualSum(s, With(s, "committed"))
  BY <1>3, ActualsAgree
<1> QED
  BY <1>1, <1>4 DEF Spent

LEMMA SpentGrows ==
  ASSUME NEW s, NEW z, NEW r, StatusChanges(s, z, {r}, "reserved", "committed")
  PROVE  Spent(z) = Spent(s) + z[r].actual
<1>1. With(z, "committed") = With(s, "committed") \union {r} /\ With(s, "committed") \intersect {r} = {}
  BY MovedSets
<1>2. OnRecord(z, With(z, "committed")) /\ OnRecord(s, With(s, "committed"))
  BY WithRecorded DEF StatusChanges
<1>3. {r} \in SUBSET With(z, "committed") /\ With(z, "committed") \ {r} = With(s, "committed")
  BY <1>1
<1>4. /\ ActualSum(z, With(z, "committed")) = ActualSum(z, {r}) + ActualSum(z, With(z, "committed") \ {r})
      /\ ActualSum(z, {r}) \in Nat /\ ActualSum(z, With(z, "committed") \ {r}) \in Nat
  <2>1. SumsSplitAt(z, With(z, "committed"), {r})
    BY <1>2, <1>3, SumsSplit
  <2> QED
    BY <2>1 DEF SumsSplitAt
<1>5. OnRecord(z, {r})
  BY <1>2, <1>3 DEF OnRecord
<1>6. ActualSum(z, {r}) = z[r].actual
  BY <1>5, SumsOfOne
<1>7. \A q \in With(s, "committed") : z[q].actual = s[q].actual
  <2>1. \A q \in With(s, "committed") : q \in Reservations /\ q \notin {r}
    BY <1>1 DEF With
  <2> QED
    BY <2>1 DEF StatusChanges
<1>8. ActualSum(z, With(s, "committed")) = ActualSum(s, With(s, "committed"))
  BY <1>7, ActualsAgree
<1>9. ActualSum(z, With(z, "committed") \ {r}) = ActualSum(s, With(s, "committed"))
  BY <1>3, <1>8
<1> QED
  BY <1>4, <1>6, <1>9 DEF Spent

LEMMA ActiveShrinks ==
  ASSUME NEW s, NEW z, NEW R, NEW to, StatusChanges(s, z, R, "reserved", to)
  PROVE  /\ IsFiniteSet(R) /\ Cardinality(R) \in Nat
         /\ Active(z) \in Nat /\ Active(s) = Active(z) + Cardinality(R)
<1>1. IsFiniteSet(With(s, "reserved")) /\ R \in SUBSET With(s, "reserved") /\ Stored(z)
  BY WithRecorded DEF StatusChanges
<1>2. IsFiniteSet(R) /\ With(s, "reserved") \intersect R = R
  BY <1>1, FS_Subset
<1>3. With(z, "reserved") = With(s, "reserved") \ R
  BY MovedSets
<1>4. Cardinality(With(s, "reserved") \ R)
        = Cardinality(With(s, "reserved")) - Cardinality(With(s, "reserved") \intersect R)
  BY <1>1, FS_Difference
<1>5. Cardinality(R) \in Nat /\ Cardinality(With(s, "reserved")) \in Nat /\ Active(z) \in Nat
  BY <1>1, <1>2, FS_CardinalityType, SpentIsNatural
<1>6. Active(z) = Cardinality(With(s, "reserved")) - Cardinality(R)
  BY <1>2, <1>3, <1>4 DEF Active
<1> QED
  BY <1>2, <1>5, <1>6 DEF Active

(* A reservation is made: its estimate is added to what is reserved, and   *)
(* to what its agent has reserved.                                         *)
Made(s, z, r) ==
  /\ Stored(s) /\ Stored(z) /\ r \in Reservations /\ s[r] = Missing
  /\ z[r] \in Reservation /\ z[r].status = "reserved"
  /\ \A q \in Reservations \ {r} : z[q] = s[q]

Own(s, a) == EstimateSum(s, OfAgent(s, a) \intersect With(s, "reserved"))

LEMMA OneMoreEstimate ==
  ASSUME NEW s, NEW z, NEW r, Made(s, z, r), NEW R, OnRecord(s, R), r \notin R
  PROVE  EstimateSum(z, R \union {r}) = EstimateSum(s, R) + z[r].estimate /\ EstimateSum(z, R) = EstimateSum(s, R)
<1>1. OnRecord(z, R \union {r}) /\ OnRecord(z, {r})
  BY DEF Made, OnRecord
<1> DEFINE all == R \union {r}
<1>2. {r} \in SUBSET all /\ all \ {r} = R
  OBVIOUS
<1>3. EstimateSum(z, all) = EstimateSum(z, {r}) + EstimateSum(z, all \ {r})
  <2> HIDE DEF all
  <2>1. OnRecord(z, all)
    BY <1>1 DEF all
  <2>2. SumsSplitAt(z, all, {r})
    BY <1>2, <2>1, SumsSplit
  <2> QED
    BY <2>2 DEF SumsSplitAt
<1>4. EstimateSum(z, {r}) = z[r].estimate
  BY <1>1, SumsOfOne
<1>5. \A q \in R : z[q].estimate = s[q].estimate
  BY DEF Made, OnRecord
<1>6. EstimateSum(z, R) = EstimateSum(s, R)
  BY <1>5, EstimatesAgree
<1>7. EstimateSum(s, R) \in Nat /\ z[r].estimate \in Nat
  BY SumsNatural, ReservationFields DEF Made
<1>8. EstimateSum(z, R \union {r}) = z[r].estimate + EstimateSum(s, R)
  BY <1>2, <1>3, <1>4, <1>6
<1> QED
  BY <1>6, <1>7, <1>8

LEMMA MadeSums ==
  ASSUME NEW s, NEW z, NEW r, Made(s, z, r)
  PROVE  /\ Total(z, "reserved") = Total(s, "reserved") + z[r].estimate
         /\ \A kind : kind # "reserved" => Total(z, kind) = Total(s, kind)
         /\ Spent(z) = Spent(s)
         /\ Active(z) = Active(s) + 1
         /\ \A a : Own(z, a) = Own(s, a) + (IF a = z[r].agent THEN z[r].estimate ELSE 0)
<1> USE DEF Made
<1>1. /\ With(z, "reserved") = With(s, "reserved") \union {r} /\ r \notin With(s, "reserved")
      /\ \A kind : kind # "reserved" => With(z, kind) = With(s, kind)
  BY ReservationFields DEF With
<1>2. \A kind : OnRecord(s, With(s, kind)) /\ r \notin With(s, kind)
  <2>1. \A kind : OnRecord(s, With(s, kind))
    BY WithRecorded
  <2> QED
    BY <2>1 DEF With
<1>3. Total(z, "reserved") = Total(s, "reserved") + z[r].estimate
  BY <1>1, <1>2, OneMoreEstimate DEF Total
<1>4. ASSUME NEW kind, kind # "reserved" PROVE Total(z, kind) = Total(s, kind)
  <2>1. \A q \in With(s, kind) : z[q].estimate = s[q].estimate
    BY <1>2 DEF OnRecord
  <2>2. EstimateSum(z, With(s, kind)) = EstimateSum(s, With(s, kind))
    BY <2>1, EstimatesAgree
  <2> QED
    BY <1>1, <1>4, <2>2 DEF Total
<1>5. Spent(z) = Spent(s)
  <2>1. \A q \in With(s, "committed") : z[q].actual = s[q].actual
    BY <1>2 DEF OnRecord
  <2>2. With(z, "committed") = With(s, "committed")
    BY <1>1
  <2> QED
    BY <2>1, <2>2, ActualsAgree DEF Spent
<1>6. Active(z) = Active(s) + 1
  <2>1. IsFiniteSet(With(s, "reserved"))
    BY WithRecorded
  <2> QED
    BY <1>1, <2>1, FS_AddElement DEF Active
<1>7. ASSUME NEW a PROVE Own(z, a) = Own(s, a) + (IF a = z[r].agent THEN z[r].estimate ELSE 0)
  <2> DEFINE R == OfAgent(s, a) \intersect With(s, "reserved")
  <2>1. OnRecord(s, R) /\ r \notin R
    BY <1>2 DEF OnRecord
  <2>2. EstimateSum(z, R \union {r}) = EstimateSum(s, R) + z[r].estimate /\ EstimateSum(z, R) = EstimateSum(s, R)
        /\ EstimateSum(s, R) \in Nat
    <3> HIDE DEF R
    <3> QED
      BY <2>1, OneMoreEstimate, SumsNatural
  <2>3. CASE a = z[r].agent
    <3>1. OfAgent(z, a) \intersect With(z, "reserved") = R \union {r}
      BY <1>1, <2>3, ReservationFields DEF OfAgent
    <3> QED
      BY <2>2, <2>3, <3>1 DEF Own
  <2>4. CASE a # z[r].agent
    <3>1. OfAgent(z, a) \intersect With(z, "reserved") = R
      BY <1>1, <2>4, ReservationFields DEF OfAgent
    <3> QED
      BY <2>2, <2>4, <3>1 DEF Own
  <2> QED
    BY <2>3, <2>4
<1> QED
  BY <1>3, <1>4, <1>5, <1>6, <1>7

(* Nobody has more reserved when reservations end.                         *)
LEMMA OwnShrinks ==
  ASSUME NEW s, NEW z, NEW R, NEW to, StatusChanges(s, z, R, "reserved", to), NEW a
  PROVE  Own(z, a) <= Own(s, a) /\ Own(z, a) \in Nat /\ Own(s, a) \in Nat
<1> DEFINE X == OfAgent(s, a) \intersect With(s, "reserved")
           Y == X \intersect R
<1>1. OnRecord(s, X)
  <2>1. OnRecord(s, With(s, "reserved"))
    BY WithRecorded DEF StatusChanges
  <2> QED
    BY <2>1 DEF OnRecord
<1>2. OfAgent(z, a) \intersect With(z, "reserved") = X \ Y
  <2>1. With(z, "reserved") = With(s, "reserved") \ R
    BY MovedSets
  <2>2. \A r \in With(s, "reserved") \ R : z[r] = s[r]
    BY DEF StatusChanges, With
  <2> QED
    BY <2>1, <2>2 DEF OfAgent, With
<1>3. \A r \in X \ Y : z[r].estimate = s[r].estimate
  BY DEF StatusChanges, With
<1>4. Y \in SUBSET X /\ Own(s, a) = EstimateSum(s, X)
  BY DEF Own
<1> HIDE DEF X, Y
<1>5. EstimateSum(s, X) = EstimateSum(s, Y) + EstimateSum(s, X \ Y) /\ EstimateSum(s, Y) \in Nat
      /\ EstimateSum(s, X \ Y) \in Nat
  <2>1. SumsSplitAt(s, X, Y)
    BY <1>1, <1>4, SumsSplit
  <2> QED
    BY <2>1 DEF SumsSplitAt
<1>6. EstimateSum(z, X \ Y) = EstimateSum(s, X \ Y)
  BY <1>3, EstimatesAgree
<1>7. Own(z, a) = EstimateSum(s, X \ Y)
  BY <1>2, <1>6 DEF Own
<1> QED
  BY <1>4, <1>5, <1>7

LEMMA AuthorityTypes == AuthorityTypeOK /\ AuthorityStep => AuthorityTypeOK'
<1> SUFFICES ASSUME AuthorityTypeOK, AuthorityStep PROVE AuthorityTypeOK'
  OBVIOUS
<1> USE DEF AuthorityTypeOK, authorityQueue
<1>1. CASE Tick
  BY <1>1, ClockIsBounded DEF Tick
<1>2. ASSUME NEW a \in Agents, NEW state \in AgentStates, TransitionAgent(a, state) PROVE AuthorityTypeOK'
  BY <1>2 DEF TransitionAgent
<1>3. ASSUME NEW a \in Agents, NEW rollout \in {"active", "disabled"}, SetRollout(a, rollout)
      PROVE  AuthorityTypeOK'
  BY <1>3 DEF SetRollout
<1>4. ASSUME NEW a \in Agents, NEW flags \in FlagChoices, NEW lead \in BOOLEAN, SetStanding(a, flags, lead)
      PROVE  AuthorityTypeOK'
  BY <1>4, ChoicesAreFlags DEF SetStanding
<1>5. ASSUME NEW a \in Agents, NEW d \in Delegations, NEW action \in Actions, Delegate(d, a, {action}, 1)
      PROVE  AuthorityTypeOK'
  <2>1. clock + 1 \in Nat
    BY ClockIsBounded
  <2>2. [to |-> a, scopes |-> {action}, expires |-> clock + 1] \in Delegation
    BY <2>1 DEF Delegation
  <2> QED
    BY <1>5, <2>2 DEF Delegate
<1>6. ASSUME NEW state \in OrgStates, TransitionInstitution(state) PROVE AuthorityTypeOK'
  BY <1>6 DEF TransitionInstitution
<1>7. ASSUME NEW engaged \in BOOLEAN, SetKillSwitch(engaged) PROVE AuthorityTypeOK'
  BY <1>7 DEF SetKillSwitch
<1>8. ASSUME NEW d \in Delegations, RevokeDelegation(d) PROVE AuthorityTypeOK'
  BY <1>8 DEF RevokeDelegation
<1>9. ASSUME NEW p \in Approvals, RequestApproval(p) \/ \E s \in {"approved", "denied"} : DecideApproval(p, s)
      PROVE  AuthorityTypeOK'
  BY <1>9 DEF RequestApproval, DecideApproval
<1>10. ASSUME NEW a \in Agents,
              \/ \E state \in AgentStates : TransitionAgent(a, state)
              \/ \E rollout \in {"active", "disabled"} : SetRollout(a, rollout)
              \/ \E flags \in FlagChoices, lead \in BOOLEAN : SetStanding(a, flags, lead)
              \/ \E d \in Delegations, action \in Actions : Delegate(d, a, {action}, 1)
       PROVE  AuthorityTypeOK'
  <2> HIDE DEF AuthorityTypeOK
  <2> QED
    BY <1>2, <1>3, <1>4, <1>5, <1>10
<1> HIDE DEF AuthorityTypeOK
<1> QED
  BY <1>1, <1>6, <1>7, <1>8, <1>9, <1>10 DEF AuthorityStep

(* What a step does, as the two action properties say it.                  *)
WithinRunway ==
  store' # store => \A a \in Agents : Own(store', a) > Own(store, a) => Own(store', a) <= runway

ReservedByRight ==
  \A r \in Reservations :
    store[r] = Missing /\ store'[r] # Missing =>
      LET a == store'[r].agent
      IN /\ ~switch /\ institution \notin {"suspended", "dissolved"}
         /\ agents[a].lifecycle \notin {"quarantined", "decommissioned"}
         /\ agents[a].rollout = "active"
         /\ store'[r].action \in {"lead", "assign", "execute"}
              /\ standing[a].flags \intersect {"zero_authority", "remediation_only"} # {} =>
              \E d \in Delegations :
                /\ delegations[d] # Missing /\ delegations[d].to = a
                /\ store'[r].action \in delegations[d].scopes
                /\ delegations[d].expires > clock

BudgetKept == BudgetInv' /\ WithinRunway /\ ReservedByRight

Counters == [reserved : Int, committed : Nat, released : Nat, expired : Nat, active : Nat]

LEMMA BudgetTypes ==
  ASSUME BudgetTypeOK
  PROVE  /\ AuthorityTypeOK /\ Stored(store) /\ counters \in Counters /\ runway \in Int
         /\ crashes \in 0..MaxCrashes /\ crashes \in Nat
BY BudgetBounds DEF BudgetTypeOK, Stored, Counters

LEMMA BudgetTyped ==
  ASSUME AuthorityTypeOK', Stored(store'), counters' \in Counters, runway' \in Int,
         crashes' \in 0..MaxCrashes
  PROVE  BudgetTypeOK'
BY DEF BudgetTypeOK, Stored, Counters

LEMMA AuthorityStays == AuthorityTypeOK /\ UNCHANGED authorityVars => AuthorityTypeOK'
BY DEF AuthorityTypeOK, authorityVars, authorityQueue

(* The counters are saved with a call, or a crash leaves them behind.      *)
LEMMA Booked ==
  ASSUME crashes \in 0..MaxCrashes, NEW c, Book(c)
  PROVE  \/ counters' = c /\ crashes' = crashes
         \/ counters' = counters /\ crashes' \in 1..MaxCrashes
BY BudgetBounds DEF Book

(* A step that leaves the store alone.                                     *)
LEMMA StoreUntouched ==
  ASSUME store' = store
  PROVE  WithinRunway /\ ReservedByRight
BY DEF WithinRunway, ReservedByRight

(* A step that ends reservations.                                          *)
LEMMA NobodyReserves ==
  ASSUME NEW R, NEW to, StatusChanges(store, store', R, "reserved", to)
  PROVE  WithinRunway /\ ReservedByRight
<1>1. \A a \in Agents : ~(Own(store', a) > Own(store, a))
  <2> SUFFICES ASSUME NEW a \in Agents PROVE ~(Own(store', a) > Own(store, a))
    OBVIOUS
  <2>1. Own(store', a) <= Own(store, a) /\ Own(store', a) \in Nat /\ Own(store, a) \in Nat
    BY OwnShrinks
  <2> QED
    BY <2>1
<1>2. \A r \in Reservations : store[r] = Missing => store'[r] = Missing
  BY DEF StatusChanges, With
<1> QED
  BY <1>1, <1>2 DEF WithinRunway, ReservedByRight

(* A call or a sweep ends the reservations R: x was spent, y released and  *)
(* z expired, and the counters say so unless a crash came before them.     *)
BookedAs(c, R, x, y, z) ==
  c = [counters EXCEPT !.reserved = @ - EstimateSum(store, R), !.committed = @ + x,
                       !.released = @ + y, !.expired = @ + z, !.active = Lower(@, Cardinality(R))]

LEMMA BookedFields ==
  ASSUME counters \in Counters, NEW c, NEW R, EstimateSum(store, R) \in Nat, Cardinality(R) \in Nat,
         NEW x \in Nat, NEW y \in Nat, NEW z \in Nat, BookedAs(c, R, x, y, z)
  PROVE  /\ c \in Counters /\ c.reserved = counters.reserved - EstimateSum(store, R)
         /\ c.committed = counters.committed + x /\ c.released = counters.released + y
         /\ c.expired = counters.expired + z /\ c.active = Lower(counters.active, Cardinality(R))
<1> DEFINE e == EstimateSum(store, R)
           n == Cardinality(R)
<1>1. e \in Nat /\ n \in Nat /\ c = [counters EXCEPT !.reserved = @ - e, !.committed = @ + x,
                                       !.released = @ + y, !.expired = @ + z, !.active = Lower(@, n)]
  BY DEF BookedAs
<1> HIDE DEF e, n
<1>2. /\ counters.reserved - e \in Int /\ counters.committed + x \in Nat
      /\ counters.released + y \in Nat /\ counters.expired + z \in Nat
      /\ Lower(counters.active, n) \in Nat
  BY <1>1 DEF Counters, Lower
<1>3. /\ c \in Counters /\ c.reserved = counters.reserved - e
      /\ c.committed = counters.committed + x /\ c.released = counters.released + y
      /\ c.expired = counters.expired + z /\ c.active = Lower(counters.active, n)
  BY <1>1, <1>2 DEF Counters
<1> QED
  BY <1>3 DEF e, n

LEMMA Settled ==
  ASSUME BudgetInv, UNCHANGED <<authorityVars, runway>>,
         NEW R, NEW to, StatusChanges(store, store', R, "reserved", to),
         NEW x \in Nat, NEW y \in Nat, NEW z \in Nat,
         Spent(store') = Spent(store) + x,
         Total(store', "released") = Total(store, "released") + y,
         Total(store', "expired") = Total(store, "expired") + z,
         \/ BookedAs(counters', R, x, y, z) /\ crashes' = crashes
         \/ z = 0 /\ counters' = counters /\ crashes' \in 1..MaxCrashes
  PROVE  BudgetKept
<1>t. /\ AuthorityTypeOK /\ Stored(store) /\ counters \in Counters /\ runway \in Int
      /\ crashes \in 0..MaxCrashes /\ crashes \in Nat
  BY BudgetTypes DEF BudgetInv
<1>1. /\ Total(store, "reserved") = Total(store', "reserved") + EstimateSum(store, R)
      /\ EstimateSum(store, R) \in Nat
      /\ Total(store, "reserved") \in Nat /\ Total(store', "reserved") \in Nat
      /\ Total(store, "released") \in Nat /\ Total(store, "expired") \in Nat
  BY MovedSums
<1>2. Active(store) = Active(store') + Cardinality(R) /\ Active(store') \in Nat /\ Cardinality(R) \in Nat
  BY ActiveShrinks
<1>3. Spent(store) \in Nat
  BY <1>t, SpentIsNatural
<1>4. counters' \in Counters
  BY <1>t, <1>1, <1>2, BookedFields
<1>5. Stored(store') /\ crashes' \in 0..MaxCrashes
  BY <1>t, BudgetBounds DEF StatusChanges
<1>6. BudgetTypeOK'
  BY <1>t, <1>4, <1>5, AuthorityStays, BudgetTyped
<1>7. /\ counters.reserved \in Int /\ counters.committed \in Nat /\ counters.released \in Nat
      /\ counters.expired \in Nat /\ counters.active \in Nat
  BY <1>t DEF Counters
<1>8. Agree /\ counters.committed <= Spent(store) /\ counters.released <= Total(store, "released")
      /\ counters.expired >= Total(store, "expired")
  BY DEF BudgetInv, Agree, ErrOneWay
<1>9. CASE BookedAs(counters', R, x, y, z) /\ crashes' = crashes
  <2>1. /\ counters'.reserved = counters.reserved - EstimateSum(store, R)
        /\ counters'.committed = counters.committed + x /\ counters'.released = counters.released + y
        /\ counters'.expired = counters.expired + z
        /\ counters'.active = Lower(counters.active, Cardinality(R))
    BY <1>t, <1>1, <1>2, <1>9, BookedFields
  <2>2. /\ counters'.committed <= Spent(store') /\ counters'.released <= Total(store', "released")
        /\ counters'.expired >= Total(store', "expired")
    BY <1>1, <1>3, <1>7, <1>8, <2>1
  <2>3. ASSUME crashes' = 0
        PROVE  /\ counters'.committed = Spent(store') /\ counters'.released = Total(store', "released")
               /\ counters'.expired = Total(store', "expired")
               /\ counters'.reserved = Total(store', "reserved") /\ counters'.active = Active(store')
    <3>1. /\ counters.committed = Spent(store) /\ counters.released = Total(store, "released")
          /\ counters.expired = Total(store, "expired")
          /\ counters.reserved = Total(store, "reserved") /\ counters.active = Active(store)
      BY <1>8, <1>9, <2>3 DEF Agree, ErrOneWay
    <3>2. Lower(Active(store), Cardinality(R)) = Active(store')
      BY <1>2 DEF Lower
    <3> QED
      BY <1>1, <1>3, <1>7, <2>1, <3>1, <3>2
  <2> QED
    BY <1>6, <2>2, <2>3, NobodyReserves DEF Agree, ErrOneWay, BudgetKept, BudgetInv
<1>10. CASE z = 0 /\ counters' = counters /\ crashes' \in 1..MaxCrashes
  <2>1. /\ counters'.committed <= Spent(store') /\ counters'.released <= Total(store', "released")
        /\ counters'.expired >= Total(store', "expired") /\ crashes' # 0
    BY <1>1, <1>3, <1>7, <1>8, <1>10
  <2> QED
    BY <1>6, <2>1, NobodyReserves DEF Agree, ErrOneWay, BudgetKept, BudgetInv
<1> QED
  BY <1>9, <1>10

(* One reservation ends.                                                   *)
LEMMA OneEnds ==
  ASSUME BudgetInv, NEW r \in With(store, "reserved"), NEW to \in {"committed", "released"},
         NEW actual \in Actuals \union {0},
         NEW after, after \in Reservation, after.status = to, after.estimate = store[r].estimate,
         store' = [store EXCEPT ![r] = after]
  PROVE  /\ StatusChanges(store, store', {r}, "reserved", to)
         /\ EstimateSum(store, {r}) = store[r].estimate /\ store[r].estimate \in Nat
         /\ Cardinality({r}) = 1 /\ store'[r] = after
<1>1. Stored(store)
  BY BudgetTypes DEF BudgetInv
<1>2. r \in Reservations /\ store[r] \in Reservation
  BY <1>1 DEF With, Stored
<1>3. Stored(store') /\ store'[r] = after /\ \A q \in Reservations \ {r} : store'[q] = store[q]
  BY <1>1, <1>2 DEF Stored
<1>4. StatusChanges(store, store', {r}, "reserved", to)
  BY <1>1, <1>3 DEF StatusChanges
<1>5. EstimateSum(store, {r}) = store[r].estimate
  BY <1>2, SumsOfOne DEF OnRecord
<1> QED
  BY <1>2, <1>3, <1>4, <1>5, FS_Singleton, ReservationFields

LEMMA CommitKeeps ==
  ASSUME BudgetInv, NEW r \in Reservations, NEW actual \in Actuals, Commit(r, actual)
  PROVE  BudgetKept
<1> DEFINE after == [store[r] EXCEPT !.status = "committed", !.actual = actual]
           c == [counters EXCEPT !.reserved = @ - store[r].estimate, !.committed = @ + actual,
                                 !.active = Lower(@, 1)]
<1>t. Stored(store) /\ counters \in Counters /\ crashes \in 0..MaxCrashes
  BY BudgetTypes DEF BudgetInv
<1>1. r \in With(store, "reserved") /\ Book(c) /\ UNCHANGED <<authorityVars, runway>>
  BY DEF Commit
<1>2. store[r] \in Reservation
  BY <1>t, <1>1 DEF With, Stored
<1>3. store' = [store EXCEPT ![r] = after]
  BY <1>t DEF Commit, Stored
<1>4. /\ after \in Reservation /\ after.status = "committed" /\ after.estimate = store[r].estimate
      /\ after.actual = actual
  BY <1>2 DEF Reservation
<1> HIDE DEF after
<1>5. /\ StatusChanges(store, store', {r}, "reserved", "committed")
      /\ EstimateSum(store, {r}) = store[r].estimate /\ store[r].estimate \in Nat
      /\ Cardinality({r}) = 1 /\ store'[r] = after
  BY <1>1, <1>3, <1>4, OneEnds
<1>6. actual \in Nat /\ 0 \in Nat
  BY AmountsAreCosts
<1>7. Spent(store') = Spent(store) + actual
  BY <1>4, <1>5, SpentGrows
<1>8. /\ Total(store', "released") = Total(store, "released") + 0
      /\ Total(store', "expired") = Total(store, "expired") + 0
  BY <1>5, MovedSums
<1>9. \/ BookedAs(counters', {r}, actual, 0, 0) /\ crashes' = crashes
      \/ counters' = counters /\ crashes' \in 1..MaxCrashes
  <2>1. ASSUME counters' = c PROVE BookedAs(counters', {r}, actual, 0, 0)
    <3>1. \A n \in Nat : n + 0 = n
      OBVIOUS
    <3>2. c = [counters EXCEPT !.reserved = @ - store[r].estimate, !.committed = @ + actual,
                               !.released = @ + 0, !.expired = @ + 0, !.active = Lower(@, 1)]
      BY <1>t, <3>1 DEF Counters
    <3> HIDE DEF c
    <3> QED
      BY <1>5, <2>1, <3>2 DEF BookedAs
  <2> HIDE DEF c
  <2> QED
    BY <1>t, <1>1, <2>1, Booked
<1> QED
  BY <1>1, <1>5, <1>6, <1>7, <1>8, <1>9, Settled

LEMMA ReleaseKeeps ==
  ASSUME BudgetInv, NEW r \in Reservations, Release(r)
  PROVE  BudgetKept
<1> DEFINE after == [store[r] EXCEPT !.status = "released"]
           c == [counters EXCEPT !.reserved = @ - store[r].estimate, !.released = @ + store[r].estimate,
                                 !.active = Lower(@, 1)]
<1>t. Stored(store) /\ counters \in Counters /\ crashes \in 0..MaxCrashes
  BY BudgetTypes DEF BudgetInv
<1>1. r \in With(store, "reserved") /\ Book(c) /\ UNCHANGED <<authorityVars, runway>>
  BY DEF Release
<1>2. store[r] \in Reservation
  BY <1>t, <1>1 DEF With, Stored
<1>3. store' = [store EXCEPT ![r] = after]
  BY <1>t DEF Release, Stored
<1>4. after \in Reservation /\ after.status = "released" /\ after.estimate = store[r].estimate
  BY <1>2 DEF Reservation
<1> HIDE DEF after
<1>5. /\ StatusChanges(store, store', {r}, "reserved", "released")
      /\ EstimateSum(store, {r}) = store[r].estimate /\ store[r].estimate \in Nat
      /\ Cardinality({r}) = 1
  BY <1>1, <1>3, <1>4, OneEnds
<1>6. Spent(store) \in Nat /\ 0 \in Nat
  BY <1>t, SpentIsNatural
<1>7. Spent(store') = Spent(store) + 0
  BY <1>5, <1>6, SpentStays
<1>8. /\ Total(store', "released") = Total(store, "released") + store[r].estimate
      /\ Total(store', "expired") = Total(store, "expired") + 0
  BY <1>5, MovedSums
<1>9. \/ BookedAs(counters', {r}, 0, store[r].estimate, 0) /\ crashes' = crashes
      \/ counters' = counters /\ crashes' \in 1..MaxCrashes
  <2>1. ASSUME counters' = c PROVE BookedAs(counters', {r}, 0, store[r].estimate, 0)
    <3>1. \A n \in Nat : n + 0 = n
      OBVIOUS
    <3>2. c = [counters EXCEPT !.reserved = @ - store[r].estimate, !.committed = @ + 0,
                               !.released = @ + store[r].estimate, !.expired = @ + 0,
                               !.active = Lower(@, 1)]
      BY <1>t, <3>1 DEF Counters
    <3> HIDE DEF c
    <3> QED
      BY <1>5, <2>1, <3>2 DEF BookedAs
  <2> HIDE DEF c
  <2> QED
    BY <1>t, <1>1, <2>1, Booked
<1> QED
  BY <1>1, <1>5, <1>6, <1>7, <1>8, <1>9, Settled

LEMMA LapsedRecorded ==
  ASSUME BudgetInv, NEW R, R \subseteq Lapsed(store)
  PROVE  /\ OnRecord(store, R) /\ R \subseteq With(store, "reserved")
         /\ EstimateSum(store, R) \in Nat /\ IsFiniteSet(R) /\ Cardinality(R) \in Nat
<1>1. OnRecord(store, With(store, "reserved")) /\ IsFiniteSet(With(store, "reserved"))
  BY BudgetTypes, WithRecorded DEF BudgetInv
<1>2. R \subseteq With(store, "reserved")
  BY DEF Lapsed
<1>3. OnRecord(store, R)
  BY <1>1, <1>2 DEF OnRecord
<1> QED
  BY <1>1, <1>2, <1>3, SumsNatural, FS_Subset, FS_CardinalityType

LEMMA SweepKeeps ==
  ASSUME BudgetInv, Sweep
  PROVE  BudgetKept
<1> DEFINE R == Lapsed(store)
<1>t. Stored(store) /\ counters \in Counters /\ crashes \in 0..MaxCrashes
  BY BudgetTypes DEF BudgetInv
<1>1. store' = Swept(store) /\ counters' = SweptCounters(R) /\ UNCHANGED <<authorityVars, runway, crashes>>
  BY DEF Sweep
<1>2. /\ OnRecord(store, R) /\ R \subseteq With(store, "reserved")
      /\ EstimateSum(store, R) \in Nat /\ IsFiniteSet(R) /\ Cardinality(R) \in Nat
  <2>1. R \subseteq Lapsed(store)
    OBVIOUS
  <2> HIDE DEF R
  <2> QED
    BY <2>1, LapsedRecorded
<1>3. \A r \in R : /\ store[r] \in Reservation /\ store'[r] = [store[r] EXCEPT !.status = "expired"]
  BY <1>1, <1>2 DEF OnRecord, Swept
<1>4. \A r \in R : /\ store'[r] \in Reservation /\ store'[r].status = "expired"
                   /\ store'[r].estimate = store[r].estimate
  BY <1>3 DEF Reservation
<1>5. \A r \in Reservations \ R : store'[r] = store[r]
  BY <1>1 DEF Swept
<1>6. Stored(store')
  <2>1. store' = [r \in Reservations |-> store'[r]]
    BY <1>1 DEF Swept
  <2> QED
    BY <1>t, <1>4, <1>5, <2>1 DEF Stored
<1>7. StatusChanges(store, store', R, "reserved", "expired")
  BY <1>t, <1>2, <1>4, <1>5, <1>6 DEF StatusChanges
<1> HIDE DEF R
<1>8. Spent(store) \in Nat /\ 0 \in Nat
  BY <1>t, SpentIsNatural
<1>9. Spent(store') = Spent(store) + 0
  BY <1>7, <1>8, SpentStays
<1>10. /\ Total(store', "released") = Total(store, "released") + 0
       /\ Total(store', "expired") = Total(store, "expired") + EstimateSum(store, R)
  BY <1>7, MovedSums
<1>11. BookedAs(counters', R, 0, 0, EstimateSum(store, R)) /\ crashes' = crashes
  <2>1. \A n \in Nat : n + 0 = n
    OBVIOUS
  <2> DEFINE e == EstimateSum(store, R)
             n == Cardinality(R)
  <2>2. SweptCounters(R) = [counters EXCEPT !.reserved = @ - e, !.expired = @ + e, !.active = Lower(@, n)]
    BY DEF SweptCounters
  <2> HIDE DEF e, n
  <2>3. SweptCounters(R) = [counters EXCEPT !.reserved = @ - e, !.committed = @ + 0, !.released = @ + 0,
                                            !.expired = @ + e, !.active = Lower(@, n)]
    BY <1>t, <2>1, <2>2 DEF Counters
  <2> QED
    BY <1>1, <2>3 DEF BookedAs, e, n
<1> QED
  BY <1>1, <1>2, <1>7, <1>8, <1>9, <1>10, <1>11, Settled

(* A crash while sweeping books what expired, and leaves it reserved.      *)
LEMMA SweepInterruptedKeeps ==
  ASSUME BudgetInv, SweepInterrupted
  PROVE  BudgetKept
<1>t. /\ AuthorityTypeOK /\ Stored(store) /\ counters \in Counters /\ runway \in Int
      /\ crashes \in 0..MaxCrashes /\ crashes \in Nat
  BY BudgetTypes DEF BudgetInv
<1>1. PICK R \in SUBSET Lapsed(store) : counters' = SweptCounters(R)
  BY DEF SweepInterrupted
<1>2. crashes' \in 1..MaxCrashes /\ UNCHANGED <<authorityVars, store, runway>>
  BY <1>t, BudgetBounds DEF SweepInterrupted
<1>3. EstimateSum(store, R) \in Nat /\ Cardinality(R) \in Nat
  BY LapsedRecorded
<1> DEFINE e == EstimateSum(store, R)
           n == Cardinality(R)
<1>4. counters' = [counters EXCEPT !.reserved = @ - e, !.expired = @ + e, !.active = Lower(@, n)]
  BY <1>1 DEF SweptCounters
<1>5. e \in Nat /\ n \in Nat
  BY <1>3
<1> HIDE DEF e, n
<1>6. counters.reserved - e \in Int /\ counters.expired + e \in Nat /\ Lower(counters.active, n) \in Nat
  BY <1>t, <1>5 DEF Counters, Lower
<1>7. /\ counters' \in Counters /\ counters'.committed = counters.committed
      /\ counters'.released = counters.released /\ counters'.expired = counters.expired + e
  BY <1>t, <1>4, <1>6 DEF Counters
<1>8. BudgetTypeOK'
  BY <1>t, <1>2, <1>7, AuthorityStays, BudgetTyped, BudgetBounds
<1>9. Agree'
  <2>1. /\ counters.committed <= Spent(store) /\ counters.released <= Total(store, "released")
        /\ counters.expired >= Total(store, "expired")
    BY DEF BudgetInv, Agree, ErrOneWay
  <2>2. Total(store, "expired") \in Nat /\ counters.expired \in Nat
    BY <1>t, WithRecorded, SumsNatural DEF Total, Counters
  <2>3. counters'.expired >= Total(store, "expired")
    BY <1>5, <1>7, <2>1, <2>2
  <2> QED
    BY <1>2, <1>7, <2>1, <2>3 DEF Agree, ErrOneWay
<1> QED
  BY <1>2, <1>8, <1>9, StoreUntouched DEF BudgetKept, BudgetInv

(* What an agent reserves fits in the runway, and it may spend at all.     *)
LEMMA ReserveKeeps ==
  ASSUME BudgetInv, NEW r \in Reservations, NEW a \in Agents, NEW action \in Actions, NEW cost \in Estimates,
         Reserve(r, a, action, cost)
  PROVE  BudgetKept
<1> DEFINE x == [agent |-> a, action |-> action, status |-> "reserved",
                 estimate |-> cost, actual |-> 0, expires |-> clock + Lease]
           c == [counters EXCEPT !.reserved = @ + cost, !.active = @ + 1]
<1>t. /\ AuthorityTypeOK /\ Stored(store) /\ counters \in Counters /\ runway \in Int
      /\ crashes \in 0..MaxCrashes /\ crashes \in Nat
  BY BudgetTypes DEF BudgetInv
<1>1. /\ store[r] = Missing /\ CheckAuthority(a, action) /\ CheckBudget(a, cost)
      /\ store' = [store EXCEPT ![r] = x] /\ Book(c) /\ UNCHANGED <<authorityVars, runway>>
  BY DEF Reserve
<1>2. cost \in Nat /\ clock + Lease \in Nat
  BY <1>t, AmountsAreCosts, ClockIsBounded, BudgetBounds DEF AuthorityTypeOK
<1>3. x \in Reservation /\ x.status = "reserved" /\ x.agent = a /\ x.estimate = cost /\ x.action = action
  BY <1>2 DEF Reservation
<1> HIDE DEF x
<1>4. Stored(store') /\ store'[r] = x /\ \A q \in Reservations \ {r} : store'[q] = store[q]
  BY <1>t, <1>1, <1>3 DEF Stored
<1>5. Made(store, store', r)
  BY <1>t, <1>1, <1>3, <1>4 DEF Made
<1>6. /\ Total(store', "reserved") = Total(store, "reserved") + cost
      /\ Total(store', "released") = Total(store, "released")
      /\ Total(store', "expired") = Total(store, "expired")
      /\ Spent(store') = Spent(store)
      /\ Active(store') = Active(store) + 1
      /\ Own(store', a) = Own(store, a) + cost
      /\ \A b : b # a => Own(store', b) = Own(store, b) + 0
  BY <1>3, <1>4, <1>5, MadeSums
<1>7. c \in Counters /\ c.reserved = counters.reserved + cost /\ c.committed = counters.committed
      /\ c.released = counters.released /\ c.expired = counters.expired /\ c.active = counters.active + 1
  <2>1. counters.reserved + cost \in Int /\ counters.active + 1 \in Nat
    BY <1>t, <1>2 DEF Counters
  <2> QED
    BY <1>t, <2>1 DEF Counters
<1> HIDE DEF c
<1>8. \/ counters' = c /\ crashes' = crashes
      \/ counters' = counters /\ crashes' \in 1..MaxCrashes
  BY <1>t, <1>1, Booked
<1>9. BudgetTypeOK'
  BY <1>t, <1>1, <1>4, <1>7, <1>8, AuthorityStays, BudgetBounds, BudgetTyped
<1>10. Agree'
  <2>1. Agree
    BY DEF BudgetInv
  <2>2. CASE counters' = c /\ crashes' = crashes
    BY <1>6, <1>7, <2>1, <2>2 DEF Agree, ErrOneWay
  <2>3. CASE counters' = counters /\ crashes' \in 1..MaxCrashes
    BY <1>6, <2>1, <2>3 DEF Agree, ErrOneWay
  <2> QED
    BY <1>8, <2>2, <2>3
<1>11. \A b : Own(store, b) \in Nat
  <2> SUFFICES ASSUME NEW b PROVE Own(store, b) \in Nat
    OBVIOUS
  <2>1. OnRecord(store, With(store, "reserved"))
    BY <1>t, WithRecorded
  <2>2. OnRecord(store, OfAgent(store, b) \intersect With(store, "reserved"))
    BY <2>1 DEF OnRecord
  <2> QED
    BY <2>2, SumsNatural DEF Own
<1>12. WithinRunway
  <2> SUFFICES ASSUME NEW b \in Agents, Own(store', b) > Own(store, b) PROVE Own(store', b) <= runway
    BY DEF WithinRunway
  <2>1. b = a /\ cost > 0
    BY <1>2, <1>6, <1>11
  <2>2. Available(a) >= cost /\ Available(a) = (IF runway - Own(store, a) < 0 THEN 0 ELSE runway - Own(store, a))
    BY <1>1 DEF CheckBudget, Available, Own
  <2> QED
    BY <1>t, <1>2, <1>6, <1>11, <2>1, <2>2
<1>13. ReservedByRight
  <2> SUFFICES /\ ~switch /\ institution \notin {"suspended", "dissolved"}
               /\ agents[a].lifecycle \notin {"quarantined", "decommissioned"}
               /\ agents[a].rollout = "active"
               /\ action \in {"lead", "assign", "execute"}
                    /\ standing[a].flags \intersect {"zero_authority", "remediation_only"} # {} =>
                    Delegated(a, action)
    <3>1. \A q \in Reservations : store[q] = Missing /\ store'[q] # Missing => q = r
      BY <1>4
    <3>2. store'[r].agent = a /\ store'[r].action = action
      BY <1>3, <1>4
    <3> QED
      BY <3>1, <3>2 DEF ReservedByRight, Delegated
  <2>1. ~Stopped(a) /\ (Delegated(a, action) \/ HasRights(a, action))
    BY <1>1 DEF CheckAuthority
  <2>2. agents[a].rollout = "active"
    BY <1>t, <1>1 DEF CheckBudget, AuthorityTypeOK
  <2>3. action \in {"lead", "assign", "execute"}
          /\ standing[a].flags \intersect {"zero_authority", "remediation_only"} # {} => ~HasRights(a, action)
    BY DEF HasRights, BlockingFlags, BlockedActions
  <2> QED
    BY <2>1, <2>2, <2>3 DEF Stopped
<1> QED
  BY <1>9, <1>10, <1>12, <1>13 DEF BudgetKept, BudgetInv

LEMMA BudgetInitInv == BudgetInit => BudgetInv
<1> SUFFICES ASSUME BudgetInit PROVE BudgetInv
  OBVIOUS
<1>1. AuthorityTypeOK
  <2>1. clock \in 0..MaxTime
    BY ClockIsBounded DEF BudgetInit, AuthorityInit
  <2>5. switch \in BOOLEAN
    BY DEF BudgetInit, AuthorityInit
  <2>2. agents \in [Agents -> [lifecycle : AgentStates, rollout : {"active", "quarantined", "disabled"}]]
    BY DEF BudgetInit, AuthorityInit, AgentStates
  <2>3. institution \in OrgStates /\ standing \in [Agents -> [flags : SUBSET Flags, lead : BOOLEAN]]
    BY DEF BudgetInit, AuthorityInit, OrgStates
  <2>4. /\ delegations \in [Delegations -> Delegation \union {Missing}]
        /\ approvals \in [Approvals -> {Missing, "pending", "approved", "denied"}]
    BY DEF BudgetInit, AuthorityInit
  <2> QED
    BY <2>1, <2>2, <2>3, <2>4, <2>5 DEF AuthorityTypeOK
<1>2. Stored(store) /\ BudgetTypeOK
  BY <1>1, RunwaysAreAmounts, BudgetBounds DEF BudgetInit, BudgetTypeOK, Stored
<1>3. \A kind : With(store, kind) = {}
  BY DEF BudgetInit, With
<1>4. EstimateSum(store, {}) = 0 /\ ActualSum(store, {}) = 0
  <2>1. \A f : SumFunctionOnSet(f, {}) = 0
    BY EmptySum
  <2>2. DOMAIN [r \in {} |-> store[r].estimate] = {} /\ DOMAIN [r \in {} |-> store[r].actual] = {}
    OBVIOUS
  <2> QED
    BY <2>1, <2>2 DEF EstimateSum, ActualSum, SumFunction
<1>5. Agree
  <2>1. \A kind : Total(store, kind) = 0
    BY <1>3, <1>4 DEF Total
  <2>2. Spent(store) = 0
    BY <1>3, <1>4 DEF Spent
  <2>3. Active(store) = 0
    BY <1>3, FS_EmptySet DEF Active
  <2> QED
    BY <2>1, <2>2, <2>3 DEF BudgetInit, Agree, ErrOneWay
<1> QED
  BY <1>2, <1>5 DEF BudgetInv

LEMMA BudgetStepInv == BudgetInv /\ [BudgetNext]_budgetVars => BudgetKept
<1> SUFFICES ASSUME BudgetInv, [BudgetNext]_budgetVars PROVE BudgetKept
  OBVIOUS
<1>t. /\ AuthorityTypeOK /\ Stored(store) /\ counters \in Counters /\ runway \in Int
      /\ crashes \in 0..MaxCrashes /\ Agree
  BY BudgetTypes DEF BudgetInv
<1>1. ASSUME UNCHANGED <<fileVars, crashes>>, AuthorityTypeOK', runway' \in Int PROVE BudgetKept
  <2>1. UNCHANGED <<store, counters, crashes>>
    BY <1>1 DEF fileVars
  <2>2. BudgetTypeOK'
    BY <1>t, <1>1, <2>1, BudgetTyped
  <2>3. Agree'
    BY <1>t, <2>1 DEF Agree
  <2> QED
    BY <2>1, <2>2, <2>3, StoreUntouched DEF BudgetKept, BudgetInv
<1>2. CASE UNCHANGED budgetVars
  BY <1>t, <1>1, <1>2, AuthorityStays DEF budgetVars
<1>3. CASE AuthorityStep /\ UNCHANGED <<fileVars, runway, crashes>>
  BY <1>t, <1>1, <1>3, AuthorityTypes
<1>4. ASSUME NEW amount \in RunwayChoices, MoveRunway(amount) PROVE BudgetKept
  BY <1>t, <1>1, <1>4, AuthorityStays, RunwaysAreAmounts DEF MoveRunway
<1>5. CASE BudgetStep
  BY <1>4, <1>5, SweepKeeps, SweepInterruptedKeeps, ReserveKeeps, CommitKeeps, ReleaseKeeps DEF BudgetStep
<1> QED
  BY <1>2, <1>3, <1>5 DEF BudgetNext

(* The store, the counters and the authority files keep their types.       *)
THEOREM BudgetsTyped == BudgetSpec => []BudgetTypeOK
<1>1. BudgetInv => BudgetTypeOK
  BY DEF BudgetInv
<1>2. BudgetInv /\ [BudgetNext]_budgetVars => BudgetInv'
  BY BudgetStepInv DEF BudgetKept
<1> QED
  BY <1>1, <1>2, BudgetInitInv, PTL DEF BudgetSpec

(* However often a call or a sweep is cut between its two files, what was  *)
(* committed or released is never counted twice and what expired is never  *)
(* missing, and without a crash every total is exact.                      *)
THEOREM CrashesErrOneWay == BudgetSpec => []CountersErrOneWay
<1>1. BudgetInv => CountersErrOneWay
  BY DEF BudgetInv, Agree, ErrOneWay, Spent, Total, Active, CountersErrOneWay
<1>2. BudgetInv /\ [BudgetNext]_budgetVars => BudgetInv'
  BY BudgetStepInv DEF BudgetKept
<1> QED
  BY <1>1, <1>2, BudgetInitInv, PTL DEF BudgetSpec

(* A reservation never takes what its agent holds past the runway.         *)
THEOREM RunwayBoundsReservations == BudgetSpec => ReservedWithinRunway
<1>1. BudgetInv /\ [BudgetNext]_budgetVars => BudgetInv'
  BY BudgetStepInv DEF BudgetKept
<1>2. BudgetInv /\ [BudgetNext]_budgetVars =>
        [store' # store => \A a \in Agents :
           EstimateSum(store', OfAgent(store', a) \intersect With(store', "reserved"))
               > EstimateSum(store, OfAgent(store, a) \intersect With(store, "reserved"))
             => EstimateSum(store', OfAgent(store', a) \intersect With(store', "reserved")) <= runway]_budgetVars
  BY BudgetStepInv DEF BudgetKept, WithinRunway, Own
<1> QED
  BY <1>1, <1>2, BudgetInitInv, PTL DEF BudgetSpec, ReservedWithinRunway

(* Nobody reserves under the kill switch, in quarantine or for a suspended *)
(* institution, and a sanctioned agent only under a live delegation.       *)
THEOREM OnlyTheEntitledReserve == BudgetSpec => StoppedAgentsReserveNothing
<1>1. BudgetInv /\ [BudgetNext]_budgetVars => BudgetInv'
  BY BudgetStepInv DEF BudgetKept
<1>2. BudgetInv /\ [BudgetNext]_budgetVars =>
        [\A r \in Reservations :
           store[r] = Missing /\ store'[r] # Missing =>
             LET a == store'[r].agent
             IN /\ ~switch /\ institution \notin {"suspended", "dissolved"}
                /\ agents[a].lifecycle \notin {"quarantined", "decommissioned"}
                /\ agents[a].rollout = "active"
                /\ store'[r].action \in {"lead", "assign", "execute"}
                     /\ standing[a].flags \intersect {"zero_authority", "remediation_only"} # {} =>
                     \E d \in Delegations :
                       /\ delegations[d] # Missing /\ delegations[d].to = a
                       /\ store'[r].action \in delegations[d].scopes
                       /\ delegations[d].expires > clock]_budgetVars
  BY BudgetStepInv DEF BudgetKept, ReservedByRight
<1> QED
  BY <1>1, <1>2, BudgetInitInv, PTL DEF BudgetSpec, StoppedAgentsReserveNothing

-----------------------------------------------------------------------------
(***************************************************************************)
(* One host: no part touches the files of another.                         *)
(***************************************************************************)
THEOREM HostTyped == HostSpec => []HostTypeOK
<1> DEFINE HostInv == TrustInv /\ HandoffInv /\ BudgetInv /\ PlanInv /\ ExchangeInv /\ AccessInv
<1>1. HostInit => HostInv
  BY TrustInitInv, HandoffInitInv, BudgetInitInv, PlanInitInv, ExchangeInitInv, AccessInitInv DEF HostInit
<1>2. BudgetInv /\ [BudgetNext]_budgetVars => BudgetInv'
  BY BudgetStepInv DEF BudgetKept
<1>3. HostInv /\ [HostNext]_<<part, vars, handoffVars, budgetVars, planVars, exchangeVars, accessVars>>
        => HostInv'
  <2> SUFFICES ASSUME HostInv, [HostNext]_<<part, vars, handoffVars, budgetVars, planVars, exchangeVars, accessVars>>
               PROVE  HostInv'
    OBVIOUS
  <2>1. /\ [Next]_vars /\ [HandoffNext]_handoffVars /\ [BudgetNext]_budgetVars /\ [PlanNext]_planVars
        /\ [CommitmentNext]_exchangeVars /\ [AccessNext]_accessVars
    BY DEF HostNext, HandoffNext
  <2> QED
    BY <1>2, <2>1, TrustStepInv, HandoffStepInv, PlanStepInv, ExchangeStepInv, AccessStepInv
<1>4. HostInv => HostTypeOK
  BY DEF TrustInv, HandoffInv, BudgetInv, PlanInv, ExchangeInv, AccessInv, HostTypeOK
<1> QED
  BY <1>1, <1>3, <1>4, PTL DEF HostSpec

(* One host is its parts: what is proved of each of them holds when one    *)
(* host runs them all.                                                     *)
THEOREM HostIsItsParts ==
  HostSpec => Spec /\ HandoffSpec /\ BudgetSpec /\ PlanSpec /\ CommitmentSpec /\ AccessSpec
<1>1. HostInit => Init /\ HandoffInit /\ BudgetInit /\ PlanInit /\ CommitmentInit /\ AccessInit
  BY DEF HostInit
<1>2. [HostNext]_<<part, vars, handoffVars, budgetVars, planVars, exchangeVars, accessVars>>
        => /\ [Next]_vars /\ [HandoffNext]_handoffVars /\ [BudgetNext]_budgetVars
           /\ [PlanNext]_planVars /\ [CommitmentNext]_exchangeVars /\ [AccessNext]_accessVars
  BY DEF HostNext, HandoffNext
<1> QED
  BY <1>1, <1>2, PTL DEF HostSpec, Spec, HandoffSpec, BudgetSpec, PlanSpec, CommitmentSpec, AccessSpec
=============================================================================
