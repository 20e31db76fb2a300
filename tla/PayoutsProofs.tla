---------------------------- MODULE PayoutsProofs ---------------------------
(***************************************************************************)
(* Machine-checked proofs about Payouts, for every number of proposals,    *)
(* warrants and commitments, every amount, and every choice of the bounds. *)
(***************************************************************************)
EXTENDS Payouts, WarrantsProofs, InductionLemmas

-----------------------------------------------------------------------------
(***************************************************************************)
(* The owner's money, for every amount and every floor.  The lemmas speak  *)
(* of single steps, so that they serve both OwnerAccounting's next-state   *)
(* relation and that of Payouts, which contains these steps.               *)
(***************************************************************************)

(* Reading the book changes its capital only.                              *)
LEMMA SyncedBook ==
  ASSUME AccountingTypeOK
  PROVE  /\ Synced \in Book
         /\ Synced.expenses = book.expenses
         /\ Synced.reimbursed = book.reimbursed
         /\ Synced.draws = book.draws
BY DEF AccountingTypeOK, Synced, Book

(* The accounting state stays in its types: no withdrawal can take the     *)
(* balance below zero, since each keeps it above the floor.                *)
LEMMA AccountingTypeStep ==
  ASSUME AccountingTypeOK, [AccountingNext]_accountingVars
  PROVE  AccountingTypeOK'
<1> USE AmountsAreMoney DEF AccountingTypeOK, Book
<1>1. CASE UNCHANGED accountingVars
  BY <1>1 DEF accountingVars, moneyVars, ownerVars
<1>2. Synced \in Book
  BY SyncedBook
<1>3. CASE ReadBook
  BY <1>2, <1>3 DEF ReadBook, moneyVars
<1>4. ASSUME NEW f \in FloorChoices, SetReserveFloor(f)
      PROVE  AccountingTypeOK'
  BY <1>4 DEF SetReserveFloor, ownerVars
<1>5. ASSUME NEW a \in OwnerAmounts, RecordExpense(a)
      PROVE  AccountingTypeOK'
  BY <1>2, <1>5 DEF RecordExpense, moneyVars
<1>6. ASSUME NEW a \in OwnerAmounts, NEW n \in 1..2, Contribute(a, n)
      PROVE  AccountingTypeOK'
  BY <1>6 DEF Contribute, Saves
<1>7. ASSUME NEW a \in OwnerAmounts, NEW n \in 1..3, ContributeThroughBook(a, n)
      PROVE  AccountingTypeOK'
  BY <1>2, <1>7 DEF ContributeThroughBook, Saves
<1>8. ASSUME NEW a \in OwnerAmounts, NEW n \in 1..3, Reimburse(a, n)
      PROVE  AccountingTypeOK'
  BY <1>2, <1>8 DEF Reimburse, Withdraw, Saves
<1>9. ASSUME NEW a \in OwnerAmounts, NEW n \in 1..3, Draw(a, n)
      PROVE  AccountingTypeOK'
  BY <1>2, <1>9 DEF Draw, Withdraw, Saves
<1> QED
  BY <1>1, <1>3, <1>4, <1>5, <1>6, <1>7, <1>8, <1>9 DEF AccountingNext

(* Every value of the accounting state is an amount of its kind, forever.  *)
THEOREM AccountingTyped == AccountingSpec => []AccountingTypeOK
<1>1. AccountingInit => AccountingTypeOK
  BY AmountsAreMoney DEF AccountingInit, AccountingTypeOK, Book
<1> QED
  BY <1>1, AccountingTypeStep, PTL DEF AccountingSpec

-----------------------------------------------------------------------------
(* What the owner was paid never exceeds what the book has as reimbursed   *)
(* or drawn, because the book is saved first; and the book reimburses only *)
(* expenses it has.                                                        *)
OwnerBookIsAhead ==
  /\ drawn <= book.reimbursed + book.draws
  /\ book.reimbursed <= book.expenses
  /\ crashes = 0 => drawn = book.reimbursed + book.draws

LEMMA OwnerBookStep ==
  ASSUME AccountingTypeOK, OwnerBookIsAhead, [AccountingNext]_accountingVars
  PROVE  OwnerBookIsAhead'
<1> USE AmountsAreMoney DEF AccountingTypeOK, Book, OwnerBookIsAhead
<1>1. CASE UNCHANGED accountingVars
  BY <1>1 DEF accountingVars, moneyVars, ownerVars
<1>2. /\ Synced \in Book
      /\ Synced.expenses = book.expenses
      /\ Synced.reimbursed = book.reimbursed
      /\ Synced.draws = book.draws
  BY SyncedBook
<1>3. CASE ReadBook
  BY <1>2, <1>3 DEF ReadBook, moneyVars
<1>4. ASSUME NEW f \in FloorChoices, SetReserveFloor(f)
      PROVE  OwnerBookIsAhead'
  BY <1>4 DEF SetReserveFloor, ownerVars
<1>5. ASSUME NEW a \in OwnerAmounts, RecordExpense(a)
      PROVE  OwnerBookIsAhead'
  BY <1>2, <1>5 DEF RecordExpense, moneyVars
<1>6. ASSUME NEW a \in OwnerAmounts, NEW n \in 1..2, Contribute(a, n)
      PROVE  OwnerBookIsAhead'
  BY <1>6 DEF Contribute, Saves
<1>7. ASSUME NEW a \in OwnerAmounts, NEW n \in 1..3, ContributeThroughBook(a, n)
      PROVE  OwnerBookIsAhead'
  BY <1>2, <1>7 DEF ContributeThroughBook, Saves
<1>8. ASSUME NEW a \in OwnerAmounts, NEW n \in 1..3, Reimburse(a, n)
      PROVE  OwnerBookIsAhead'
  BY <1>2, <1>8 DEF Reimburse, Withdraw, Saves
<1>9. ASSUME NEW a \in OwnerAmounts, NEW n \in 1..3, Draw(a, n)
      PROVE  OwnerBookIsAhead'
  BY <1>2, <1>9 DEF Draw, Withdraw, Saves
<1> QED
  BY <1>1, <1>3, <1>4, <1>5, <1>6, <1>7, <1>8, <1>9 DEF AccountingNext

(* The owner is paid only what the book says is due, however many          *)
(* operations crashes cut short and were retried.                          *)
THEOREM OwnerPaidFairly == AccountingSpec => []OwnerPaidOnlyWhatIsDue
<1>1. AccountingInit => OwnerBookIsAhead
  BY DEF AccountingInit, OwnerBookIsAhead
<1>2. AccountingTypeOK /\ OwnerBookIsAhead => OwnerPaidOnlyWhatIsDue
  BY DEF AccountingTypeOK, Book, OwnerBookIsAhead, OwnerPaidOnlyWhatIsDue
<1> QED
  BY <1>1, <1>2, OwnerBookStep, AccountingTyped, PTL DEF AccountingSpec

-----------------------------------------------------------------------------
(* A step that loses no journal row keeps the journal in agreement with    *)
(* the balance.                                                            *)
LEMMA JournalStep ==
  ASSUME AccountingTypeOK, JournalReconciles, [AccountingNext]_accountingVars
  PROVE  JournalReconciles'
<1> USE AmountsAreMoney DEF AccountingTypeOK, JournalReconciles
<1>1. CASE UNCHANGED accountingVars
  BY <1>1 DEF accountingVars, moneyVars, ownerVars
<1>3. CASE ReadBook
  BY <1>3 DEF ReadBook, moneyVars
<1>4. ASSUME NEW f \in FloorChoices, SetReserveFloor(f)
      PROVE  JournalReconciles'
  BY <1>4 DEF SetReserveFloor
<1>5. ASSUME NEW a \in OwnerAmounts, RecordExpense(a)
      PROVE  JournalReconciles'
  BY <1>5 DEF RecordExpense, moneyVars
<1>6. ASSUME NEW a \in OwnerAmounts, NEW n \in 1..2, Contribute(a, n)
      PROVE  JournalReconciles'
  BY <1>6 DEF Contribute, Saves
<1>7. ASSUME NEW a \in OwnerAmounts, NEW n \in 1..3, ContributeThroughBook(a, n)
      PROVE  JournalReconciles'
  BY <1>7 DEF ContributeThroughBook, Saves
<1>8. ASSUME NEW a \in OwnerAmounts, NEW n \in 1..3, Reimburse(a, n)
      PROVE  JournalReconciles'
  BY <1>8 DEF Reimburse, Withdraw, Saves
<1>9. ASSUME NEW a \in OwnerAmounts, NEW n \in 1..3, Draw(a, n)
      PROVE  JournalReconciles'
  BY <1>9 DEF Draw, Withdraw, Saves
<1> QED
  BY <1>1, <1>3, <1>4, <1>5, <1>6, <1>7, <1>8, <1>9 DEF AccountingNext

(* Of the owner's operations only a raised floor brings the balance closer *)
(* to it than the floor allows; none spends into it.                       *)
LEMMA FloorStep ==
  ASSUME AccountingTypeOK, [AccountingNext]_accountingVars
  PROVE  cash' < cash => cash' >= floor'
<1> USE AmountsAreMoney DEF AccountingTypeOK
<1>1. CASE UNCHANGED accountingVars
  BY <1>1 DEF accountingVars, moneyVars
<1>3. CASE ReadBook
  BY <1>3 DEF ReadBook, moneyVars
<1>4. ASSUME NEW f \in FloorChoices, SetReserveFloor(f)
      PROVE  cash' = cash
  BY <1>4 DEF SetReserveFloor
<1>5. ASSUME NEW a \in OwnerAmounts, RecordExpense(a)
      PROVE  cash' = cash
  BY <1>5 DEF RecordExpense, moneyVars
<1>6. ASSUME NEW a \in OwnerAmounts, NEW n \in 1..2, Contribute(a, n)
      PROVE  cash' >= cash
  BY <1>6 DEF Contribute
<1>7. ASSUME NEW a \in OwnerAmounts, NEW n \in 1..3, ContributeThroughBook(a, n)
      PROVE  cash' >= cash
  BY <1>7 DEF ContributeThroughBook
<1>8. ASSUME NEW a \in OwnerAmounts, NEW n \in 1..3, Reimburse(a, n)
      PROVE  cash' < cash => cash' >= floor'
  BY <1>8 DEF Reimburse, Withdraw
<1>9. ASSUME NEW a \in OwnerAmounts, NEW n \in 1..3, Draw(a, n)
      PROVE  cash' < cash => cash' >= floor'
  BY <1>9 DEF Draw, Withdraw
<1>10. AccountingTypeOK'
  BY AccountingTypeStep
<1> QED
  BY <1>1, <1>3, <1>4, <1>5, <1>6, <1>7, <1>8, <1>9, <1>10 DEF AccountingNext

-----------------------------------------------------------------------------
USE DEF DispatchSave, JournalSave, SettlementSave, ProposalSave, QueueSave, WarrantSave

-----------------------------------------------------------------------------
(***************************************************************************)
(* Types.                                                                  *)
(***************************************************************************)

(* What a proposal's record says of it while nothing has been saved.       *)
LEMMA NoProposalTyped == NoProposal \in Proposal
BY PayoutAssumptions DEF NoProposal, Proposal, Statuses

LEMMA TypeInit == Init => TypeOK
<1> SUFFICES ASSUME Init PROVE TypeOK
  OBVIOUS
<1> USE AmountsAreMoney, PayoutAssumptions
<1>1. AccountingTypeOK
  BY DEF Init, AccountingInit, AccountingTypeOK, Book
<1>2. warrant \in [WarrantIds -> Warrant]
  BY UnissuedWarrant DEF Init
<1>3. proposal \in [Proposals -> Proposal]
  BY NoProposalTyped DEF Init
<1>4. refs \in [Commitments -> Seq(Ref)]
  BY DEF Init
<1>5. boundTo \in [WarrantIds -> Requests \union {None}]
  BY DEF Init
<1>6. queue \in [1..MaxTx -> {"none", "previewed", "dispatchable", "executed"}]
  BY DEF Init
<1>7. nextTx \in 1..MaxTx + 1
  BY DEF Init
<1>8. commitment \in [Commitments -> CommitmentStates]
  BY DEF Init, CommitmentStates
<1> QED
  BY <1>1, <1>2, <1>3, <1>4, <1>5, <1>6, <1>7, <1>8 DEF Init, TypeOK

(* A step that stores one typed proposal keeps the types.                  *)
LEMMA StoreTyped ==
  ASSUME TypeOK, NEW p \in Proposals, NEW r \in Proposal, Store(p, r)
  PROVE  TypeOK'
<1>1. AccountingTypeOK'
  BY DEF TypeOK, Store, AccountingTypeOK, accountingVars, moneyVars, ownerVars
<1> QED
  BY <1>1 DEF TypeOK, Store, courtVars, paymentVars

(* The steps of a proposal before its execution.                           *)
Deciding(p) ==
  \/ \E contributor \in Contributors, proposer \in Proposers, link \in Commitments \union {None} :
       CreateProposal(p, contributor, proposer, link)
  \/ SubmitProposal(p)
  \/ \E reviewer \in Reviewers : ReviewProposal(p, reviewer) \/ RejectProposal(p, reviewer)
  \/ ApproveProposal(p)
  \/ \E hours \in HoursChoices \union {WindowHours} : OpenDisputeWindow(p, hours)
  \/ CancelProposal(p)

(* What such a step stores: a typed record, in a state that the            *)
(* transition table allows and that is not "executed"; a reviewer who is   *)
(* somebody else; and who proposed, reviewed and gets the money unchanged  *)
(* by whatever comes after the review.                                     *)
Decided(p, r) ==
  /\ Store(p, r)
  /\ r \in Proposal
  /\ CanBecome(p, r.status)
  /\ r.status # "executed"
  /\ r.status = "under_review" =>
       r.reviewedBy \in Reviewers \ {r.contributor, r.proposedBy}
  /\ r.status \in {"approved", "dispute_window"} =>
       /\ r.reviewedBy = proposal[p].reviewedBy
       /\ r.contributor = proposal[p].contributor
       /\ r.proposedBy = proposal[p].proposedBy

LEMMA DecidingDecides ==
  ASSUME TypeOK, NEW p \in Proposals, Deciding(p)
  PROVE  \E r : Decided(p, r)
<1> USE PayoutAssumptions DEF TypeOK, Decided
<1>1. proposal[p] \in Proposal
  OBVIOUS
<1>2. ASSUME NEW contributor \in Contributors, NEW proposer \in Proposers,
             NEW link \in Commitments \union {None},
             CreateProposal(p, contributor, proposer, link)
      PROVE  \E r : Decided(p, r)
  <2> DEFINE r == [NoProposal EXCEPT !.status = "draft", !.contributor = contributor,
                                     !.proposedBy = proposer, !.link = link]
  <2>1. r \in Proposal /\ r.status = "draft"
    BY NoProposalTyped DEF NoProposal, Proposal, Statuses
  <2>2. Store(p, r) /\ CanBecome(p, r.status)
    BY <1>2, <2>1 DEF CreateProposal
  <2> HIDE DEF r
  <2> QED BY <2>1, <2>2
<1>3. CASE SubmitProposal(p)
  <2> DEFINE r == [proposal[p] EXCEPT !.status = "submitted"]
  <2>1. r \in Proposal /\ r.status = "submitted"
    BY <1>1 DEF Proposal, Statuses
  <2>2. Store(p, r) /\ CanBecome(p, r.status)
    BY <1>3, <2>1 DEF SubmitProposal
  <2> HIDE DEF r
  <2> QED BY <2>1, <2>2
<1>4. ASSUME NEW reviewer \in Reviewers, ReviewProposal(p, reviewer)
      PROVE  \E r : Decided(p, r)
  <2> DEFINE r == [proposal[p] EXCEPT !.status = "under_review", !.reviewedBy = reviewer]
  <2>1. /\ r \in Proposal /\ r.status = "under_review" /\ r.reviewedBy = reviewer
        /\ r.contributor = proposal[p].contributor /\ r.proposedBy = proposal[p].proposedBy
    BY <1>1 DEF Proposal, Statuses
  <2>2. Store(p, r) /\ CanBecome(p, r.status) /\ reviewer \notin {r.contributor, r.proposedBy}
    BY <1>4, <2>1 DEF ReviewProposal
  <2> HIDE DEF r
  <2> QED BY <2>1, <2>2
<1>5. ASSUME NEW reviewer \in Reviewers, RejectProposal(p, reviewer)
      PROVE  \E r : Decided(p, r)
  <2> DEFINE r == [proposal[p] EXCEPT !.status = "rejected", !.reviewedBy = reviewer]
  <2>1. r \in Proposal /\ r.status = "rejected"
    BY <1>1 DEF Proposal, Statuses
  <2>2. Store(p, r) /\ CanBecome(p, r.status)
    BY <1>5, <2>1 DEF RejectProposal
  <2> HIDE DEF r
  <2> QED BY <2>1, <2>2
<1>6. CASE ApproveProposal(p)
  <2> DEFINE r == [proposal[p] EXCEPT !.status = "approved"]
  <2>1. /\ r \in Proposal /\ r.status = "approved"
        /\ r.reviewedBy = proposal[p].reviewedBy
        /\ r.contributor = proposal[p].contributor /\ r.proposedBy = proposal[p].proposedBy
    BY <1>1 DEF Proposal, Statuses
  <2>2. Store(p, r) /\ CanBecome(p, r.status)
    BY <1>6, <2>1 DEF ApproveProposal
  <2> HIDE DEF r
  <2> QED BY <2>1, <2>2
<1>7. ASSUME NEW hours \in HoursChoices \union {WindowHours}, OpenDisputeWindow(p, hours)
      PROVE  \E r : Decided(p, r)
  <2> DEFINE r == [proposal[p] EXCEPT !.status = "dispute_window",
                                      !.windowStarts = now, !.windowEnds = now + hours]
  <2>1. now + hours \in Nat
    OBVIOUS
  <2>2. /\ r \in Proposal /\ r.status = "dispute_window"
        /\ r.reviewedBy = proposal[p].reviewedBy
        /\ r.contributor = proposal[p].contributor /\ r.proposedBy = proposal[p].proposedBy
    BY <1>1, <2>1 DEF Proposal, Statuses
  <2>3. Store(p, r) /\ CanBecome(p, r.status)
    BY <1>7, <2>2 DEF OpenDisputeWindow
  <2> HIDE DEF r
  <2> QED BY <2>2, <2>3
<1>8. CASE CancelProposal(p)
  <2> DEFINE r == [proposal[p] EXCEPT !.status = "cancelled"]
  <2>1. r \in Proposal /\ r.status = "cancelled"
    BY <1>1 DEF Proposal, Statuses
  <2>2. Store(p, r) /\ CanBecome(p, r.status)
    BY <1>8, <2>1 DEF CancelProposal
  <2> HIDE DEF r
  <2> QED BY <2>1, <2>2
<1> HIDE DEF Decided
<1> QED
  BY <1>2, <1>3, <1>4, <1>5, <1>6, <1>7, <1>8 DEF Deciding

-----------------------------------------------------------------------------
(* The steps of the court, and what they keep of every warrant that        *)
(* exists: that it exists, whether it has been executed, and its request.  *)
Court ==
  \/ \E w \in WarrantIds :
       \/ \E decision \in ReviewChoices : ReviewWarrant(w, decision)
       \/ ExpireWarrant(w)
       \/ \E request \in Requests \union {None}, auto \in BOOLEAN : IssueWarrant(w, request, auto)
  \/ \E c \in Commitments :
       \/ BlockedByCase(c)
       \/ \E w \in CaseWarrants : OpenCase(c, w) \/ BreachCommitment(c, w)
       \/ \E state \in CommitmentStates \ {"proposed"} : ReviewCommitment(c, state)
  \/ \E k \in cases : ResolveCase(k)
  \/ \E p \in Proposals, c \in Commitments, n \in 1..2 : SettleWithPayout(c, p, n)

WarrantsKept ==
  \A w \in WarrantIds :
    /\ Exists(warrant[w]) => /\ Exists(warrant'[w])
                             /\ warrant'[w].execution = warrant[w].execution
                             /\ boundTo'[w] = boundTo[w]
    /\ warrant'[w].execution = "executed" => warrant[w].execution = "executed"

WarrantsTyped ==
  /\ warrant \in [WarrantIds -> Warrant]
  /\ boundTo \in [WarrantIds -> Requests \union {None}]

(* Leaving the warrants alone keeps them.                                  *)
LEMMA SameWarrants ==
  ASSUME WarrantsTyped, UNCHANGED <<warrant, boundTo>>
  PROVE  WarrantsTyped' /\ WarrantsKept
BY DEF WarrantsTyped, WarrantsKept

(* A hold keeps the warrants.                                              *)
LEMMA HoldKeeps ==
  ASSUME WarrantsTyped, NEW k, Hold(k), UNCHANGED boundTo
  PROVE  WarrantsTyped' /\ WarrantsKept
<1>1. "stay" \in Decisions
  BY DEF Decisions
<1>2. ASSUME NEW w \in WarrantIds
      PROVE  /\ warrant'[w] \in Warrant
             /\ warrant'[w].execution = warrant[w].execution
             /\ Exists(warrant[w]) => Exists(warrant'[w])
  <2>1. warrant[w] \in Warrant
    BY DEF WarrantsTyped
  <2>2. warrant'[w] \in {warrant[w], Reviewed(warrant[w], "stay")}
    BY DEF Hold
  <2> QED BY <1>1, <2>1, <2>2, ReviewedWarrant
<1>3. warrant' = [w \in WarrantIds |-> warrant'[w]]
  BY DEF Hold
<1> QED
  BY <1>2, <1>3 DEF WarrantsTyped, WarrantsKept

(* A review keeps the warrants.                                            *)
LEMMA ReviewKeeps ==
  ASSUME WarrantsTyped, NEW w \in WarrantIds, NEW d \in ReviewChoices, ReviewWarrant(w, d)
  PROVE  WarrantsTyped' /\ WarrantsKept
<1>1. d \in Decisions
  BY PayoutAssumptions
<1>2. /\ Reviewed(warrant[w], d) \in Warrant
      /\ Exists(Reviewed(warrant[w], d))
      /\ Reviewed(warrant[w], d).execution = warrant[w].execution
  BY <1>1, ReviewedWarrant DEF WarrantsTyped
<1> QED
  BY <1>2 DEF ReviewWarrant, WarrantsTyped, WarrantsKept

(* Expiry keeps the warrants.                                              *)
LEMMA ExpiryKeeps ==
  ASSUME WarrantsTyped, NEW w \in WarrantIds, ExpireWarrant(w)
  PROVE  WarrantsTyped' /\ WarrantsKept
<1>1. warrant[w] \in Warrant
  BY DEF WarrantsTyped
<1>2. warrant' = [warrant EXCEPT ![w] = [warrant[w] EXCEPT !.expired = TRUE]]
  BY DEF ExpireWarrant
<1>3. Exists([warrant[w] EXCEPT !.expired = TRUE]) <=> Exists(warrant[w])
  BY <1>1, ExpiredWarrant DEF Exists
<1> QED
  BY <1>1, <1>2, <1>3, ExpiredWarrant DEF ExpireWarrant, WarrantsTyped, WarrantsKept

(* A new warrant takes an id that has none.                                *)
LEMMA IssueKeeps ==
  ASSUME WarrantsTyped, NEW w \in WarrantIds, NEW request \in Requests \union {None},
         NEW auto \in BOOLEAN, IssueWarrant(w, request, auto)
  PROVE  WarrantsTyped' /\ WarrantsKept
BY IssuedWarrant DEF IssueWarrant, WarrantsTyped, WarrantsKept

(* Recording a ref keeps the list of refs a list of refs.                  *)
LEMMA RecordedTyped ==
  ASSUME NEW list \in Seq(Ref), NEW r \in Ref
  PROVE  Recorded(list, r) \in Seq(Ref)
<1>1. Append(list, r) \in Seq(Ref)
  OBVIOUS
<1>2. ASSUME NEW i PROVE [list EXCEPT ![i] = r] \in Seq(Ref)
  <2>1. list \in [1..Len(list) -> Ref] /\ Len(list) \in Nat
    OBVIOUS
  <2>2. [list EXCEPT ![i] = r] \in [1..Len(list) -> Ref]
    BY <2>1
  <2> QED BY <2>1, <2>2
<1> QED
  BY <1>1, <1>2 DEF Recorded

(* The court touches no money, no proposal and no payment.                 *)
LEMMA CourtStep ==
  ASSUME TypeOK, ExecutedIsPaid, Court
  PROVE  /\ TypeOK'
         /\ WarrantsKept
         /\ UNCHANGED <<accountingVars, proposal, paymentVars, now, killSwitch>>
<1> USE DEF TypeOK
<1>1. WarrantsTyped
  BY DEF WarrantsTyped
<1>2. ASSUME UNCHANGED <<accountingVars, proposal, paymentVars, now, killSwitch>>,
             WarrantsTyped', WarrantsKept,
             commitment' \in [Commitments -> CommitmentStates],
             refs' \in [Commitments -> Seq(Ref)],
             cases' \subseteq Commitments \X CaseWarrants
      PROVE  /\ TypeOK'
             /\ WarrantsKept
             /\ UNCHANGED <<accountingVars, proposal, paymentVars, now, killSwitch>>
  <2>1. AccountingTypeOK'
    BY <1>2 DEF AccountingTypeOK, accountingVars, moneyVars, ownerVars
  <2> QED BY <1>2, <2>1 DEF WarrantsTyped, paymentVars
<1>3. ASSUME NEW w \in WarrantIds, NEW d \in ReviewChoices, ReviewWarrant(w, d)
      PROVE  TypeOK' /\ WarrantsKept
                     /\ UNCHANGED <<accountingVars, proposal, paymentVars, now, killSwitch>>
  BY <1>1, <1>2, <1>3, ReviewKeeps DEF ReviewWarrant
<1>4. ASSUME NEW w \in WarrantIds, ExpireWarrant(w)
      PROVE  TypeOK' /\ WarrantsKept
                     /\ UNCHANGED <<accountingVars, proposal, paymentVars, now, killSwitch>>
  BY <1>1, <1>2, <1>4, ExpiryKeeps DEF ExpireWarrant
<1>5. ASSUME NEW w \in WarrantIds, NEW request \in Requests \union {None},
             NEW auto \in BOOLEAN, IssueWarrant(w, request, auto)
      PROVE  TypeOK' /\ WarrantsKept
                     /\ UNCHANGED <<accountingVars, proposal, paymentVars, now, killSwitch>>
  BY <1>1, <1>2, <1>5, IssueKeeps DEF IssueWarrant
<1>6. ASSUME NEW c \in Commitments, BlockedByCase(c)
      PROVE  TypeOK' /\ WarrantsKept
                     /\ UNCHANGED <<accountingVars, proposal, paymentVars, now, killSwitch>>
  BY <1>1, <1>2, <1>6, HoldKeeps DEF BlockedByCase
<1>7. ASSUME NEW c \in Commitments, NEW w \in CaseWarrants, OpenCase(c, w)
      PROVE  TypeOK' /\ WarrantsKept
                     /\ UNCHANGED <<accountingVars, proposal, paymentVars, now, killSwitch>>
  <2>1. WarrantsTyped' /\ WarrantsKept
    BY <1>1, <1>7, HoldKeeps, SameWarrants DEF OpenCase
  <2> QED BY <1>2, <1>7, <2>1 DEF OpenCase
<1>8. ASSUME NEW c \in Commitments, NEW w \in CaseWarrants, BreachCommitment(c, w)
      PROVE  TypeOK' /\ WarrantsKept
                     /\ UNCHANGED <<accountingVars, proposal, paymentVars, now, killSwitch>>
  <2>1. WarrantsTyped' /\ WarrantsKept
    BY <1>1, <1>8, HoldKeeps, SameWarrants DEF BreachCommitment
  <2>2. commitment' \in [Commitments -> CommitmentStates]
    BY <1>8 DEF BreachCommitment, CommitmentStates
  <2> QED BY <1>2, <1>8, <2>1, <2>2 DEF BreachCommitment
<1>9. ASSUME NEW c \in Commitments, NEW state \in CommitmentStates, ReviewCommitment(c, state)
      PROVE  TypeOK' /\ WarrantsKept
                     /\ UNCHANGED <<accountingVars, proposal, paymentVars, now, killSwitch>>
  BY <1>1, <1>2, <1>9, SameWarrants DEF ReviewCommitment
<1>10. ASSUME NEW k \in cases, ResolveCase(k)
       PROVE  TypeOK' /\ WarrantsKept
                      /\ UNCHANGED <<accountingVars, proposal, paymentVars, now, killSwitch>>
  BY <1>1, <1>2, <1>10, SameWarrants DEF ResolveCase
<1>11. ASSUME NEW p \in Proposals, NEW c \in Commitments, NEW n \in 1..2,
              SettleWithPayout(c, p, n)
       PROVE  TypeOK' /\ WarrantsKept
                      /\ UNCHANGED <<accountingVars, proposal, paymentVars, now, killSwitch>>
  <2> DEFINE ref == [p |-> p, tx |-> proposal[p].tx, hash |-> proposal[p].hash]
  <2>1. [p |-> p, tx |-> proposal[p].tx, w |-> proposal[p].warrant] \in Row
    BY <1>11 DEF SettleWithPayout, ExecutedIsPaid
  <2>2. proposal[p].hash \in TxHashes \union {None}
    BY DEF Proposal
  <2>3. ref \in Ref
    BY <2>1, <2>2 DEF Row, Ref
  <2>4. Recorded(refs[c], ref) \in Seq(Ref)
    BY <2>3, RecordedTyped
  <2>5. refs' = [refs EXCEPT ![c] = Recorded(refs[c], ref)]
    BY <1>11 DEF SettleWithPayout
  <2>6. refs' \in [Commitments -> Seq(Ref)]
    BY <2>4, <2>5
  <2>7. commitment' \in [Commitments -> CommitmentStates]
    BY <1>11 DEF SettleWithPayout, CommitmentStates
  <2> QED BY <1>1, <1>2, <1>11, <2>6, <2>7, SameWarrants DEF SettleWithPayout
<1> HIDE DEF TypeOK
<1> QED
  BY <1>3, <1>4, <1>5, <1>6, <1>7, <1>8, <1>9, <1>10, <1>11 DEF Court

-----------------------------------------------------------------------------
(* The transition table: what leaves which state.                          *)
LEMMA OnlyWindowExecutes ==
  ASSUME NEW s \in Statuses, "executed" \in Transitions[s]
  PROVE  s = "dispute_window"
<1>1. /\ Transitions["none"] = {"draft"}
      /\ Transitions["draft"] = {"submitted", "cancelled"}
      /\ Transitions["submitted"] = {"under_review", "rejected", "cancelled"}
      /\ Transitions["under_review"] = {"approved", "rejected"}
      /\ Transitions["approved"] = {"dispute_window"}
      /\ Transitions["executed"] = {}
      /\ Transitions["rejected"] = {}
      /\ Transitions["cancelled"] = {}
  BY DEF Transitions
<1> QED
  BY <1>1 DEF Statuses

(* What an execution finds and what it leaves, whatever the crash spares.  *)
LEMMA ExecutionMoves ==
  ASSUME TypeOK, NEW p \in Proposals, NEW w \in WarrantIds,
         NEW hash \in TxHashes \union {None}, NEW early \in BOOLEAN, NEW n \in 1..WarrantSave,
         NEW failed \in SUBSET {DispatchSave, QueueSave},
         ExecutePayout(p, w, hash, early, n, failed)
  PROVE  /\ proposal[p].status = "dispute_window"
         /\ ValidForExecution(warrant[w])
         /\ boundTo[w] \in {<<p, hash>>, None}
         /\ nextTx \in 1..MaxTx
         /\ cash - Amount[p] >= floor
         /\ cash' = cash - Amount[p]
         /\ nextTx' = nextTx + 1
         /\ proposal' \in [Proposals -> Proposal]
         /\ \A q \in Proposals \ {p} : proposal'[q] = proposal[q]
         /\ n < ProposalSave => proposal' = proposal
         /\ n >= ProposalSave =>
              /\ proposal'[p].status = "executed"
              /\ proposal'[p].tx = nextTx
              /\ proposal'[p].warrant = w
              /\ proposal'[p].reviewedBy = proposal[p].reviewedBy
              /\ proposal'[p].contributor = proposal[p].contributor
              /\ proposal'[p].proposedBy = proposal[p].proposedBy
         /\ warrant' \in [WarrantIds -> Warrant]
         /\ \A v \in WarrantIds : Exists(warrant[v]) => Exists(warrant'[v])
         /\ \A v \in WarrantIds \ {w} : warrant'[v] = warrant[v]
         /\ n < WarrantSave => warrant' = warrant
         /\ n = WarrantSave => warrant'[w].execution = "executed"
<1> USE PayoutAssumptions DEF TypeOK
<1>1. /\ Executable(p, w, hash, early)
      /\ cash' = cash - Amount[p]
      /\ nextTx' = nextTx + 1
  BY DEF ExecutePayout
<1>2. proposal[p].status = "dispute_window"
  <2>1. proposal[p].status \in Statuses /\ "executed" \in Transitions[proposal[p].status]
    BY <1>1 DEF Executable, CanBecome, Proposal
  <2> QED BY <2>1, OnlyWindowExecutes
<1>3. /\ ValidForExecution(warrant[w])
      /\ boundTo[w] \in {<<p, hash>>, None}
      /\ nextTx \in 1..MaxTx
      /\ cash >= floor + Amount[p]
  BY <1>1 DEF Executable, CanPayout
<1>4. cash - Amount[p] >= floor
  BY <1>3, AmountsAreMoney DEF AccountingTypeOK
<1>5. /\ proposal' \in [Proposals -> Proposal]
      /\ \A q \in Proposals \ {p} : proposal'[q] = proposal[q]
      /\ n < ProposalSave => proposal' = proposal
      /\ n >= ProposalSave =>
           /\ proposal'[p].status = "executed"
           /\ proposal'[p].tx = nextTx
           /\ proposal'[p].warrant = w
           /\ proposal'[p].reviewedBy = proposal[p].reviewedBy
           /\ proposal'[p].contributor = proposal[p].contributor
           /\ proposal'[p].proposedBy = proposal[p].proposedBy
  <2> DEFINE r == [proposal[p] EXCEPT !.status = "executed", !.tx = nextTx,
                                      !.hash = hash, !.warrant = w]
  <2>1. /\ r \in Proposal /\ r.status = "executed" /\ r.tx = nextTx /\ r.warrant = w
        /\ r.reviewedBy = proposal[p].reviewedBy
        /\ r.contributor = proposal[p].contributor
        /\ r.proposedBy = proposal[p].proposedBy
    <3>1. proposal[p] \in Proposal /\ nextTx \in 0..MaxTx
      BY <1>3
    <3>2. "executed" \in Statuses
      BY DEF Statuses
    <3> QED BY <3>1, <3>2 DEF Proposal
  <2>2. proposal' = IF n >= ProposalSave THEN [proposal EXCEPT ![p] = r] ELSE proposal
    BY DEF ExecutePayout
  <2> HIDE DEF r
  <2> QED BY <2>1, <2>2
<1>6. /\ warrant' \in [WarrantIds -> Warrant]
      /\ \A v \in WarrantIds : Exists(warrant[v]) => Exists(warrant'[v])
      /\ \A v \in WarrantIds \ {w} : warrant'[v] = warrant[v]
      /\ n < WarrantSave => warrant' = warrant
      /\ n = WarrantSave => warrant'[w].execution = "executed"
  <2>1. warrant' = IF n >= WarrantSave THEN [warrant EXCEPT ![w] = MarkedExecuted(warrant[w])]
                                       ELSE warrant
    BY DEF ExecutePayout
  <2>2. /\ MarkedExecuted(warrant[w]) \in Warrant
        /\ MarkedExecuted(warrant[w]).execution = "executed"
        /\ Exists(MarkedExecuted(warrant[w])) <=> Exists(warrant[w])
    BY MarkedWarrant DEF Exists
  <2> QED BY <2>1, <2>2
<1> QED
  BY <1>1, <1>2, <1>3, <1>4, <1>5, <1>6

(* An execution keeps the types.                                           *)
LEMMA ExecutionTyped ==
  ASSUME TypeOK, NEW p \in Proposals, NEW w \in WarrantIds,
         NEW hash \in TxHashes \union {None}, NEW early \in BOOLEAN, NEW n \in 1..WarrantSave,
         NEW failed \in SUBSET {DispatchSave, QueueSave},
         ExecutePayout(p, w, hash, early, n, failed)
  PROVE  TypeOK'
<1> USE PayoutAssumptions DEF TypeOK
<1>1. nextTx \in 1..MaxTx /\ nextTx' \in 1..MaxTx + 1
  BY ExecutionMoves
<1>2. AccountingTypeOK'
  <2>1. cash' \in Nat
    <3>1. cash' = cash - Amount[p] /\ cash - Amount[p] >= floor
      BY ExecutionMoves
    <3>2. Amount[p] \in Nat /\ cash \in Nat /\ floor \in Nat
      BY DEF AccountingTypeOK
    <3> QED BY <3>1, <3>2
  <2>2. crashes' \in 0..MaxCrashes
    BY AmountsAreMoney DEF ExecutePayout, Saves, AccountingTypeOK
  <2>3. journal' \in Int
    BY DEF ExecutePayout, AccountingTypeOK
  <2> QED
    BY <2>1, <2>2, <2>3 DEF ExecutePayout, AccountingTypeOK, ownerVars
<1>3. refs' \in [Commitments -> Seq(Ref)]
  <2> DEFINE c == proposal[p].link
             ref == [p |-> p, tx |-> nextTx, hash |-> hash]
  <2>1. ref \in Ref
    BY <1>1 DEF Ref
  <2>2. refs' = IF n >= SettlementSave /\ c # None
                  THEN [refs EXCEPT ![c] = Recorded(refs[c], ref)] ELSE refs
    BY DEF ExecutePayout
  <2>3. c \in Commitments \union {None}
    BY DEF Proposal
  <2>4. c # None => Recorded(refs[c], ref) \in Seq(Ref)
    BY <2>1, <2>3, RecordedTyped
  <2> HIDE DEF c, ref
  <2> QED BY <2>2, <2>3, <2>4
<1>4. queue' \in [1..MaxTx -> {"none", "previewed", "dispatchable", "executed"}]
  <2>1. queue' \in {queue, [queue EXCEPT ![nextTx] = "executed"],
                           [queue EXCEPT ![nextTx] = "dispatchable"]}
    BY DEF ExecutePayout
  <2> QED BY <1>1, <2>1
<1>5. rows' \subseteq Row
  BY <1>1 DEF ExecutePayout, Row
<1>6. debits' \subseteq Debit
  BY <1>1 DEF ExecutePayout, Debit
<1>7. proposal' \in [Proposals -> Proposal] /\ warrant' \in [WarrantIds -> Warrant]
  BY ExecutionMoves
<1> QED
  BY <1>1, <1>2, <1>3, <1>4, <1>5, <1>6, <1>7 DEF ExecutePayout

(* A preview changes the queue only.                                       *)
LEMMA PreviewTyped ==
  ASSUME TypeOK, NEW p \in Proposals, NEW w \in WarrantIds,
         NEW hash \in TxHashes \union {None}, NEW early \in BOOLEAN,
         PreviewPayout(p, w, hash, early)
  PROVE  TypeOK'
<1> USE PayoutAssumptions DEF TypeOK
<1>1. nextTx \in 1..MaxTx /\ nextTx' \in 1..MaxTx + 1
  BY DEF PreviewPayout, Executable
<1>2. queue' \in [1..MaxTx -> {"none", "previewed", "dispatchable", "executed"}]
  BY <1>1 DEF PreviewPayout
<1>3. AccountingTypeOK'
  BY DEF PreviewPayout, AccountingTypeOK, accountingVars, moneyVars, ownerVars
<1> QED
  BY <1>1, <1>2, <1>3 DEF PreviewPayout, courtVars

-----------------------------------------------------------------------------
(***************************************************************************)
(* The kinds of steps.                                                     *)
(***************************************************************************)
Previewing ==
  \E p \in Proposals, w \in WarrantIds, hash \in TxHashes \union {None}, early \in BOOLEAN :
    PreviewPayout(p, w, hash, early)

(* A step of the owner, of the clock, of the kill switch, or of nobody.    *)
Elsewhere ==
  /\ [AccountingNext]_accountingVars
  /\ UNCHANGED <<storeVars, debits>>
  /\ now' \in {now, now + 1}
  /\ killSwitch' \in {killSwitch} \union SwitchChoices

LEMMA StepKinds ==
  ASSUME [Next]_vars
  PROVE  \/ Elsewhere
         \/ \E p \in Proposals : Deciding(p)
         \/ Court
         \/ Previewing
         \/ \E p \in Proposals, w \in WarrantIds, hash \in TxHashes \union {None},
               early \in BOOLEAN, n \in 1..WarrantSave,
               failed \in SUBSET {DispatchSave, QueueSave} :
              ExecutePayout(p, w, hash, early, n, failed)
<1>1. CASE UNCHANGED vars
  BY <1>1 DEF vars, payoutVars, Elsewhere
<1>2. CASE AccountingNext /\ UNCHANGED payoutVars
  BY <1>2 DEF payoutVars, Elsewhere
<1>3. CASE Tick
  BY <1>3 DEF Tick, Elsewhere
<1>4. CASE SwitchKill
  BY <1>4 DEF SwitchKill, Elsewhere
<1>5. CASE \E w \in WarrantIds :
             \/ \E decision \in ReviewChoices : ReviewWarrant(w, decision)
             \/ ExpireWarrant(w)
             \/ \E request \in Requests \union {None}, auto \in BOOLEAN :
                  IssueWarrant(w, request, auto)
  BY <1>5 DEF Court
<1>6. CASE \E c \in Commitments :
             \/ BlockedByCase(c)
             \/ \E w \in CaseWarrants : OpenCase(c, w) \/ BreachCommitment(c, w)
             \/ \E state \in CommitmentStates \ {"proposed"} : ReviewCommitment(c, state)
  BY <1>6 DEF Court
<1>7. CASE \E k \in cases : ResolveCase(k)
  BY <1>7 DEF Court
<1>8. ASSUME NEW p \in Proposals,
             \/ \E contributor \in Contributors, proposer \in Proposers,
                   link \in Commitments \union {None} :
                  CreateProposal(p, contributor, proposer, link)
             \/ SubmitProposal(p)
             \/ \E reviewer \in Reviewers : ReviewProposal(p, reviewer) \/ RejectProposal(p, reviewer)
             \/ ApproveProposal(p)
             \/ \E hours \in HoursChoices \union {WindowHours} : OpenDisputeWindow(p, hours)
             \/ CancelProposal(p)
      PROVE  Deciding(p)
  BY <1>8 DEF Deciding
<1>9. ASSUME NEW p \in Proposals, NEW c \in Commitments, NEW n \in 1..2, SettleWithPayout(c, p, n)
      PROVE  Court
  BY <1>9 DEF Court
<1> QED
  BY <1>1, <1>2, <1>3, <1>4, <1>5, <1>6, <1>7, <1>8, <1>9 DEF Next, Previewing

(* Types are kept by every step; a settled ref is typed because an         *)
(* executed proposal names a transaction of the journal.                   *)
LEMMA TypeStep ==
  ASSUME TypeOK, ExecutedIsPaid, [Next]_vars
  PROVE  TypeOK'
<1>1. CASE Elsewhere
  <2>1. AccountingTypeOK'
    BY <1>1, AccountingTypeStep DEF TypeOK, Elsewhere
  <2> QED
    BY <1>1, <2>1, PayoutAssumptions DEF TypeOK, Elsewhere, storeVars
<1>2. ASSUME NEW p \in Proposals, Deciding(p)
      PROVE  TypeOK'
  BY <1>2, DecidingDecides, StoreTyped DEF Decided
<1>3. CASE Court
  BY <1>3, CourtStep
<1>4. CASE Previewing
  BY <1>4, PreviewTyped DEF Previewing
<1> QED
  BY <1>1, <1>2, <1>3, <1>4, ExecutionTyped, StepKinds

-----------------------------------------------------------------------------
(***************************************************************************)
(* Proposals and payments.                                                 *)
(***************************************************************************)

(* An executed proposal never changes again.                               *)
LEMMA ExecutedForGood ==
  ASSUME TypeOK, ExecutedIsPaid, [Next]_vars,
         NEW q \in Proposals, proposal[q].status = "executed"
  PROVE  proposal'[q] = proposal[q]
<1>1. CASE Elsewhere
  BY <1>1 DEF Elsewhere, storeVars
<1>2. ASSUME NEW p \in Proposals, Deciding(p)
      PROVE  proposal'[q] = proposal[q]
  <2>1. PICK r : Decided(p, r)
    BY <1>2, DecidingDecides
  <2>2. p # q
    BY <2>1 DEF Decided, CanBecome, Transitions
  <2> QED BY <2>1, <2>2 DEF Decided, Store, TypeOK
<1>3. CASE Court
  BY <1>3, CourtStep
<1>4. CASE Previewing
  BY <1>4 DEF Previewing, PreviewPayout
<1>5. ASSUME NEW p \in Proposals, NEW w \in WarrantIds,
             NEW hash \in TxHashes \union {None}, NEW early \in BOOLEAN, NEW n \in 1..WarrantSave,
             NEW failed \in SUBSET {DispatchSave, QueueSave},
             ExecutePayout(p, w, hash, early, n, failed)
      PROVE  proposal'[q] = proposal[q]
  <2>1. proposal[p].status = "dispute_window"
    BY <1>5, ExecutionMoves
  <2> QED BY <1>5, <2>1, ExecutionMoves
<1> QED
  BY <1>1, <1>2, <1>3, <1>4, <1>5, StepKinds

(* Only an execution makes a proposal executed, moves rows or debits; all  *)
(* other steps leave what they found.                                      *)
LEMMA OnlyExecutionPays ==
  ASSUME TypeOK, ExecutedIsPaid, [Next]_vars
  PROVE  \/ /\ UNCHANGED <<rows, debits>>
            /\ \A q \in Proposals : proposal'[q].status = "executed" => proposal'[q] = proposal[q]
         \/ \E p \in Proposals, w \in WarrantIds, hash \in TxHashes \union {None},
               early \in BOOLEAN, n \in 1..WarrantSave,
               failed \in SUBSET {DispatchSave, QueueSave} :
              ExecutePayout(p, w, hash, early, n, failed)
<1>1. CASE Elsewhere
  BY <1>1 DEF Elsewhere, storeVars
<1>2. ASSUME NEW p \in Proposals, Deciding(p)
      PROVE  /\ UNCHANGED <<rows, debits>>
             /\ \A q \in Proposals : proposal'[q].status = "executed" => proposal'[q] = proposal[q]
  <2>1. PICK r : Decided(p, r)
    BY <1>2, DecidingDecides
  <2>2. /\ proposal' = [proposal EXCEPT ![p] = r]
        /\ r.status # "executed"
        /\ UNCHANGED <<rows, debits>>
    BY <2>1 DEF Decided, Store, paymentVars
  <2> QED BY <2>2 DEF TypeOK
<1>3. CASE Court
  BY <1>3, CourtStep DEF paymentVars
<1>4. CASE Previewing
  BY <1>4 DEF Previewing, PreviewPayout
<1> QED
  BY <1>1, <1>2, <1>3, <1>4, StepKinds

LEMMA PaidStep ==
  ASSUME TypeOK, ExecutedIsPaid, [Next]_vars
  PROVE  ExecutedIsPaid'
<1>1. CASE /\ UNCHANGED <<rows, debits>>
           /\ \A q \in Proposals : proposal'[q].status = "executed" => proposal'[q] = proposal[q]
  BY <1>1 DEF ExecutedIsPaid, DebitsOf
<1>2. ASSUME NEW p \in Proposals, NEW w \in WarrantIds,
             NEW hash \in TxHashes \union {None}, NEW early \in BOOLEAN, NEW n \in 1..WarrantSave,
             NEW failed \in SUBSET {DispatchSave, QueueSave},
             ExecutePayout(p, w, hash, early, n, failed)
      PROVE  ExecutedIsPaid'
  <2> DEFINE d == [p |-> p, tx |-> nextTx, w |-> w, hash |-> hash,
                   saves |-> n]
  <2>1. debits' = debits \union {d}
    BY <1>2 DEF ExecutePayout
  <2>2. d.p = p /\ d.tx = nextTx /\ d.w = w
    OBVIOUS
  <2>3. rows \subseteq rows' /\ (n >= ProposalSave => [p |-> p, tx |-> nextTx, w |-> w] \in rows')
    BY <1>2 DEF ExecutePayout
  <2>4. /\ \A q \in Proposals \ {p} : proposal'[q] = proposal[q]
        /\ n < ProposalSave => proposal' = proposal
        /\ n >= ProposalSave => proposal'[p].tx = nextTx /\ proposal'[p].warrant = w
        /\ proposal[p].status = "dispute_window"
    BY <1>2, ExecutionMoves
  <2> HIDE DEF d
  <2>5. ASSUME NEW q \in Proposals, proposal'[q].status = "executed"
        PROVE  /\ [p |-> q, tx |-> proposal'[q].tx, w |-> proposal'[q].warrant] \in rows'
               /\ \E e \in debits' : e.p = q /\ e.tx = proposal'[q].tx /\ e.w = proposal'[q].warrant
    <3>1. CASE q = p
      <4>1. n >= ProposalSave
        BY <2>4, <2>5, <3>1
      <4> QED BY <2>1, <2>2, <2>3, <2>4, <3>1, <4>1
    <3>2. CASE q # p
      <4>1. proposal'[q] = proposal[q]
        BY <2>4, <3>2
      <4> QED BY <2>1, <2>3, <2>5, <4>1 DEF ExecutedIsPaid, DebitsOf
    <3> QED BY <3>1, <3>2
  <2> QED BY <2>5 DEF ExecutedIsPaid, DebitsOf
<1> QED
  BY <1>1, <1>2, OnlyExecutionPays

LEMMA PaidAgainStep ==
  ASSUME TypeOK, ExecutedIsPaid, PaidAgainOnlyAfterCrash, [Next]_vars
  PROVE  PaidAgainOnlyAfterCrash'
<1>1. \A d \in debits : d.p \in Proposals
  BY DEF TypeOK, Debit
<1>2. ASSUME NEW d \in debits, d.saves >= ProposalSave
      PROVE  proposal'[d.p].status = "executed" /\ proposal'[d.p].tx = d.tx
  BY <1>1, <1>2, ExecutedForGood DEF PaidAgainOnlyAfterCrash
<1>3. CASE UNCHANGED <<rows, debits>>
  BY <1>2, <1>3 DEF PaidAgainOnlyAfterCrash
<1>4. ASSUME NEW p \in Proposals, NEW w \in WarrantIds,
             NEW hash \in TxHashes \union {None}, NEW early \in BOOLEAN, NEW n \in 1..WarrantSave,
             NEW failed \in SUBSET {DispatchSave, QueueSave},
             ExecutePayout(p, w, hash, early, n, failed)
      PROVE  PaidAgainOnlyAfterCrash'
  <2>1. debits' = debits \union {[p |-> p, tx |-> nextTx, w |-> w, hash |-> hash,
                                  saves |-> n]}
    BY <1>4 DEF ExecutePayout
  <2>2. n >= ProposalSave => proposal'[p].status = "executed" /\ proposal'[p].tx = nextTx
    BY <1>4, ExecutionMoves
  <2> QED BY <1>2, <2>1, <2>2 DEF PaidAgainOnlyAfterCrash
<1> QED
  BY <1>3, <1>4, OnlyExecutionPays

-----------------------------------------------------------------------------
(***************************************************************************)
(* Reviews.                                                                *)
(***************************************************************************)

(* The transition table: review comes before whatever follows it.          *)
LEMMA ReviewComesFirst ==
  ASSUME NEW s \in Statuses, NEW t \in {"approved", "dispute_window"}, t \in Transitions[s]
  PROVE  s \in {"under_review", "approved"}
<1>1. /\ Transitions["none"] = {"draft"}
      /\ Transitions["draft"] = {"submitted", "cancelled"}
      /\ Transitions["submitted"] = {"under_review", "rejected", "cancelled"}
      /\ Transitions["dispute_window"] = {"executed", "rejected"}
      /\ Transitions["executed"] = {}
      /\ Transitions["rejected"] = {}
      /\ Transitions["cancelled"] = {}
  BY DEF Transitions
<1> QED
  BY <1>1 DEF Statuses

LEMMA ReviewStep ==
  ASSUME TypeOK, ExecutedIsPaid, ReviewedByAnother, [Next]_vars
  PROVE  ReviewedByAnother'
<1>1. CASE UNCHANGED proposal
  BY <1>1 DEF ReviewedByAnother
<1>2. ASSUME NEW p \in Proposals, Deciding(p)
      PROVE  ReviewedByAnother'
  <2>1. PICK r : Decided(p, r)
    BY <1>2, DecidingDecides
  <2>2. proposal' = [proposal EXCEPT ![p] = r] /\ r.status # "executed"
    BY <2>1 DEF Decided, Store
  <2>3. CASE r.status = "under_review"
    BY <2>1, <2>2, <2>3 DEF Decided, ReviewedByAnother, TypeOK
  <2>4. CASE r.status \in {"approved", "dispute_window"}
    <3>1. proposal[p].status \in Statuses /\ r.status \in Transitions[proposal[p].status]
      BY <2>1 DEF Decided, CanBecome, TypeOK, Proposal
    <3>2. proposal[p].status \in {"under_review", "approved"}
      BY <2>4, <3>1, ReviewComesFirst
    <3>3. proposal[p].reviewedBy \in Reviewers \ {proposal[p].contributor, proposal[p].proposedBy}
      BY <3>2 DEF ReviewedByAnother
    <3>4. /\ r.reviewedBy = proposal[p].reviewedBy
          /\ r.contributor = proposal[p].contributor
          /\ r.proposedBy = proposal[p].proposedBy
      BY <2>1, <2>4 DEF Decided
    <3> QED BY <2>2, <3>3, <3>4 DEF ReviewedByAnother, TypeOK
  <2>5. CASE r.status \notin {"under_review", "approved", "dispute_window"}
    BY <2>2, <2>5 DEF ReviewedByAnother, TypeOK
  <2> QED BY <2>3, <2>4, <2>5
<1>3. ASSUME NEW p \in Proposals, NEW w \in WarrantIds,
             NEW hash \in TxHashes \union {None}, NEW early \in BOOLEAN, NEW n \in 1..WarrantSave,
             NEW failed \in SUBSET {DispatchSave, QueueSave},
             ExecutePayout(p, w, hash, early, n, failed)
      PROVE  ReviewedByAnother'
  <2>1. /\ proposal[p].status = "dispute_window"
        /\ \A q \in Proposals \ {p} : proposal'[q] = proposal[q]
        /\ n < ProposalSave => proposal' = proposal
        /\ n >= ProposalSave =>
             /\ proposal'[p].reviewedBy = proposal[p].reviewedBy
             /\ proposal'[p].contributor = proposal[p].contributor
             /\ proposal'[p].proposedBy = proposal[p].proposedBy
    BY <1>3, ExecutionMoves
  <2>2. proposal[p].reviewedBy \in Reviewers \ {proposal[p].contributor, proposal[p].proposedBy}
    BY <2>1 DEF ReviewedByAnother
  <2> QED BY <2>1, <2>2 DEF ReviewedByAnother
<1>4. Elsewhere => UNCHANGED proposal
  BY DEF Elsewhere, storeVars
<1>5. Court => UNCHANGED proposal
  BY CourtStep
<1>6. Previewing => UNCHANGED proposal
  BY DEF Previewing, PreviewPayout
<1> QED
  BY <1>1, <1>2, <1>3, <1>4, <1>5, <1>6, StepKinds

-----------------------------------------------------------------------------
(***************************************************************************)
(* Warrants and payments.  A warrant that has paid exists, so its id is    *)
(* never issued again; and a payment that was saved to the last marked it, *)
(* so it is not valid for another.                                         *)
(***************************************************************************)
PaymentsRemembered ==
  \A d \in debits :
    /\ Exists(warrant[d.w])
    /\ d.tx < nextTx
    /\ d.saves = WarrantSave => warrant[d.w].execution = "executed"

WarrantInv == WarrantPaysOnce /\ PaymentsRemembered

(* Steps that pay nothing keep it.                                         *)
LEMMA WarrantIdle ==
  ASSUME TypeOK, TypeOK', WarrantInv, WarrantsKept, debits' = debits, nextTx' >= nextTx,
         \A q \in Proposals : proposal[q].status = "executed" => proposal'[q] = proposal[q]
  PROVE  WarrantInv'
<1>1. \A d \in debits : d.w \in WarrantIds /\ d.tx \in Nat
  BY DEF TypeOK, Debit
<1>2. nextTx \in Nat /\ nextTx' \in Nat
  BY PayoutAssumptions DEF TypeOK
<1>3. PaymentsRemembered'
  BY <1>1, <1>2 DEF WarrantInv, PaymentsRemembered, WarrantsKept
<1>4. \A d \in debits' : boundTo'[d.w] \in {<<d.p, d.hash>>, None}
  BY <1>1 DEF WarrantInv, PaymentsRemembered, WarrantPaysOnce, WarrantsKept
<1>5. \A d, e \in debits' : d.w = e.w /\ d.tx < e.tx => d.saves < WarrantSave
  BY DEF WarrantInv, WarrantPaysOnce
<1>6. ASSUME NEW w \in WarrantIds, warrant'[w].execution = "executed"
      PROVE  \E p \in Proposals : proposal'[p].status = "executed" /\ proposal'[p].warrant = w
  BY <1>6 DEF WarrantInv, WarrantPaysOnce, WarrantsKept
<1> QED
  BY <1>3, <1>4, <1>5, <1>6 DEF WarrantInv, WarrantPaysOnce

LEMMA WarrantStep ==
  ASSUME TypeOK, ExecutedIsPaid, WarrantInv, [Next]_vars
  PROVE  WarrantInv'
<1>1. TypeOK'
  BY TypeStep
<1>2. \A q \in Proposals : proposal[q].status = "executed" => proposal'[q] = proposal[q]
  BY ExecutedForGood
<1>3. WarrantsTyped
  BY DEF TypeOK, WarrantsTyped
<1>4. nextTx \in Nat
  BY PayoutAssumptions DEF TypeOK
<1>5. CASE Elsewhere
  <2>1. WarrantsKept
    BY <1>3, <1>5, SameWarrants DEF Elsewhere, storeVars
  <2> QED BY <1>1, <1>2, <1>4, <1>5, <2>1, WarrantIdle DEF Elsewhere, storeVars
<1>6. ASSUME NEW p \in Proposals, Deciding(p)
      PROVE  WarrantInv'
  <2>1. PICK r : Store(p, r)
    BY <1>6, DecidingDecides DEF Decided
  <2>2. WarrantsKept
    BY <1>3, <2>1, SameWarrants DEF Store, courtVars
  <2> QED BY <1>1, <1>2, <1>4, <2>1, <2>2, WarrantIdle DEF Store, paymentVars
<1>7. CASE Court
  BY <1>1, <1>2, <1>4, <1>7, CourtStep, WarrantIdle DEF paymentVars
<1>8. CASE Previewing
  <2>1. UNCHANGED <<courtVars, debits>> /\ nextTx' = nextTx + 1
    BY <1>8 DEF Previewing, PreviewPayout
  <2>2. WarrantsKept
    BY <1>3, <2>1, SameWarrants DEF courtVars
  <2> QED BY <1>1, <1>2, <1>4, <2>1, <2>2, WarrantIdle
<1>9. ASSUME NEW p \in Proposals, NEW w \in WarrantIds,
             NEW hash \in TxHashes \union {None}, NEW early \in BOOLEAN, NEW n \in 1..WarrantSave,
             NEW failed \in SUBSET {DispatchSave, QueueSave},
             ExecutePayout(p, w, hash, early, n, failed)
      PROVE  WarrantInv'
  <2> DEFINE new == [p |-> p, tx |-> nextTx, w |-> w, hash |-> hash,
                     saves |-> n]
  <2>1. debits' = debits \union {new} /\ boundTo' = boundTo
    BY <1>9 DEF ExecutePayout
  <2>2. new.p = p /\ new.tx = nextTx /\ new.w = w /\ new.hash = hash /\ new.saves = n
    OBVIOUS
  <2> HIDE DEF new
  <2>3. /\ ValidForExecution(warrant[w])
        /\ boundTo[w] \in {<<p, hash>>, None}
        /\ nextTx' = nextTx + 1
        /\ n >= ProposalSave => proposal'[p].status = "executed" /\ proposal'[p].warrant = w
        /\ \A v \in WarrantIds : Exists(warrant[v]) => Exists(warrant'[v])
        /\ \A v \in WarrantIds \ {w} : warrant'[v] = warrant[v]
        /\ n < WarrantSave => warrant' = warrant
        /\ n = WarrantSave => warrant'[w].execution = "executed"
    <3>1. /\ ValidForExecution(warrant[w])
          /\ boundTo[w] \in {<<p, hash>>, None}
          /\ nextTx' = nextTx + 1
      BY <1>9, ExecutionMoves
    <3>2. n >= ProposalSave => proposal'[p].status = "executed" /\ proposal'[p].warrant = w
      BY <1>9, ExecutionMoves
    <3>3. /\ \A v \in WarrantIds : Exists(warrant[v]) => Exists(warrant'[v])
          /\ \A v \in WarrantIds \ {w} : warrant'[v] = warrant[v]
      BY <1>9, ExecutionMoves DEF Exists
    <3>4. /\ n < WarrantSave => warrant' = warrant
          /\ n = WarrantSave => warrant'[w].execution = "executed"
      BY <1>9, ExecutionMoves
    <3> QED BY <3>1, <3>2, <3>3, <3>4
  <2>4. Exists(warrant[w]) /\ warrant[w].execution = "ready"
    BY <2>3 DEF ValidForExecution, Permitted, Exists
  <2>5. \A d \in debits : d.w \in WarrantIds /\ d.tx \in Nat /\ d.saves \in 1..WarrantSave
    BY DEF TypeOK, Debit
  <2>6. \A d \in debits : d.w = w => d.saves < WarrantSave
    BY <2>4, <2>5 DEF WarrantInv, PaymentsRemembered
  <2>7. PaymentsRemembered'
    <3>1. ASSUME NEW d \in debits
          PROVE  /\ Exists(warrant'[d.w])
                 /\ d.tx < nextTx'
                 /\ d.saves = WarrantSave => warrant'[d.w].execution = "executed"
      <4>1. /\ Exists(warrant[d.w]) /\ d.tx < nextTx
            /\ d.saves = WarrantSave => warrant[d.w].execution = "executed"
        BY DEF WarrantInv, PaymentsRemembered
      <4>2. d.saves = WarrantSave => d.w # w
        BY <2>6
      <4> QED BY <1>4, <2>3, <2>5, <4>1, <4>2
    <3>2. /\ Exists(warrant'[w])
          /\ nextTx < nextTx'
          /\ n = WarrantSave => warrant'[w].execution = "executed"
      BY <1>4, <2>3, <2>4
    <3> QED BY <2>1, <2>2, <3>1, <3>2 DEF PaymentsRemembered
  <2>8. \A d \in debits' : boundTo'[d.w] \in {<<d.p, d.hash>>, None}
    BY <2>1, <2>2, <2>3 DEF WarrantInv, WarrantPaysOnce
  <2>9. ASSUME NEW d \in debits', NEW e \in debits', d.w = e.w, d.tx < e.tx
        PROVE  d.saves < WarrantSave
    <3>1. CASE d \in debits /\ e \in debits
      BY <2>9, <3>1 DEF WarrantInv, WarrantPaysOnce
    <3>2. CASE d \in debits /\ e = new
      BY <2>2, <2>6, <2>9, <3>2
    <3>3. CASE d = new
      <4>1. e.tx <= nextTx
        BY <1>4, <2>1, <2>2, <2>5 DEF WarrantInv, PaymentsRemembered
      <4>2. e.tx \in Nat
        BY <1>4, <2>1, <2>2, <2>5
      <4> QED BY <1>4, <2>2, <2>9, <3>3, <4>1, <4>2
    <3> QED BY <2>1, <3>1, <3>2, <3>3
  <2>10. ASSUME NEW v \in WarrantIds, warrant'[v].execution = "executed"
         PROVE  \E q \in Proposals : proposal'[q].status = "executed" /\ proposal'[q].warrant = v
    <3>1. CASE warrant[v].execution = "executed"
      <4>1. PICK q \in Proposals : proposal[q].status = "executed" /\ proposal[q].warrant = v
        BY <3>1 DEF WarrantInv, WarrantPaysOnce
      <4> QED BY <1>2, <4>1
    <3>2. CASE warrant[v].execution # "executed"
      <4>1. v = w /\ n = WarrantSave
        BY <2>3, <2>10, <3>2
      <4> QED BY <2>3, <4>1
    <3> QED BY <3>1, <3>2
  <2> QED BY <2>7, <2>8, <2>9, <2>10 DEF WarrantInv, WarrantPaysOnce
<1> QED
  BY <1>5, <1>6, <1>7, <1>8, <1>9, StepKinds

-----------------------------------------------------------------------------
(***************************************************************************)
(* The execution queue.                                                    *)
(***************************************************************************)

(* The transactions still to come have no entry in the queue.              *)
NothingAhead == \A tx \in 1..MaxTx : tx >= nextTx => queue[tx] = "none"

LEMMA QueueStep ==
  ASSUME TypeOK, ExecutedIsPaid, WarrantInv, NothingAhead, QueueIsHonest, [Next]_vars
  PROVE  NothingAhead' /\ QueueIsHonest'
<1> USE PayoutAssumptions
<1>1. \A q \in Proposals : proposal[q].status = "executed" => proposal'[q] = proposal[q]
  BY ExecutedForGood
<1>2. nextTx \in Nat /\ queue \in [1..MaxTx -> {"none", "previewed", "dispatchable", "executed"}]
  BY DEF TypeOK
<1>3. \A d \in debits : d.tx < nextTx
  BY DEF WarrantInv, PaymentsRemembered
<1>4. ASSUME UNCHANGED paymentVars
      PROVE  NothingAhead' /\ QueueIsHonest'
  BY <1>1, <1>4 DEF paymentVars, NothingAhead, QueueIsHonest
<1>5. CASE Elsewhere
  BY <1>4, <1>5 DEF Elsewhere, storeVars, paymentVars
<1>6. ASSUME NEW p \in Proposals, Deciding(p)
      PROVE  NothingAhead' /\ QueueIsHonest'
  BY <1>4, <1>6, DecidingDecides DEF Decided, Store
<1>7. CASE Court
  BY <1>4, <1>7, CourtStep
<1>8. CASE Previewing
  <2>1. /\ nextTx \in 1..MaxTx
        /\ queue' = [queue EXCEPT ![nextTx] = "previewed"]
        /\ nextTx' = nextTx + 1
        /\ UNCHANGED <<proposal, rows, debits>>
    BY <1>8 DEF Previewing, PreviewPayout, Executable, TypeOK
  <2>2. NothingAhead'
    BY <1>2, <2>1 DEF NothingAhead
  <2>3. ASSUME NEW tx \in 1..MaxTx
        PROVE  /\ queue'[tx] = "previewed" => \A d \in debits' : d.tx # tx
               /\ queue'[tx] \in {"dispatchable", "executed"} => \E r \in rows' : r.tx = tx
               /\ queue'[tx] = "executed" =>
                    \E q \in Proposals : proposal'[q].status = "executed" /\ proposal'[q].tx = tx
    <3>1. CASE tx = nextTx
      BY <1>2, <1>3, <2>1, <3>1
    <3>2. CASE tx # nextTx
      BY <1>2, <2>1, <3>2 DEF QueueIsHonest
    <3> QED BY <3>1, <3>2
  <2> QED BY <2>2, <2>3 DEF QueueIsHonest
<1>9. ASSUME NEW p \in Proposals, NEW w \in WarrantIds,
             NEW hash \in TxHashes \union {None}, NEW early \in BOOLEAN, NEW n \in 1..WarrantSave,
             NEW failed \in SUBSET {DispatchSave, QueueSave},
             ExecutePayout(p, w, hash, early, n, failed)
      PROVE  NothingAhead' /\ QueueIsHonest'
  <2>1. /\ nextTx \in 1..MaxTx
        /\ nextTx' = nextTx + 1
        /\ n >= ProposalSave => proposal'[p].status = "executed" /\ proposal'[p].tx = nextTx
    BY <1>9, ExecutionMoves
  <2>2. queue' = CASE QueueSave \in 1..n \ failed    -> [queue EXCEPT ![nextTx] = "executed"]
                   [] DispatchSave \in 1..n \ failed -> [queue EXCEPT ![nextTx] = "dispatchable"]
                   [] OTHER                         -> queue
    BY <1>9 DEF ExecutePayout
  <2>3. /\ \A tx \in 1..MaxTx \ {nextTx} : queue'[tx] = queue[tx]
        /\ queue'[nextTx] \in {"none", "dispatchable", "executed"}
        /\ queue'[nextTx] # "none" => n >= JournalSave
        /\ queue'[nextTx] = "executed" => n >= ProposalSave
    <3>1. queue[nextTx] = "none"
      BY <2>1 DEF NothingAhead
    <3> QED BY <1>2, <2>1, <2>2, <3>1
  <2>4. NothingAhead'
    BY <1>2, <2>1, <2>3 DEF NothingAhead
  <2> DEFINE row == [p |-> p, tx |-> nextTx, w |-> w]
             new == [p |-> p, tx |-> nextTx, w |-> w, hash |-> hash, saves |-> n]
  <2>5. /\ rows \subseteq rows' /\ (n >= JournalSave => row \in rows')
        /\ debits' = debits \union {new}
    BY <1>9 DEF ExecutePayout
  <2>6. row.tx = nextTx /\ new.tx = nextTx
    OBVIOUS
  <2> HIDE DEF row, new
  <2>7. ASSUME NEW tx \in 1..MaxTx
        PROVE  /\ queue'[tx] = "previewed" => \A d \in debits' : d.tx # tx
               /\ queue'[tx] \in {"dispatchable", "executed"} => \E r \in rows' : r.tx = tx
               /\ queue'[tx] = "executed" =>
                    \E q \in Proposals : proposal'[q].status = "executed" /\ proposal'[q].tx = tx
    <3>1. CASE tx = nextTx
      BY <2>1, <2>3, <2>5, <2>6, <3>1
    <3>2. CASE tx # nextTx
      <4>1. queue'[tx] = queue[tx]
        BY <2>3, <3>2
      <4>2. queue'[tx] = "previewed" => \A d \in debits' : d.tx # tx
        BY <2>5, <2>6, <3>2, <4>1 DEF QueueIsHonest
      <4>3. queue'[tx] \in {"dispatchable", "executed"} => \E r \in rows' : r.tx = tx
        BY <2>5, <4>1 DEF QueueIsHonest
      <4>4. queue'[tx] = "executed" =>
              \E q \in Proposals : proposal'[q].status = "executed" /\ proposal'[q].tx = tx
        BY <1>1, <4>1 DEF QueueIsHonest
      <4> QED BY <4>2, <4>3, <4>4
    <3> QED BY <3>1, <3>2
  <2> QED BY <2>4, <2>7 DEF QueueIsHonest
<1> QED
  BY <1>5, <1>6, <1>7, <1>8, <1>9, StepKinds

-----------------------------------------------------------------------------
(***************************************************************************)
(* Settlement refs.  A ref is recorded from a payment, and the payments    *)
(* that share no transaction hash replace only refs of their own.          *)
(***************************************************************************)

(* What recording a ref does to the list: one place holds the new ref, the *)
(* others are as they were; the place held a ref that is the same, or was  *)
(* added because there is none.                                            *)
LEMMA RecordedPlaces ==
  ASSUME NEW list \in Seq(Ref), NEW r \in Ref
  PROVE  /\ Recorded(list, r) \in Seq(Ref)
         /\ \E k \in Nat :
              /\ 1..Len(Recorded(list, r)) = 1..Len(list) \union {k}
              /\ Recorded(list, r)[k] = r
              /\ \A i \in 1..Len(list) \ {k} : Recorded(list, r)[i] = list[i]
              /\ k \in 1..Len(list) => Same(list[k], r)
              /\ k \notin 1..Len(list) => \A i \in 1..Len(list) : ~Same(list[i], r)
<1> DEFINE new == Recorded(list, r)
<1>1. Len(list) \in Nat /\ list \in [1..Len(list) -> Ref]
  OBVIOUS
<1>2. new \in Seq(Ref)
  BY RecordedTyped
<1>3. CASE Matching(list, r) = {}
  <2>1. new = Append(list, r)
    BY <1>3 DEF Recorded
  <2>2. /\ Len(new) = Len(list) + 1
        /\ new[Len(list) + 1] = r
        /\ \A i \in 1..Len(list) : new[i] = list[i]
    BY <1>1, <2>1
  <2>3. \A i \in 1..Len(list) : ~Same(list[i], r)
    BY <1>3 DEF Matching
  <2> HIDE DEF new
  <2>4. 1..Len(new) = 1..Len(list) \union {Len(list) + 1} /\ Len(list) + 1 \notin 1..Len(list)
    BY <1>1, <2>2
  <2> QED BY <1>1, <1>2, <2>2, <2>3, <2>4 DEF new
<1>4. CASE Matching(list, r) # {}
  <2>1. Matching(list, r) \subseteq Nat
    BY <1>1 DEF Matching
  <2>2. PICK m \in Matching(list, r) : \A j \in Matching(list, r) : m <= j
    BY <1>4, <2>1, LeastElement
  <2> DEFINE k == CHOOSE i \in Matching(list, r) : \A j \in Matching(list, r) : i <= j
  <2>3. k \in Matching(list, r)
    BY <2>2
  <2>4. new = [list EXCEPT ![k] = r]
    BY <1>4 DEF Recorded
  <2> HIDE DEF k
  <2>5. k \in 1..Len(list) /\ Same(list[k], r)
    BY <2>3 DEF Matching
  <2>6. DOMAIN new = 1..Len(list)
    BY <1>1, <2>4
  <2>7. new[k] = r /\ \A i \in 1..Len(list) \ {k} : new[i] = list[i]
    BY <1>1, <2>4, <2>5
  <2> HIDE DEF new
  <2>8. k \in Nat /\ 1..Len(new) = 1..Len(list) \union {k}
    BY <1>2, <2>5, <2>6
  <2> QED BY <1>2, <2>5, <2>7, <2>8 DEF new
<1> QED
  BY <1>3, <1>4

(* The payment a ref was recorded from.                                    *)
Pays(d, r) == d.p = r.p /\ d.tx = r.tx /\ d.hash = r.hash

(* Payouts among these payments that share a hash, as SharesHash has it.   *)
Shares(D, p) ==
  \E d \in {e \in D : e.p = p}, e \in D \ {e \in D : e.p = p} : d.hash = e.hash /\ d.hash # None

Single(list, p) == \A i, j \in 1..Len(list) : list[i].p = p /\ list[j].p = p => i = j

(* Recording the ref of a payment beside refs of payments: each place has  *)
(* its payment still, and of a payout that shares no hash there is one ref *)
(* still, which only another of its own replaces.                          *)
LEMMA RecordedKeeps ==
  ASSUME NEW list \in Seq(Ref), NEW r \in Ref, NEW D,
         \A d, e \in D : d.tx = e.tx => d = e,
         \A i \in 1..Len(list) : \E d \in D : Pays(d, list[i]),
         \E d \in D : Pays(d, r)
  PROVE  LET new == Recorded(list, r) IN
         /\ \A i \in 1..Len(new) : new[i] = r \/ \E j \in 1..Len(list) : new[i] = list[j]
         /\ \E i \in 1..Len(new) : new[i] = r
         /\ \A p : ~Shares(D, p) /\ Single(list, p) =>
              /\ Single(new, p)
              /\ r.p # p => \A i \in 1..Len(list) : list[i].p = p =>
                              i \in 1..Len(new) /\ new[i] = list[i]
<1> DEFINE new == Recorded(list, r)
<1>1. PICK k \in Nat :
        /\ 1..Len(new) = 1..Len(list) \union {k}
        /\ new[k] = r
        /\ \A i \in 1..Len(list) \ {k} : new[i] = list[i]
        /\ k \in 1..Len(list) => Same(list[k], r)
        /\ k \notin 1..Len(list) => \A i \in 1..Len(list) : ~Same(list[i], r)
  BY RecordedPlaces
<1> HIDE DEF new
<1>2. \A i \in 1..Len(new) : new[i] = r \/ \E j \in 1..Len(list) : new[i] = list[j]
  BY <1>1
<1>3. \E i \in 1..Len(new) : new[i] = r
  BY <1>1
<1>4. ASSUME NEW p, ~Shares(D, p), NEW i \in 1..Len(list), Same(list[i], r)
      PROVE  list[i].p = p <=> r.p = p
  <2>1. PICK d \in D : Pays(d, list[i])
    OBVIOUS
  <2>2. PICK e \in D : Pays(e, r)
    OBVIOUS
  <2>3. CASE list[i].p = r.p
    BY <2>3
  <2>4. CASE list[i].tx = r.tx
    BY <2>1, <2>2, <2>4 DEF Pays
  <2>5. CASE r.hash # None /\ list[i].hash = r.hash
    <3>1. d.hash = e.hash /\ d.hash # None /\ d.p = list[i].p /\ e.p = r.p
      BY <2>1, <2>2, <2>5 DEF Pays
    <3> QED BY <1>4, <3>1 DEF Shares
  <2> QED BY <1>4, <2>3, <2>4, <2>5 DEF Same
<1>5. ASSUME NEW p, ~Shares(D, p), Single(list, p)
      PROVE  /\ Single(new, p)
             /\ r.p # p => \A i \in 1..Len(list) : list[i].p = p =>
                             i \in 1..Len(new) /\ new[i] = list[i]
  <2>1. CASE r.p # p
    <3>1. ASSUME NEW i \in 1..Len(list), list[i].p = p
          PROVE  i # k /\ i \in 1..Len(new) /\ new[i] = list[i]
      BY <1>1, <1>4, <1>5, <2>1, <3>1
    <3>2. \A i \in 1..Len(new) : new[i].p = p => i # k /\ i \in 1..Len(list) /\ list[i].p = p
      BY <1>1, <2>1
    <3>3. Single(new, p)
      BY <1>5, <3>2 DEF Single
    <3> QED BY <3>1, <3>3
  <2>2. CASE r.p = p
    <3>1. \A i \in 1..Len(list) : list[i].p = p => Same(list[i], r)
      BY <2>2 DEF Same
    <3>2. k \in 1..Len(list) => list[k].p = p
      BY <1>1, <1>4, <1>5, <2>2
    <3>3. ASSUME NEW i \in 1..Len(list), list[i].p = p, i # k
          PROVE  FALSE
      <4>1. CASE k \in 1..Len(list)
        BY <1>5, <3>2, <3>3, <4>1 DEF Single
      <4>2. CASE k \notin 1..Len(list)
        BY <1>1, <3>1, <3>3, <4>2
      <4> QED BY <4>1, <4>2
    <3> QED BY <1>1, <2>2, <3>3 DEF Single
  <2> QED BY <2>1, <2>2
<1> QED
  BY <1>2, <1>3, <1>5 DEF new

(* Every payment has a transaction of its own; an executed proposal names  *)
(* the hash of its payment too; and a ref, the payment it was recorded for.*)
PaymentsDiffer == \A d, e \in debits : d.tx = e.tx => d = e

PaidUnderItsHash ==
  \A p \in Proposals : proposal[p].status = "executed" =>
    \E d \in debits : d.p = p /\ d.tx = proposal[p].tx /\ d.hash = proposal[p].hash

RefsHavePayments ==
  \A c \in Commitments : \A i \in 1..Len(refs[c]) : \E d \in debits : Pays(d, refs[c][i])

RefInv == PaymentsDiffer /\ PaidUnderItsHash /\ RefsHavePayments /\ SettlementRefsAreBacked

(* Payouts that share a hash share it for good.                            *)
LEMMA SharedForGood ==
  ASSUME NEW p, debits \subseteq debits'
  PROVE  /\ SharesHash(p) => SharesHash(p)'
         /\ SharesHash(p)' <=> Shares(debits', p)
BY DEF SharesHash, DebitsOf, Shares

(* What is asked of the refs of one commitment.                            *)
RefsOf(c) ==
  /\ \A i \in 1..Len(refs[c]) : \E d \in debits : Pays(d, refs[c][i])
  /\ \A i \in 1..Len(refs[c]) : \E r \in rows : r.p = refs[c][i].p /\ r.tx = refs[c][i].tx
  /\ \A p \in Proposals : ~SharesHash(p) =>
       /\ Single(refs[c], p)
       /\ proposal[p].status = "executed" /\ proposal[p].link = c =>
            \E i \in 1..Len(refs[c]) : refs[c][i].p = p /\ refs[c][i].tx = proposal[p].tx

LEMMA RefsOfEach ==
  (\A c \in Commitments : RefsOf(c)) <=> RefsHavePayments /\ SettlementRefsAreBacked
BY DEF RefsOf, RefsHavePayments, SettlementRefsAreBacked, Single

(* Refs that stay as they are.                                             *)
LEMMA SameRefs ==
  ASSUME NEW c \in Commitments, RefsOf(c), refs'[c] = refs[c],
         debits \subseteq debits', rows \subseteq rows',
         \A q \in Proposals : proposal'[q].status = "executed" /\ proposal'[q].link = c =>
           proposal'[q] = proposal[q]
  PROVE  RefsOf(c)'
<1>1. \A p \in Proposals : ~SharesHash(p)' => ~SharesHash(p)
  BY SharedForGood
<1> QED
  BY <1>1 DEF RefsOf

(* A ref recorded for a payment of the proposal: none else is executed by  *)
(* the step, and if that one is, it names the transaction of the ref.      *)
LEMMA RecordedRefs ==
  ASSUME TypeOK, NEW c \in Commitments, RefsOf(c), NEW r \in Ref,
         refs'[c] = Recorded(refs[c], r),
         debits \subseteq debits', rows \subseteq rows', PaymentsDiffer',
         \E d \in debits' : Pays(d, r),
         \E row \in rows' : row.p = r.p /\ row.tx = r.tx,
         \A q \in Proposals : proposal'[q].status = "executed" /\ proposal'[q].link = c =>
           /\ q = r.p => proposal'[q].tx = r.tx
           /\ q # r.p => proposal'[q] = proposal[q]
  PROVE  RefsOf(c)'
<1> DEFINE list == refs[c]
           new == Recorded(list, r)
<1>1. list \in Seq(Ref)
  BY DEF TypeOK
<1>2. \A i \in 1..Len(list) : \E d \in debits' : Pays(d, list[i])
  BY DEF RefsOf
<1>3. \A d, e \in debits' : d.tx = e.tx => d = e
  BY DEF PaymentsDiffer
<1>4. /\ \A i \in 1..Len(new) : new[i] = r \/ \E j \in 1..Len(list) : new[i] = list[j]
      /\ \E i \in 1..Len(new) : new[i] = r
      /\ \A p : ~Shares(debits', p) /\ Single(list, p) =>
           /\ Single(new, p)
           /\ r.p # p => \A i \in 1..Len(list) : list[i].p = p =>
                           i \in 1..Len(new) /\ new[i] = list[i]
  <2> HIDE DEF list
  <2> QED BY <1>1, <1>2, <1>3, RecordedKeeps
<1>5. refs'[c] = new
  OBVIOUS
<1> HIDE DEF new
<1>6. \A i \in 1..Len(new) : \E d \in debits' : Pays(d, new[i])
  BY <1>2, <1>4
<1>7. \A i \in 1..Len(new) : \E row \in rows' : row.p = new[i].p /\ row.tx = new[i].tx
  BY <1>4 DEF RefsOf
<1>8. ASSUME NEW p \in Proposals, ~SharesHash(p)'
      PROVE  /\ Single(new, p)
             /\ proposal'[p].status = "executed" /\ proposal'[p].link = c =>
                  \E i \in 1..Len(new) : new[i].p = p /\ new[i].tx = proposal'[p].tx
  <2>1. ~SharesHash(p) /\ ~Shares(debits', p)
    BY <1>8, SharedForGood
  <2>2. Single(list, p)
    BY <2>1 DEF RefsOf
  <2>3. Single(new, p)
    BY <1>4, <2>1, <2>2
  <2>4. ASSUME proposal'[p].status = "executed", proposal'[p].link = c
        PROVE  \E i \in 1..Len(new) : new[i].p = p /\ new[i].tx = proposal'[p].tx
    <3>1. CASE p = r.p
      BY <1>4, <2>4, <3>1
    <3>2. CASE p # r.p
      <4>1. PICK i \in 1..Len(list) : list[i].p = p /\ list[i].tx = proposal[p].tx
        BY <2>1, <2>4, <3>2 DEF RefsOf
      <4>2. i \in 1..Len(new) /\ new[i] = list[i]
        BY <1>4, <2>1, <2>2, <3>2, <4>1
      <4> QED BY <2>4, <3>2, <4>1, <4>2
    <3> QED BY <3>1, <3>2
  <2> QED BY <2>3, <2>4
<1> QED
  BY <1>5, <1>6, <1>7, <1>8 DEF RefsOf

(* What moves the refs: a settlement, or an execution.                     *)
LEMMA OnlyTheseMoveRefs ==
  ASSUME TypeOK, ExecutedIsPaid, [Next]_vars
  PROVE  \/ UNCHANGED <<refs, rows, debits>>
         \/ \E p \in Proposals, c \in Commitments, n \in 1..2 : SettleWithPayout(c, p, n)
         \/ \E p \in Proposals, w \in WarrantIds, hash \in TxHashes \union {None},
               early \in BOOLEAN, n \in 1..WarrantSave,
               failed \in SUBSET {DispatchSave, QueueSave} :
              ExecutePayout(p, w, hash, early, n, failed)
<1>1. Elsewhere => UNCHANGED <<refs, rows, debits>>
  BY DEF Elsewhere, storeVars
<1>2. ASSUME NEW p \in Proposals, Deciding(p)
      PROVE  UNCHANGED <<refs, rows, debits>>
  BY <1>2, DecidingDecides DEF Decided, Store, courtVars, paymentVars
<1>3. ASSUME Court
      PROVE  \/ UNCHANGED <<refs, rows, debits>>
             \/ \E p \in Proposals, c \in Commitments, n \in 1..2 : SettleWithPayout(c, p, n)
  <2>1. UNCHANGED <<rows, debits>>
    BY <1>3, CourtStep DEF paymentVars
  <2>2. \/ UNCHANGED refs
        \/ \E p \in Proposals, c \in Commitments, n \in 1..2 : SettleWithPayout(c, p, n)
    BY <1>3 DEF Court, ReviewWarrant, ExpireWarrant, IssueWarrant, BlockedByCase, OpenCase,
                BreachCommitment, ReviewCommitment, ResolveCase
  <2> QED BY <2>1, <2>2
<1>4. Previewing => UNCHANGED <<refs, rows, debits>>
  BY DEF Previewing, PreviewPayout, courtVars
<1> QED
  BY <1>1, <1>2, <1>3, <1>4, StepKinds

LEMMA RefStep ==
  ASSUME TypeOK, ExecutedIsPaid, WarrantInv, RefInv, [Next]_vars
  PROVE  RefInv'
<1> USE PayoutAssumptions
<1>1. \A q \in Proposals : proposal[q].status = "executed" => proposal'[q] = proposal[q]
  BY ExecutedForGood
<1>2. \A c \in Commitments : RefsOf(c)
  BY RefsOfEach DEF RefInv
<1>3. ASSUME PaymentsDiffer', PaidUnderItsHash', \A c \in Commitments : RefsOf(c)'
      PROVE  RefInv'
  <2>1. RefsHavePayments' /\ SettlementRefsAreBacked'
    BY <1>3 DEF RefsOf, RefsHavePayments, SettlementRefsAreBacked, Single
  <2> QED BY <1>3, <2>1 DEF RefInv
<1>4. ASSUME UNCHANGED <<rows, debits>>,
             \A q \in Proposals : proposal'[q].status = "executed" => proposal'[q] = proposal[q]
      PROVE  PaymentsDiffer' /\ PaidUnderItsHash'
  BY <1>4 DEF RefInv, PaymentsDiffer, PaidUnderItsHash
<1>5. ASSUME UNCHANGED <<refs, rows, debits>>,
             \A q \in Proposals : proposal'[q].status = "executed" => proposal'[q] = proposal[q]
      PROVE  RefInv'
  <2>1. \A c \in Commitments : RefsOf(c)'
    BY <1>2, <1>5, SameRefs
  <2> QED BY <1>3, <1>4, <1>5, <2>1
<1>6. ASSUME NEW p \in Proposals, NEW c \in Commitments, NEW n \in 1..2, SettleWithPayout(c, p, n)
      PROVE  RefInv'
  <2> DEFINE r == [p |-> p, tx |-> proposal[p].tx, hash |-> proposal[p].hash]
  <2>1. /\ proposal[p].status = "executed" /\ proposal[p].link = c
        /\ refs' = [refs EXCEPT ![c] = Recorded(refs[c], r)]
        /\ UNCHANGED <<proposal, rows, debits>>
    BY <1>6 DEF SettleWithPayout, paymentVars
  <2>2. PICK d \in debits : d.p = p /\ d.tx = proposal[p].tx /\ d.hash = proposal[p].hash
    BY <2>1 DEF RefInv, PaidUnderItsHash
  <2>3. r.p = p /\ r.tx = d.tx /\ r.hash = d.hash /\ r.tx = proposal[p].tx
    BY <2>2
  <2>4. r \in Ref
    BY <2>2 DEF TypeOK, Debit, Ref
  <2>5. \E row \in rows : row.p = p /\ row.tx = proposal[p].tx
    BY <2>1 DEF ExecutedIsPaid
  <2> HIDE DEF r
  <2>6. refs'[c] = Recorded(refs[c], r) /\ \A b \in Commitments \ {c} : refs'[b] = refs[b]
    BY <2>1 DEF TypeOK
  <2>7. PaymentsDiffer' /\ PaidUnderItsHash'
    BY <1>4, <2>1
  <2>8. \E e \in debits' : Pays(e, r)
    BY <2>1, <2>2, <2>3 DEF Pays
  <2>9. RefsOf(c)'
    BY <1>2, <2>1, <2>3, <2>4, <2>5, <2>6, <2>7, <2>8, RecordedRefs
  <2>10. \A b \in Commitments \ {c} : RefsOf(b)'
    BY <1>2, <2>1, <2>6, SameRefs
  <2> QED BY <1>3, <2>7, <2>9, <2>10
<1>7. ASSUME NEW p \in Proposals, NEW w \in WarrantIds,
             NEW hash \in TxHashes \union {None}, NEW early \in BOOLEAN, NEW n \in 1..WarrantSave,
             NEW failed \in SUBSET {DispatchSave, QueueSave},
             ExecutePayout(p, w, hash, early, n, failed)
      PROVE  RefInv'
  <2> DEFINE c == proposal[p].link
             r == [p |-> p, tx |-> nextTx, hash |-> hash]
             d == [p |-> p, tx |-> nextTx, w |-> w, hash |-> hash, saves |-> n]
             row == [p |-> p, tx |-> nextTx, w |-> w]
  <2>1. /\ proposal[p].status = "dispute_window"
        /\ nextTx \in 1..MaxTx
        /\ \A q \in Proposals \ {p} : proposal'[q] = proposal[q]
        /\ n < ProposalSave => proposal' = proposal
    BY <1>7, ExecutionMoves
  <2>2. n >= ProposalSave => /\ proposal'[p].tx = nextTx /\ proposal'[p].hash = hash
                             /\ proposal'[p].link = c
    <3>1. n >= ProposalSave =>
            proposal'[p] = [proposal[p] EXCEPT !.status = "executed", !.tx = nextTx,
                                               !.hash = hash, !.warrant = w]
      BY <1>7 DEF ExecutePayout, TypeOK
    <3>2. proposal[p] \in Proposal
      BY DEF TypeOK
    <3> QED BY <3>1, <3>2 DEF Proposal
  <2>3. /\ debits' = debits \union {d}
        /\ rows \subseteq rows' /\ (n >= SettlementSave => row \in rows')
        /\ n >= SettlementSave /\ c # None => refs' = [refs EXCEPT ![c] = Recorded(refs[c], r)]
        /\ n < SettlementSave \/ c = None => refs' = refs
    BY <1>7 DEF ExecutePayout
  <2>4. /\ d.p = p /\ d.tx = nextTx /\ d.hash = hash /\ Pays(d, r)
        /\ r.p = p /\ r.tx = nextTx /\ row.p = p /\ row.tx = nextTx
    BY DEF Pays
  <2>5. r \in Ref
    BY <2>1 DEF Ref
  <2>6. c \in Commitments \union {None}
    BY DEF TypeOK, Proposal
  <2> HIDE DEF c, r, d, row
  <2>7. PaymentsDiffer'
    <3>1. \A e \in debits : e.tx # nextTx
      BY <2>1 DEF WarrantInv, PaymentsRemembered, TypeOK
    <3> QED BY <2>3, <2>4, <3>1 DEF RefInv, PaymentsDiffer
  <2>8. PaidUnderItsHash'
    <3>1. ASSUME NEW q \in Proposals, proposal'[q].status = "executed"
          PROVE  \E e \in debits' : e.p = q /\ e.tx = proposal'[q].tx /\ e.hash = proposal'[q].hash
      <4>1. CASE q = p
        BY <2>1, <2>2, <2>3, <2>4, <3>1, <4>1
      <4>2. CASE q # p
        BY <2>1, <2>3, <3>1, <4>2 DEF RefInv, PaidUnderItsHash
      <4> QED BY <4>1, <4>2
    <3> QED BY <3>1 DEF PaidUnderItsHash
  <2>9. debits \subseteq debits' /\ rows \subseteq rows'
    BY <2>3
  <2>10. ASSUME NEW b \in Commitments, b # c \/ n < SettlementSave
         PROVE  RefsOf(b)'
    <3>1. refs'[b] = refs[b]
      BY <2>3, <2>6, <2>10 DEF TypeOK
    <3>2. ASSUME NEW q \in Proposals, proposal'[q].status = "executed", proposal'[q].link = b
          PROVE  proposal'[q] = proposal[q]
      BY <2>1, <2>2, <2>10, <3>2
    <3> QED BY <1>2, <2>9, <3>1, <3>2, SameRefs
  <2>11. ASSUME NEW b \in Commitments, b = c, n >= SettlementSave
         PROVE  RefsOf(b)'
    <3>1. refs'[b] = Recorded(refs[b], r)
      BY <2>3, <2>11 DEF TypeOK
    <3>2. \A q \in Proposals : proposal'[q].status = "executed" /\ proposal'[q].link = b =>
            /\ q = r.p => proposal'[q].tx = r.tx
            /\ q # r.p => proposal'[q] = proposal[q]
      BY <2>1, <2>2, <2>4
    <3>3. \E e \in debits' : Pays(e, r)
      BY <2>3, <2>4
    <3>4. \E e \in rows' : e.p = r.p /\ e.tx = r.tx
      BY <2>3, <2>4, <2>11
    <3> QED BY <1>2, <2>5, <2>7, <2>9, <3>1, <3>2, <3>3, <3>4, RecordedRefs
  <2>12. n < SettlementSave \/ n >= SettlementSave
    OBVIOUS
  <2>13. \A b \in Commitments : RefsOf(b)'
    BY <2>10, <2>11, <2>12
  <2> QED BY <1>3, <2>7, <2>8, <2>13
<1> QED
  BY <1>5, <1>6, <1>7, OnlyTheseMoveRefs, OnlyExecutionPays

-----------------------------------------------------------------------------
(***************************************************************************)
(* The money.                                                              *)
(***************************************************************************)

(* A step that executes nothing is a step of the accounting, or leaves the *)
(* accounting alone.                                                       *)
LEMMA AccountingSteps ==
  ASSUME TypeOK, ExecutedIsPaid, [Next]_vars
  PROVE  \/ [AccountingNext]_accountingVars
         \/ \E p \in Proposals, w \in WarrantIds, hash \in TxHashes \union {None},
               early \in BOOLEAN, n \in 1..WarrantSave,
               failed \in SUBSET {DispatchSave, QueueSave} :
              ExecutePayout(p, w, hash, early, n, failed)
<1>1. Elsewhere => [AccountingNext]_accountingVars
  BY DEF Elsewhere
<1>2. ASSUME NEW p \in Proposals, Deciding(p)
      PROVE  UNCHANGED accountingVars
  BY <1>2, DecidingDecides DEF Decided, Store
<1>3. Court => UNCHANGED accountingVars
  BY CourtStep
<1>4. Previewing => UNCHANGED accountingVars
  BY DEF Previewing, PreviewPayout
<1> QED
  BY <1>1, <1>2, <1>3, <1>4, StepKinds

LEMMA PayoutFloorStep ==
  ASSUME TypeOK, ExecutedIsPaid, [Next]_vars
  PROVE  cash' < cash => cash' >= floor'
<1>1. CASE [AccountingNext]_accountingVars
  BY <1>1, FloorStep DEF TypeOK
<1>2. ASSUME NEW p \in Proposals, NEW w \in WarrantIds,
             NEW hash \in TxHashes \union {None}, NEW early \in BOOLEAN, NEW n \in 1..WarrantSave,
             NEW failed \in SUBSET {DispatchSave, QueueSave},
             ExecutePayout(p, w, hash, early, n, failed)
      PROVE  cash' >= floor'
  <2>1. cash' = cash - Amount[p] /\ cash - Amount[p] >= floor
    BY <1>2, ExecutionMoves
  <2>2. floor' = floor
    BY <1>2 DEF ExecutePayout
  <2> QED BY <2>1, <2>2
<1> QED
  BY <1>1, <1>2, AccountingSteps

LEMMA PayoutJournalStep ==
  ASSUME TypeOK, ExecutedIsPaid, JournalReconciles, [Next]_vars
  PROVE  JournalReconciles'
<1>1. CASE [AccountingNext]_accountingVars
  BY <1>1, JournalStep DEF TypeOK
<1>2. ASSUME NEW p \in Proposals, NEW w \in WarrantIds,
             NEW hash \in TxHashes \union {None}, NEW early \in BOOLEAN, NEW n \in 1..WarrantSave,
             NEW failed \in SUBSET {DispatchSave, QueueSave},
             ExecutePayout(p, w, hash, early, n, failed)
      PROVE  JournalReconciles'
  <2>1. Amount[p] \in Nat /\ cash \in Nat /\ journal \in Int /\ crashes \in Nat /\ InitialCash \in Nat
    BY PayoutAssumptions, AmountsAreMoney DEF TypeOK, AccountingTypeOK
  <2>2. /\ cash' = cash - Amount[p]
        /\ journal' = IF n >= JournalSave THEN journal - Amount[p] ELSE journal
        /\ crashes' = IF n < WarrantSave THEN crashes + 1 ELSE crashes
    BY <1>2 DEF ExecutePayout, Saves
  <2> QED BY <2>1, <2>2 DEF JournalReconciles
<1> QED
  BY <1>1, <1>2, AccountingSteps

LEMMA PayoutOwnerStep ==
  ASSUME TypeOK, ExecutedIsPaid, OwnerBookIsAhead, [Next]_vars
  PROVE  OwnerBookIsAhead'
<1>1. CASE [AccountingNext]_accountingVars
  BY <1>1, OwnerBookStep DEF TypeOK
<1>2. ASSUME NEW p \in Proposals, NEW w \in WarrantIds,
             NEW hash \in TxHashes \union {None}, NEW early \in BOOLEAN, NEW n \in 1..WarrantSave,
             NEW failed \in SUBSET {DispatchSave, QueueSave},
             ExecutePayout(p, w, hash, early, n, failed)
      PROVE  OwnerBookIsAhead'
  BY <1>2, AmountsAreMoney
  DEF ExecutePayout, Saves, ownerVars, OwnerBookIsAhead, TypeOK, AccountingTypeOK
<1> QED
  BY <1>1, <1>2, AccountingSteps

(* What a step of the accounting may do to the balance and the floor: only *)
(* one of them moves.                                                      *)
LEMMA MoneyStep ==
  ASSUME TypeOK, [AccountingNext]_accountingVars
  PROVE  cash' = cash \/ floor' = floor
BY DEF AccountingNext, accountingVars, moneyVars, ReadBook, SetReserveFloor, RecordExpense,
       Contribute, ContributeThroughBook, Reimburse, Draw, Withdraw

(***************************************************************************)
(* The payout contract.                                                    *)
(***************************************************************************)
LEMMA ContractInitially == Init => PayoutPromise!ContractInit
<1> SUFFICES ASSUME Init PROVE PayoutPromise!ContractInit
  OBVIOUS
<1>1. [p \in Proposals |-> ContractState[proposal[p].status]] = [p \in Proposals |-> "open"]
  BY DEF Init, NoProposal, ContractState
<1> QED
  BY <1>1, AmountsAreMoney DEF Init, AccountingInit, PayoutPromise!ContractInit

(* The contract's states as values of the record.                          *)
LEMMA ContractStates ==
  /\ \A s \in {"none", "draft", "submitted", "under_review", "approved"} :
       ContractState[s] = "open"
  /\ ContractState["dispute_window"] = "cleared"
  /\ ContractState["executed"] = "paid"
  /\ ContractState["rejected"] = "closed"
  /\ ContractState["cancelled"] = "closed"
BY DEF ContractState

(* A transition that is no execution is a decision of the contract, or     *)
(* nothing it can see.                                                     *)
LEMMA TransitionsDecide ==
  ASSUME NEW s \in Statuses, NEW t \in Transitions[s], t # "executed"
  PROVE  /\ t \in Statuses
         /\ \/ ContractState[t] = ContractState[s]
            \/ ContractState[s] = "open" /\ ContractState[t] \in {"cleared", "closed"}
            \/ ContractState[s] = "cleared" /\ ContractState[t] = "closed"
<1>1. /\ Transitions["none"] = {"draft"}
      /\ Transitions["draft"] = {"submitted", "cancelled"}
      /\ Transitions["submitted"] = {"under_review", "rejected", "cancelled"}
      /\ Transitions["under_review"] = {"approved", "rejected"}
      /\ Transitions["approved"] = {"dispute_window"}
      /\ Transitions["dispute_window"] = {"executed", "rejected"}
      /\ Transitions["executed"] = {}
      /\ Transitions["rejected"] = {}
      /\ Transitions["cancelled"] = {}
  BY DEF Transitions
<1> QED
  BY <1>1, ContractStates DEF Statuses

ContractView == [p \in Proposals |-> ContractState[proposal[p].status]]

(* Every step of the payouts is a step of the contract, or a stutter.      *)
LEMMA ContractStep ==
  ASSUME TypeOK, TypeOK', ExecutedIsPaid, [Next]_vars
  PROVE  [PayoutPromise!ContractNext]_(PayoutPromise!contractVars)
<1> USE DEF PayoutPromise!contractVars
<1>1. CASE Elsewhere
  <2>1. /\ cash' \in Nat /\ floor' \in Nat /\ cash \in Nat
        /\ cash' < cash => cash' >= floor'
        /\ cash' = cash \/ floor' = floor
        /\ proposal' = proposal
    BY <1>1, FloorStep, MoneyStep DEF TypeOK, AccountingTypeOK, Elsewhere, storeVars
  <2>2. CASE cash' = cash
    BY <2>1, <2>2 DEF PayoutPromise!ContractNext, PayoutPromise!SetReserve
  <2>3. CASE floor' = floor
    BY <2>1, <2>3 DEF PayoutPromise!ContractNext, PayoutPromise!MoveOwnMoney
  <2> QED BY <2>1, <2>2, <2>3
<1>2. ASSUME NEW p \in Proposals, Deciding(p)
      PROVE  [PayoutPromise!ContractNext]_(PayoutPromise!contractVars)
  <2>1. PICK r : Decided(p, r)
    BY <1>2, DecidingDecides
  <2>2. /\ proposal' = [proposal EXCEPT ![p] = r]
        /\ cash' = cash /\ floor' = floor
    BY <2>1 DEF Decided, Store, accountingVars, moneyVars
  <2>3. /\ proposal[p].status \in Statuses
        /\ r.status \in Transitions[proposal[p].status] /\ r.status # "executed"
    BY <2>1 DEF Decided, CanBecome, TypeOK, Proposal
  <2>4. ContractView' = [ContractView EXCEPT ![p] = ContractState[r.status]]
    BY <2>2 DEF ContractView, TypeOK
  <2>5. ContractView[p] = ContractState[proposal[p].status]
    BY DEF ContractView
  <2>6. CASE ContractState[r.status] = ContractState[proposal[p].status]
    <3>1. ContractView' = ContractView
      BY <2>4, <2>5, <2>6 DEF ContractView
    <3> QED BY <2>2, <3>1 DEF ContractView
  <2>7. CASE \/ /\ ContractState[proposal[p].status] = "open"
                /\ ContractState[r.status] \in {"cleared", "closed"}
             \/ /\ ContractState[proposal[p].status] = "cleared"
                /\ ContractState[r.status] = "closed"
    <3>1. PayoutPromise!Decide(p, ContractState[r.status])
      BY <2>2, <2>4, <2>5, <2>7 DEF PayoutPromise!Decide, ContractView
    <3> QED BY <2>7, <3>1 DEF PayoutPromise!ContractNext
  <2> QED BY <2>3, <2>6, <2>7, TransitionsDecide
<1>3. CASE Court
  BY <1>3, CourtStep DEF accountingVars, moneyVars
<1>4. CASE Previewing
  BY <1>4 DEF Previewing, PreviewPayout, accountingVars, moneyVars
<1>5. ASSUME NEW p \in Proposals, NEW w \in WarrantIds,
             NEW hash \in TxHashes \union {None}, NEW early \in BOOLEAN, NEW n \in 1..WarrantSave,
             NEW failed \in SUBSET {DispatchSave, QueueSave},
             ExecutePayout(p, w, hash, early, n, failed)
      PROVE  [PayoutPromise!ContractNext]_(PayoutPromise!contractVars)
  <2>1. /\ proposal[p].status = "dispute_window"
        /\ cash - Amount[p] >= floor
        /\ cash' = cash - Amount[p]
        /\ proposal' \in [Proposals -> Proposal]
        /\ \A q \in Proposals \ {p} : proposal'[q] = proposal[q]
        /\ n < ProposalSave => proposal' = proposal
        /\ n >= ProposalSave => proposal'[p].status = "executed"
    BY <1>5, ExecutionMoves
  <2>2. floor' = floor
    BY <1>5 DEF ExecutePayout
  <2>3. ContractView[p] = "cleared"
    BY <2>1, ContractStates DEF ContractView
  <2>4. CASE n < ProposalSave
    <3>1. ContractView' = [ContractView EXCEPT ![p] = "cleared"]
      BY <2>1, <2>3, <2>4 DEF ContractView
    <3>2. PayoutPromise!Pay(p, "cleared")
      BY <2>1, <2>2, <2>3, <3>1 DEF PayoutPromise!Pay, ContractView
    <3> QED BY <3>2 DEF PayoutPromise!ContractNext
  <2>5. CASE n >= ProposalSave
    <3>1. ContractView' = [ContractView EXCEPT ![p] = "paid"]
      BY <2>1, <2>5, ContractStates DEF ContractView
    <3>2. PayoutPromise!Pay(p, "paid")
      BY <2>1, <2>2, <2>3, <3>1 DEF PayoutPromise!Pay, ContractView
    <3> QED BY <3>2 DEF PayoutPromise!ContractNext
  <2> QED BY <2>4, <2>5
<1> QED
  BY <1>1, <1>2, <1>3, <1>4, <1>5, StepKinds

-----------------------------------------------------------------------------
(***************************************************************************)
(* The inductive invariant and what follows from it.                       *)
(***************************************************************************)
IInv ==
  /\ TypeOK
  /\ ExecutedIsPaid
  /\ PaidAgainOnlyAfterCrash
  /\ ReviewedByAnother
  /\ WarrantInv
  /\ NothingAhead /\ QueueIsHonest
  /\ RefInv
  /\ JournalReconciles
  /\ OwnerBookIsAhead

LEMMA InvInit == Init => IInv
<1> SUFFICES ASSUME Init PROVE IInv
  OBVIOUS
<1>1. ExecutedIsPaid /\ ReviewedByAnother
  BY DEF Init, NoProposal, ExecutedIsPaid, ReviewedByAnother
<1>2. PaidAgainOnlyAfterCrash /\ WarrantInv
  BY UnissuedWarrant
  DEF Init, PaidAgainOnlyAfterCrash, WarrantInv, WarrantPaysOnce, PaymentsRemembered
<1>3. JournalReconciles /\ OwnerBookIsAhead
  BY AmountsAreMoney DEF Init, AccountingInit, JournalReconciles, OwnerBookIsAhead
<1>4. NothingAhead /\ QueueIsHonest
  BY DEF Init, NothingAhead, QueueIsHonest
<1>5. RefInv
  <2>1. /\ \A p \in Proposals : proposal[p].status # "executed"
        /\ \A c \in Commitments : Len(refs[c]) = 0
        /\ debits = {}
    BY DEF Init, NoProposal
  <2> QED
    BY <2>1 DEF RefInv, PaymentsDiffer, PaidUnderItsHash, RefsHavePayments, SettlementRefsAreBacked
<1> QED
  BY <1>1, <1>2, <1>3, <1>4, <1>5, TypeInit DEF IInv

(* Every reachable state has the inductive invariant: the types, what      *)
(* proposals, warrants and payments say of one another, and the owner's    *)
(* book ahead of the ledger (treasury.py execute_payout_proposal with      *)
(* accounting_service.py and the warrants of warrants.py).                 *)
THEOREM InvariantHolds == Spec => []IInv
<1>1. IInv /\ [Next]_vars => IInv'
  BY TypeStep, PaidStep, PaidAgainStep, ReviewStep, WarrantStep, QueueStep, RefStep,
     PayoutJournalStep, PayoutOwnerStep
  DEF IInv
<1> QED
  BY <1>1, InvInit, PTL DEF Spec

(* The state of the payouts stays in its types.                            *)
THEOREM TypeCorrect == Spec => []TypeOK
BY InvariantHolds, PTL DEF IInv

(* An executed proposal was paid, under the warrant and the transaction    *)
(* that it names, and the journal has the row.                             *)
THEOREM ExecutedProposalsArePaid == Spec => []ExecutedIsPaid
BY InvariantHolds, PTL DEF IInv

(* Nobody is paid twice for a proposal unless a crash hid the first time.  *)
THEOREM PaidOnce == Spec => []PaidAgainOnlyAfterCrash
BY InvariantHolds, PTL DEF IInv

(* Nobody reviewed a proposal of his own, or one that pays him.            *)
THEOREM ReviewsAreIndependent == Spec => []ReviewedByAnother
BY InvariantHolds, PTL DEF IInv

(* A warrant pays once, for the request it was issued for.                 *)
THEOREM WarrantsPayOnce == Spec => []WarrantPaysOnce
BY InvariantHolds, PTL DEF IInv, WarrantInv

(* What the execution queue says of a transaction is true of the money,    *)
(* whichever of the two queue writes were lost.                            *)
THEOREM TheQueueIsHonest == Spec => []QueueIsHonest
BY InvariantHolds, PTL DEF IInv

(* A commitment's settlement refs stand for money that left, once for each *)
(* payout that shares no hash: a retry after a crash and a settlement      *)
(* replace its ref (commitments.py record_settlement_ref).                 *)
THEOREM RefsAreBacked == Spec => []SettlementRefsAreBacked
BY InvariantHolds, PTL DEF IInv, RefInv

(* The journal explains the balance until a crash loses a row.             *)
THEOREM JournalExplainsBalance == Spec => []JournalReconciles
BY InvariantHolds, PTL DEF IInv

(* Neither payouts nor the owner spend into the reserve.                   *)
THEOREM ReserveIsKept == Spec => FloorKept
<1>1. IInv /\ [Next]_vars => [cash' < cash => cash' >= floor']_accountingVars
  BY PayoutFloorStep DEF IInv
<1> QED
  BY <1>1, InvariantHolds, PTL DEF Spec, FloorKept

(* The payouts implement the payout contract, for every set of proposals.  *)
THEOREM PayoutImplementation == Spec => ImplementsContract
<1>1. IInv /\ IInv' /\ [Next]_vars => [PayoutPromise!ContractNext]_(PayoutPromise!contractVars)
  BY ContractStep DEF IInv
<1> QED
  BY <1>1, InvariantHolds, ContractInitially, PTL
  DEF Spec, ImplementsContract, PayoutPromise!Contract
=============================================================================
