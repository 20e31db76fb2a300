------------------------------ MODULE Payouts -------------------------------
(***************************************************************************)
(* Contributor payouts of one institution.  A proposal is submitted,       *)
(* reviewed, approved and left in a dispute window; then the owner         *)
(* executes it under a warrant.  Execution writes, in this order and with  *)
(* no transaction around them, the ledger, the journal, the execution      *)
(* queue, the linked commitment, the proposal store, the queue again and   *)
(* the warrant store.  Requests are served one at a time, so it is one     *)
(* step of which a crash may leave only the first n saves.  The owner's    *)
(* own money (OwnerAccounting) moves through the same ledger.              *)
(***************************************************************************)
EXTENDS OwnerAccounting, Warrants, Sequences

CONSTANTS
  Proposals,        \* proposal ids
  WarrantIds,       \* warrant ids of action class payout_execution
  Commitments,      \* ids of commitments a proposal may be linked to
  TxHashes,         \* external transaction hashes a caller may supply
  None,             \* no commitment, no warrant, no hash
  Contributors,     \* contributor ids
  Proposers,        \* the users who propose
  Reviewers,        \* the users of admin rank who review and reject
  Amount,           \* the amount of each proposal
  WindowHours,      \* the state machine's dispute_window_hours
  HoursChoices,     \* hours a caller may give instead
  CaseWarrants,     \* what a case about a commitment may name as its warrant
  ReviewChoices,    \* the decisions the court takes about warrants
  SwitchChoices,    \* the positions the kill switch may be in
  MaxTime,          \* bound on the clock
  MaxTx             \* bound on the executions and previews

ASSUME PayoutAssumptions ==
  /\ None \notin Proposals \union WarrantIds \union Commitments \union TxHashes
  /\ Amount \in [Proposals -> Nat \ {0}]
  /\ WindowHours \in Nat /\ HoursChoices \subseteq Nat
  /\ CaseWarrants \subseteq WarrantIds \union {None}
  /\ ReviewChoices \subseteq Decisions /\ SwitchChoices \subseteq BOOLEAN
  /\ MaxTime \in Nat /\ MaxTx \in Nat

VARIABLES
  proposal,      \* the proposal store
  warrant,       \* the warrant store
  boundTo,       \* the request each warrant's hash is taken from
  commitment,    \* each linked commitment's state
  refs,          \* each commitment's settlement refs, oldest first
  cases,         \* the active cases: pairs of a commitment and a warrant
  queue,         \* the execution queue: the state of each tx_ref
  nextTx,        \* the next fresh tx_ref
  rows,          \* the payout_execution rows of the journal
  now,           \* the clock
  killSwitch,    \* whether the authority's kill switch is engaged
  debits         \* history: every payout the ledger was charged for

storeVars == <<proposal, warrant, boundTo, commitment, refs, cases, queue, nextTx, rows>>
payoutVars == <<storeVars, now, killSwitch, debits>>
vars == <<accountingVars, payoutVars>>

(* The saves of an execution, in their order; the first is the ledger's.   *)
ProposalSavedFirst == 1
DispatchSavedFirst == 1
Unsaved == 8
JournalSave    == 2
DispatchSave   == 3
SettlementSave == 4
ProposalSave   == 5
QueueSave      == 6
WarrantSave    == 7

Statuses == {"none", "draft", "submitted", "under_review", "approved",
             "dispute_window", "executed", "rejected", "cancelled"}

CommitmentStates == {"proposed", "accepted", "rejected", "breached", "settled"}

Proposal ==
  [status : Statuses, contributor : Contributors \union {None},
   proposedBy : Proposers \union {None}, reviewedBy : Reviewers \union {None}, link : Commitments \union {None},
   windowStarts : Nat, windowEnds : Nat, tx : 0..MaxTx,
   hash : TxHashes \union {None}, warrant : WarrantIds \union {None}]

(* What an execution asks for, and a warrant's request hash is taken from. *)
Requests == Proposals \X (TxHashes \union {None})

Ref == [p : Proposals, tx : 1..MaxTx, hash : TxHashes \union {None}]
Row == [p : Proposals, tx : 1..MaxTx, w : WarrantIds]
Debit ==
  [p : Proposals, tx : 1..MaxTx, w : WarrantIds, hash : TxHashes \union {None},
   saves : 1..WarrantSave]

TypeOK ==
  /\ AccountingTypeOK
  /\ proposal \in [Proposals -> Proposal]
  /\ warrant \in [WarrantIds -> Warrant]
  /\ boundTo \in [WarrantIds -> Requests \union {None}]
  /\ commitment \in [Commitments -> CommitmentStates]
  /\ refs \in [Commitments -> Seq(Ref)]
  /\ cases \subseteq Commitments \X CaseWarrants
  /\ queue \in [1..MaxTx -> {"none", "previewed", "dispatchable", "executed"}]
  /\ nextTx \in 1..MaxTx + 1
  /\ rows \subseteq Row
  /\ now \in Nat
  /\ killSwitch \in BOOLEAN
  /\ debits \subseteq Debit

NoProposal ==
  [status |-> "none", contributor |-> None, proposedBy |-> None, reviewedBy |-> None,
   link |-> None, windowStarts |-> 0, windowEnds |-> 0, tx |-> 0,
   hash |-> None, warrant |-> None]

Init ==
  /\ AccountingInit
  /\ proposal = [p \in Proposals |-> NoProposal]
  /\ warrant = [w \in WarrantIds |-> Unissued]
  /\ boundTo = [w \in WarrantIds |-> None]
  /\ commitment = [c \in Commitments |-> "proposed"]
  /\ refs = [c \in Commitments |-> <<>>]
  /\ cases = {}
  /\ queue = [tx \in 1..MaxTx |-> "none"]
  /\ nextTx = 1
  /\ rows = {}
  /\ now = 0
  /\ killSwitch = FALSE
  /\ debits = {}

-----------------------------------------------------------------------------
(***************************************************************************)
(* The life of a proposal up to its execution.                             *)
(***************************************************************************)
courtVars == <<warrant, boundTo, commitment, refs, cases>>
paymentVars == <<queue, nextTx, rows, debits>>

Transitions == [
  none           |-> {"draft"},
  draft          |-> {"submitted", "cancelled"},
  submitted      |-> {"under_review", "rejected", "cancelled"},
  under_review   |-> {"approved", "rejected"},
  approved       |-> {"dispute_window"},
  dispute_window |-> {"executed", "rejected"},
  executed       |-> {},
  rejected       |-> {},
  cancelled      |-> {}]

CanBecomeAgain(p, status) ==
  proposal[p].status = status \/ status \in Transitions[proposal[p].status]

CanBecome(p, status) == status \in Transitions[proposal[p].status]

Store(p, record) ==
  /\ proposal' = [proposal EXCEPT ![p] = record]
  /\ UNCHANGED <<accountingVars, courtVars, paymentVars, now, killSwitch>>

CreateProposal(p, contributor, proposer, link) ==
  /\ CanBecome(p, "draft")
  /\ Store(p, [NoProposal EXCEPT
                 !.status = "draft", !.contributor = contributor, !.proposedBy = proposer, !.link = link])

SubmitProposal(p) ==
  /\ CanBecome(p, "submitted")
  /\ Store(p, [proposal[p] EXCEPT !.status = "submitted"])

ReviewProposal(p, reviewer) ==
  /\ CanBecome(p, "under_review")
  /\ reviewer \notin {proposal[p].contributor, proposal[p].proposedBy}
  /\ Store(p, [proposal[p] EXCEPT !.status = "under_review", !.reviewedBy = reviewer])

ApproveProposal(p) ==
  /\ CanBecome(p, "approved")
  /\ Store(p, [proposal[p] EXCEPT !.status = "approved"])

OpenDisputeWindow(p, hours) ==
  /\ CanBecome(p, "dispute_window")
  /\ Store(p, [proposal[p] EXCEPT !.status = "dispute_window",
                                  !.windowStarts = now, !.windowEnds = now + hours])

RejectProposal(p, reviewer) ==
  /\ CanBecome(p, "rejected")
  /\ Store(p, [proposal[p] EXCEPT !.status = "rejected", !.reviewedBy = reviewer])

CancelProposal(p) ==
  /\ CanBecome(p, "cancelled")
  /\ Store(p, [proposal[p] EXCEPT !.status = "cancelled"])

-----------------------------------------------------------------------------
(***************************************************************************)
(* Execution.                                                              *)
(***************************************************************************)
Blocking(c) == {k \in cases : k[1] = c}

(* The reviewed state of the warrant a case puts on hold.                  *)
Hold(k) ==
  warrant' = [w \in WarrantIds |->
                IF w = k[2] /\ Stayable(warrant[w]) THEN Reviewed(warrant[w], "stay")
                                                    ELSE warrant[w]]

(* The phase machine lets contributors be paid as soon as there is surplus. *)
PayoutPhase == cash > floor
CanPayoutIgnoringFloor(a) == cash >= a
CanPayout(a) == cash >= floor + a
Executable(p, w, hash, early) ==
  LET r == proposal[p] IN
  /\ r.link # None => commitment[r.link] \in {"accepted", "settled"} /\ Blocking(r.link) = {}
  /\ ValidForExecution(warrant[w]) /\ boundTo[w] \in {<<p, hash>>, None}
  /\ CanBecome(p, "executed")
  /\ early \/ r.windowEnds <= now
  /\ PayoutPhase /\ CanPayout(Amount[p])
  /\ nextTx <= MaxTx

(* A ref replaces the first one it shares an id or a transaction hash with. *)
Same(r, s) == r.p = s.p \/ r.tx = s.tx \/ (r.hash # None /\ r.hash = s.hash)
Matching(list, r) == {i \in 1..Len(list) : Same(list[i], r)}
Appended(list, r) == Append(list, r)
Recorded(list, r) ==
  IF Matching(list, r) = {}
    THEN Append(list, r)
    ELSE [list EXCEPT ![CHOOSE i \in Matching(list, r) :
                          \A j \in Matching(list, r) : i <= j] = r]

PreviewPayout(p, w, hash, early) ==
  /\ Executable(p, w, hash, early)
  /\ queue' = [queue EXCEPT ![nextTx] = "previewed"]
  /\ nextTx' = nextTx + 1
  /\ UNCHANGED <<accountingVars, proposal, courtVars, rows, debits, now, killSwitch>>

(* A crash leaves the first n saves; a queue write that fails is caught.   *)
ExecutePayout(p, w, hash, early, n, failed) ==
  LET c == proposal[p].link
      tx == nextTx
  IN
  /\ Executable(p, w, hash, early)
  /\ Saves(n, WarrantSave)
  /\ cash' = cash - Amount[p]
  /\ journal' = IF n >= JournalSave THEN journal - Amount[p] ELSE journal
  /\ rows' = IF n >= JournalSave THEN rows \union {[p |-> p, tx |-> tx, w |-> w]} ELSE rows
  /\ queue' =
       CASE QueueSave \in 1..n \ failed    -> [queue EXCEPT ![tx] = "executed"]
         [] DispatchSave \in 1..n \ failed -> [queue EXCEPT ![tx] = "dispatchable"]
         [] OTHER                         -> queue
  /\ refs' = IF n >= SettlementSave /\ c # None
               THEN [refs EXCEPT ![c] = Recorded(@, [p |-> p, tx |-> tx, hash |-> hash])]
               ELSE refs
  /\ proposal' = IF n >= ProposalSave
                   THEN [proposal EXCEPT ![p].status = "executed", ![p].tx = tx,
                                         ![p].hash = hash, ![p].warrant = w]
                   ELSE proposal
  /\ warrant' = IF n >= WarrantSave THEN [warrant EXCEPT ![w] = MarkedExecuted(@)] ELSE warrant
  /\ nextTx' = nextTx + 1
  /\ debits' = debits \union {[p |-> p, tx |-> tx, w |-> w, hash |-> hash, saves |-> n]}
  /\ UNCHANGED <<floor, ownerVars, boundTo, commitment, cases, now, killSwitch>>

(* Executing a linked payout, or settling its commitment, while a case is  *)
(* active about the commitment: the warrant the case names is put on hold. *)
BlockedByCase(c) ==
  /\ \E k \in Blocking(c) : Hold(k)
  /\ UNCHANGED <<accountingVars, proposal, boundTo, commitment, refs, cases,
                 paymentVars, now, killSwitch>>

-----------------------------------------------------------------------------
(***************************************************************************)
(* The court around it.                                                    *)
(***************************************************************************)
(* A warrant issued without a request payload is bound to no request.      *)
IssueWarrant(w, request, auto) ==
  /\ ~Exists(warrant[w])
  /\ warrant' = [warrant EXCEPT ![w] = Issued(auto)]
  /\ boundTo' = [boundTo EXCEPT ![w] = request]
  /\ UNCHANGED <<accountingVars, proposal, commitment, refs, cases, paymentVars, now, killSwitch>>

ReviewWarrant(w, decision) ==
  /\ Exists(warrant[w])
  /\ warrant' = [warrant EXCEPT ![w] = Reviewed(@, decision)]
  /\ UNCHANGED <<accountingVars, proposal, boundTo, commitment, refs, cases, paymentVars, now, killSwitch>>

ExpireWarrant(w) ==
  /\ Exists(warrant[w])
  /\ warrant' = [warrant EXCEPT ![w].expired = TRUE]
  /\ UNCHANGED <<accountingVars, proposal, boundTo, commitment, refs, cases, paymentVars, now, killSwitch>>

(* A crash may come between the case and the hold on its warrant.          *)
OpenCase(c, w) ==
  /\ cases' = cases \union {<<c, w>>}
  /\ Hold(<<c, w>>) \/ UNCHANGED warrant
  /\ UNCHANGED <<accountingVars, proposal, boundTo, commitment, refs, paymentVars, now, killSwitch>>

ResolveCase(k) ==
  /\ k \in cases
  /\ cases' = cases \ {k}
  /\ UNCHANGED <<accountingVars, proposal, warrant, boundTo, commitment, refs, paymentVars, now, killSwitch>>

ReviewCommitment(c, state) ==
  /\ state = "settled" => Blocking(c) = {}
  /\ commitment' = [commitment EXCEPT ![c] = state]
  /\ UNCHANGED <<accountingVars, proposal, warrant, boundTo, refs, cases, paymentVars, now, killSwitch>>

(* A breach opens a case about it, unless the caller asks for none.        *)
BreachCommitment(c, w) ==
  /\ commitment' = [commitment EXCEPT ![c] = "breached"]
  /\ cases' = cases \union {<<c, w>>}
  /\ Hold(<<c, w>>) \/ UNCHANGED warrant
  /\ UNCHANGED <<accountingVars, proposal, boundTo, refs, paymentVars, now, killSwitch>>

(* Settling a commitment with the payout that paid it: the ref is saved    *)
(* before the review.                                                      *)
SettleWithPayout(c, p, n) ==
  /\ proposal[p].status = "executed"
  /\ proposal[p].link = c
  /\ Blocking(c) = {}
  /\ refs' = [refs EXCEPT ![c] = Recorded(@, [p |-> p, tx |-> proposal[p].tx,
                                              hash |-> proposal[p].hash])]
  /\ commitment' = IF n >= 2 THEN [commitment EXCEPT ![c] = "settled"] ELSE commitment
  /\ UNCHANGED <<accountingVars, proposal, warrant, boundTo, cases, paymentVars, now, killSwitch>>

Tick ==
  /\ now < MaxTime
  /\ now' = now + 1
  /\ UNCHANGED <<accountingVars, storeVars, killSwitch, debits>>

(* Nothing in this component reads the switch.                             *)
SwitchKill ==
  /\ killSwitch' \in SwitchChoices
  /\ UNCHANGED <<accountingVars, storeVars, now, debits>>

Next ==
  \/ AccountingNext /\ UNCHANGED payoutVars
  \/ \E p \in Proposals :
       \/ \E contributor \in Contributors, proposer \in Proposers,
             link \in Commitments \union {None} :
            CreateProposal(p, contributor, proposer, link)
       \/ SubmitProposal(p)
       \/ \E reviewer \in Reviewers : ReviewProposal(p, reviewer) \/ RejectProposal(p, reviewer)
       \/ ApproveProposal(p)
       \/ \E hours \in HoursChoices \union {WindowHours} : OpenDisputeWindow(p, hours)
       \/ CancelProposal(p)
       \/ \E w \in WarrantIds, hash \in TxHashes \union {None}, early \in BOOLEAN :
            \/ PreviewPayout(p, w, hash, early)
            \/ \E n \in 1..WarrantSave, failed \in SUBSET {DispatchSave, QueueSave} :
                 ExecutePayout(p, w, hash, early, n, failed)
       \/ \E c \in Commitments, n \in 1..2 : SettleWithPayout(c, p, n)
  \/ \E w \in WarrantIds :
       \/ \E decision \in ReviewChoices : ReviewWarrant(w, decision)
       \/ ExpireWarrant(w)
       \/ \E request \in Requests \union {None}, auto \in BOOLEAN : IssueWarrant(w, request, auto)
  \/ \E c \in Commitments :
       \/ BlockedByCase(c)
       \/ \E w \in CaseWarrants : OpenCase(c, w) \/ BreachCommitment(c, w)
       \/ \E state \in CommitmentStates \ {"proposed"} : ReviewCommitment(c, state)
  \/ \E k \in cases : ResolveCase(k)
  \/ Tick
  \/ SwitchKill

Spec == Init /\ [][Next]_vars

-----------------------------------------------------------------------------
DebitsOf(p) == {d \in debits : d.p = p}

(* An executed proposal was paid: the ledger was charged for it under the  *)
(* warrant and the transaction it names, and the journal has the row.      *)
ExecutedIsPaid ==
  \A p \in Proposals :
    proposal[p].status = "executed" =>
      /\ [p |-> p, tx |-> proposal[p].tx, w |-> proposal[p].warrant] \in rows
      /\ \E d \in DebitsOf(p) : d.tx = proposal[p].tx /\ d.w = proposal[p].warrant

(* The ledger is charged for a proposal a second time only if a crash kept *)
(* the first execution out of the proposal store.                          *)
PaidAgainOnlyAfterCrash ==
  \A d \in debits : d.saves >= ProposalSave =>
    /\ proposal[d.p].status = "executed"
    /\ proposal[d.p].tx = d.tx

(* A warrant pays only for the request it was issued for, and pays again   *)
(* only if a crash kept the first payment from being marked on it; once    *)
(* marked, what it paid for is an executed proposal.                       *)
WarrantPaysOnce ==
  /\ \A d \in debits : boundTo[d.w] \in {<<d.p, d.hash>>, None}
  /\ \A d, e \in debits : d.w = e.w /\ d.tx < e.tx => d.saves < WarrantSave
  /\ \A w \in WarrantIds : warrant[w].execution = "executed" =>
       \E p \in Proposals : proposal[p].status = "executed" /\ proposal[p].warrant = w

(* Whoever reviewed a proposal that got past review is neither its         *)
(* contributor nor its proposer, whatever was saved in between.            *)
ReviewedByAnother ==
  \A p \in Proposals :
    proposal[p].status \in {"under_review", "approved", "dispute_window", "executed"} =>
      proposal[p].reviewedBy \in Reviewers \ {proposal[p].contributor, proposal[p].proposedBy}

(* Payouts under one transaction hash take each other's refs for their own. *)
SharesHash(p) ==
  \E d \in DebitsOf(p), e \in debits \ DebitsOf(p) : d.hash = e.hash /\ d.hash # None

(* A commitment's settlement refs stand for money that left: each has its  *)
(* row in the journal.  A payout of the commitment that shares no hash has *)
(* at most one ref, a retry after a crash replacing what the first attempt *)
(* left, and once it is executed its ref names the transaction it names.   *)
SettlementRefsAreBacked ==
  \A c \in Commitments :
    /\ \A i \in 1..Len(refs[c]) : \E r \in rows : r.p = refs[c][i].p /\ r.tx = refs[c][i].tx
    /\ \A p \in Proposals : ~SharesHash(p) =>
         /\ \A i, j \in 1..Len(refs[c]) : refs[c][i].p = p /\ refs[c][j].p = p => i = j
         /\ proposal[p].status = "executed" /\ proposal[p].link = c =>
              \E i \in 1..Len(refs[c]) : refs[c][i].p = p /\ refs[c][i].tx = proposal[p].tx

(* What the execution queue says of a transaction is true of the money: a  *)
(* preview cost nothing, a dispatched one has its row, an executed one is  *)
(* the transaction of an executed proposal.                                *)
QueueIsHonest ==
  \A tx \in 1..MaxTx :
    /\ queue[tx] = "previewed" => \A d \in debits : d.tx # tx
    /\ queue[tx] \in {"dispatchable", "executed"} => \E r \in rows : r.tx = tx
    /\ queue[tx] = "executed" =>
         \E p \in Proposals : proposal[p].status = "executed" /\ proposal[p].tx = tx

(* Money leaves only for cleared payouts and out of surplus: the component *)
(* implements the payout contract.                                         *)
ContractState == [
  none |-> "open", draft |-> "open", submitted |-> "open", under_review |-> "open",
  approved |-> "open", dispute_window |-> "cleared", executed |-> "paid",
  rejected |-> "closed", cancelled |-> "closed"]

PayoutPromise == INSTANCE PayoutContract WITH
  Payouts <- Proposals, Price <- Amount, balance <- cash, reserve <- floor,
  state <- [p \in Proposals |-> ContractState[proposal[p].status]]

ImplementsContract == PayoutPromise!Contract

(* docs/treasury/TREASURY_POLICY.md: "Kill switch engagement freezes all   *)
(* treasury operations except balance reads".                              *)
KillSwitchFreezesTreasury ==
  [][killSwitch => UNCHANGED <<cash, floor>>]_vars
=============================================================================
