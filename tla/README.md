# Verification of the Meridian kernel

TLA+ models of the Meridian kernel, the configurations TLC checks them with,
and theorems that TLAPS proves about them. Everything is translated from the
Python sources; the docs and tests only supply what the code is said to do.

- [The system](#the-system)
- [What is modelled, and how](#what-is-modelled-and-how)
- [The runs](#the-runs)
- [The proofs](#the-proofs)
- [Where the code and its documents disagree](#where-the-code-and-its-documents-disagree)
- [What is left out](#what-is-left-out)
- [Plan](#plan)

## The system

A *host* runs one workspace server for one bound institution. The server
(`kernel/workspace.py`) is Python's `HTTPServer`: it handles one request at a
time, from the first line of the handler to the answer, and an outgoing call to
another host is made from inside a handler. All state lives in JSON files, each
loaded, changed and saved as a whole. No transaction spans two of them, so a
crash between two saves leaves them disagreeing; the CLI entry points of the
modules write the same files from other processes without a lock. `ledger.json`
is the file most of them share: the court, the sanction and score commands, the
scorer, the order commands, the treasury and the accounting each load it, change
their part and save the whole.

| Part | State it keeps | Operations | Hard behaviour |
|---|---|---|---|
| Warrants (`warrants.py`) | per warrant: review state, execution state, expiry | issue, approve, stay, revoke, validate, mark executed | a review is accepted in every execution state; expiry is read, never stored |
| Execution jobs (`federated_execution_jobs.py`, `execution_job_service.py`) | one job per received request: state, local warrant, last court notice, settlement notice refs | queue, sync with the warrant, execute, report | two stores updated one after the other; calls to the peer in the middle of a handler |
| Commitments (`commitments.py`) | state, delivery refs, settlement refs | propose, accept, reject, breach, settle, record a delivery or a settlement | a review is accepted from every state; two hosts keep a copy each |
| Cases (`cases.py`) | claim type, target peer, linked commitment and warrant, open/stayed/resolved | open, stay, resolve, mirror a peer's case | a case holds warrants, blocks deliveries and settlements, suspends peers |
| Peer registry (`federation.py`) | trust state of each peer | upsert, suspend, revoke, refresh | written by the operator and by the cases |
| Federation gateway (`federation.py`, `federation_service.py`, `federation_inbox.py`) | nonces, inbox entries | issue, deliver, accept, process | lost answers, 10 s timeouts, late service, replays |
| Court (`court.py`) | violations, appeals | file, resolve, appeal, decide, auto review, remediate | sanctions shared by several violations; three files loaded and saved without a lock |
| Authority (`authority.py`) | approvals, delegations, kill switch | request, decide, delegate, engage, disengage | a check made before, an act made after |
| Treasury (`treasury.py`, `treasury_service.py`, `metering.py`) | ledger, accounts, reservations, payout proposals | reserve, commit, release, expire; propose, review, approve, dispute, execute | reserve floor under several agents; several saves in one payout |
| Payout queues (three `payout_*_queue.py`) | previews, approval candidates, execution entries | enqueue, inspect, acknowledge, run | stages that read each other's snapshots |
| Handoff queues (`federation_handoff_queue.py`, `federation_handoff_dispatch_queue.py`) | previews and dispatch records | preview, acknowledge, dispatch, retry | a remote dispatch whose answer is lost |
| Phase machine (`phase_machine.py`) | none; reads the other surfaces | evaluate the phase, gate a transition | gaps between phases |
| Accounting (`accounting_service.py`) | owner balances and entries | contribute, expense, reimburse, draw | cash and entry saved apart |
| Sessions and access (`session.py`, `workspace.py`) | signing key, revoked session ids | issue, validate, revoke, authorise a request | the role is read before the handler runs; what a restart forgets |
| Organizations (`organizations.py`, `agent_registry.py`, `runtime_host.py`) | roles, lifecycle; agents and incidents | transition, add a member, admit | a command of the CLI rewrites the file it read before |
| Orders and subscriptions (`economy/revenue.py`, `subscription_service.py`) | order book, ledger, journal, subscriptions | order, pay, reject, subscribe, convert, verify | cash, key and row saved apart; a command repeated after a crash |
| Token transfers and wallets (`treasury.py`, `ops_provision_hot_wallet.py`) | wallet registry, accounts, secrets; the chain | register, provision, prepare, sign, broadcast | an answer lost after the broadcast |
| Economy (`economy/*.py`) | scores, sanctions | score, decay, sanction, lift | every process saves the ledger it loaded, over what others saved meanwhile |
| Capsules, storage, audit (`capsule.py`, `storage_backend.py`, `io_atomic.py`, `audit.py`) | files | resolve, load, save, append | where a crash can fall |
| Runtime adapters, rust explorer, proof bundles | none | read-only views | none |

How they interact: the court and the cases review warrants; a warrant's review
is mirrored into the execution job that needs it and told to the peer as a
court notice; an executed job and an executed payout become a settlement
notice; an applied settlement notice settles the source's commitment and spends
its warrant; a case blocks each of these on the way and suspends the peer it
blames; a suspended peer's messages are refused, its case and court notices
are not.

The hazards, with the line where each one bites and the properties aimed at it,
are listed in `PROJECT.json`.

## What is modelled, and how

### Warrants

The record of `warrants.py` cut down to what the protocols tell apart: review
state, execution state, expired or not. `Reviewed`, `ValidForExecution`,
`MarkedExecuted` and `Issued` are `review_warrant`,
`validate_warrant_for_execution`, `mark_warrant_executed` and `issue_warrant`;
`Stayable` is the filter of `_maybe_stay_warrant_for_case` and `JobStateFor` is
`_execution_job_state_for_warrant`.

### FederatedExecution

Two hosts: the *source* asks for work under one of its warrants, the *receiver*
does it. A handler is one action up to its outgoing call. While a call is
pending the host is busy (`call[h]` is the message it waits for an answer to)
and serves nothing; the other host serves the message with `Serve`, which sets
`reply`; then the rest of the handler runs (`CompleteSend`,
`CompleteCourtNotice`, `CompleteSettlementNotice`, or `CallRefused` after an
HTTP error). `Abandon` is the timeout, a lost answer, or a crash of the caller:
the message is gone or stays in `stale`, the accept queue of the peer, to be
served later.

| Variables | In the code |
|---|---|
| `warrant`, `localWarrant` | the warrant stores of the two institutions (a local warrant is named after its request's envelope) |
| `sentUnder`, `linked`, `acknowledged` | claims of the envelopes sent; `delivery_refs` and the audit event `federation_envelope_sent`, written only after a receipt |
| `inbox` | state of the source's inbox entry of a settlement notice |
| `job`, `courtNotice`, `noticed` | the job store: state, `metadata.court_notice`, `execution_refs.settlement_notice_*` |
| `payout` | the payout proposal linked to the commitment has execution refs |
| `commitment`, `case` | each host's copy of the commitment, and its active case |
| `call`, `reply`, `stale` | the HTTP calls between the hosts |
| `torn` | history: envelopes whose last update was cut between the warrant store and the job store |

The actions follow the handlers: warrant issue and review, send (with the block
by a case), court notice, settlement notice (blocked, rejected or applied, and
cut by a crash), request, local review (and cut by a crash), execution (and cut
by a crash), payout, and the operator's cases and commitment commands.

Abstractions: one commitment and at most one active case per host; a case of
kind "peer" is one that both links the commitment and blames the peer, so it
stands for every case that suspends the peer; validation of a settlement proof
is a choice (`RejectSettlementNotice` or `ApplySettlementNotice`); a settlement
notice is named by the request it reports.

### ExecutionContract

What the protocol promises, without hosts: a request is taken in once, its
authorization comes and goes, it is executed at most once and only while it is
authorized, and is settled only after. `FederatedExecution` implements it under
the mapping at the end of that module: requested = it has a job, authorized =
its local warrant is valid for execution, executed = its local warrant is
spent, settled = the source has processed its settlement notice.

### PeerTrust

One host, its case store and its peer registry. Each action is one way the code
changes a case or a peer: operator open, stay, resolve; failed delivery or
invalid settlement; breach by the operator (which suspends nobody) or by notice
(which does); mirrored open, stay, resolve; upsert, suspend, revoke. The claim
types are three classes: "risky" (the three that blame a peer), "breach" and
"other". A case notice replaces what a mirrored case says, its claim type too
(`workspace.py:2501-2516, 2578-2592`), so a peer can take the blame off a case
that is still active and the suspension stays: `relabelled` remembers such
peers until a case about them, or the operator, sets their trust again.
`Interrupted` is a crash between the save of the case and the save of the
registry; `cut` remembers it. `lastWord` remembers what the operator last set by
hand. All three are history and guard nothing.

### OwnerAccounting

The money of one institution: the treasury ledger (`cash`, `floor`, `capital`,
`drawn`), the owner's book and the journal, each a file of its own. An
operation is one step, because requests are served one at a time and the
accounting service holds a lock; its parameter `n` says how many of its saves
reach the disk before a crash, and `crashes` counts the crashes. Contributions
through the workspace write the ledger and the journal only (`Contribute`);
those of the accounting service's own entry point write the book first
(`ContributeThroughBook`). Every reader of the book first raises its capital to
the ledger's (`Synced`). Amounts are natural numbers: rounding to four digits
is left out, and so are negative amounts, which the contribution route does not
refuse (a hazard in `PROJECT.json`).

### Payouts

EXTENDS `OwnerAccounting`, because payouts and the owner move the same balance.
One action per route: propose, submit, review, approve, open the dispute
window, reject, cancel, preview and execute, with the table `Transitions` and
the checks of `treasury.py`. `ExecutePayout` is the route
`/api/payouts/execute` and `execute_payout_proposal` together, up to its n-th
save of seven (ledger, journal, queue, commitment, proposal, queue, warrant);
`failed` are the queue writes whose exception the code catches.

| Variables | In the code |
|---|---|
| `proposal` | the proposal store |
| `warrant`, `boundTo` | the warrants of class payout_execution and the request each one's hash was taken from, `None` for a warrant issued without one |
| `commitment`, `refs`, `cases` | state and settlement refs of each linked commitment, the active cases about it |
| `queue`, `nextTx` | the execution queue by tx_ref; the next fresh tx_ref |
| `rows` | the payout_execution rows of `transactions.jsonl` |
| `now`, `killSwitch` | the clock in hours, the authority's switch |
| `debits` | history: every charge to the ledger, and how many saves followed it |

`PayoutContract` is what all this promises: a payout is decided once, and money
leaves only for a cleared payout and only out of the surplus above the reserve.
A payment that a crash cuts short may be repeated. `Payouts` implements it with
`open` = draft to approved, `cleared` = dispute window, `paid` = executed,
`closed` = rejected or cancelled.

Abstractions: wallets are eligible and adapters ready (either check only
refuses); a settlement proof is its transaction hash; two cases about the same
commitment and warrant are one; a breach opens its case in the same step.

### PayoutPlans

The stages before a payout is executed for real, in three stores each under a
lock of its own. `DryRun` is a preview of an execution with its two saves, each
of which may fail without the route noticing (`treasury.py:2267-2290`); `faults`
counts such saves. `AcknowledgePlan` and `UpsertPlanPreview` are the writers of
the preview store. A promotion is two steps, because it reads the preview before
it takes the lock of the candidate store: `ReadForPromotion`, `Promote`; what it
read is `promotion`. `worthy` is history: previews that were acknowledged and
unsettled at one moment. The states "blocked" and "superseded" are one, and so
are the two settlement flags: the code treats both of a pair alike. A writer of
its own may give every field of a preview, the acknowledgement included, and
say whether a candidate is ready (`UpsertPlanPreview`, `UpsertCandidate`): no
acknowledgement is safe from it. That such a writer creates a record is left
out; no caller in the repository does.

### CommitmentExchange

The two copies of a commitment. `Propose` and `ReviewCommitment` are the
operators' commands, which the code accepts in every state; `Send` starts a
delivery (a proposal or an execution from the source, an acceptance or a notice
of breach from the target) under a warrant of the matching class, `ServeProposal`,
`ServeAcceptance`, `ServeBreach` and `ServeExecution` are the peer's processing,
`Answer` the receipt that spends the warrant, `GiveUp` the timeout. A message
given up may still be served: `messages` keeps everything ever sent, and nothing
orders the service. A breach opens a case and holds the commitment's warrants
(`EnsuredCase`, `Held`); `ServeBreach` may be cut between the two saves. The
marks `accepted` and `breached` of a copy say who set the `accepted_by` and
`breached_by` fields: the operator of the host, or its peer by message. The
source has no acceptance or breach to send: a copy it proposed has no
`source_host_id` to address one to. Refusals that open cases are in
`FederatedExecution` and `PeerTrust`.

### HandoffDispatch

From a request for another institution to an envelope. Reading the status page
plans and saves the previews (`PreviewRoutes`); `Acknowledge` promotes one into
the dispatch queue, and may be cut before it; `RunRemote` checks the peer and the
warrant, sends, and writes warrant and record. `RunRemoteUnanswered` is the lost
answer, after which the record is dispatchable again, and `LateArrival` the peer
that applies the message anyway; `RunRemoteInterrupted` is a crash between the
two saves. `UpsertLocalRecord`, `RunLocal` and `ExecuteLocalJob` are dispatches
to the bound institution itself. `envelopes` and `promotions` are history.
Acknowledging a preview again re-arms a handoff that was dispatched: that is
what the code does, and the property counts deliveries per acknowledgement.

### Authority and RuntimeBudget

`Authority` has the kill switch, delegations, approvals, the lifecycles, and
`CheckAuthority`, with the order of its tests. `RuntimeBudget` EXTENDS it and
asks it before each reservation: `Reserve`, `Commit` and `Release` save the
reservation store, then the ledger's counters (`Book`, with or without the
second save); `Sweep` is the expiry that every read performs, which books first
and saves the store last. `runway` is the ledger's cash above its floor, moved
freely (`MoveRunway`) within `RunwayChoices`. A tick of the clock is an hour,
and a lease is shorter, so `Lease = 0` lapses at the next tick.

### Court

The economy ledger, the court's records and the agent registry, and any number
of processes that write them. A process is in turn a handler of the court, a
sanction or score command, the scorer, or a command that keeps money in the
ledger. `held` is the ledger in its memory and `known` the records; `LoadLedger`
and `LoadRecords` read the files, and every save writes what the process holds,
over whatever another has saved since. No handler has to load right before it
saves: a copy as old as its last load or save stands for every moment at which
the code may have read the file. `SaveMoney` is the save of a process that
changed another part of the ledger (`revenue.py:494-498`) and gives the agents
back as it found them. `Stop` ends a process between any two files.

`FileViolation` is the ledger and the registry, `SaveCase` the records after
them. Applying a sanction, lifting it and writing the registry may fail without
the court noticing (`court.py:159,172,281,399`): `applied` and `lifts` are the
choices, and `RegistryMayTake` is the registry with or without the change. A
load and a save of the registry are one step; that another process saves the
registry over it is the outcome in which the change was not taken.

The scorer's phases (`StartScoring`, `ScoreOutcome`, `AppendEpochAdvance`,
`SaveScores`, `ScorerAutoCheck`, `SyncFromEconomy`, `AutoReview`) are steps of
their own. `already_scored` compares timestamps, so an `epoch_advance` row is a
choice: it marks the run as scored or is missed (`EpochAdvanceSeen`,
`EpochAdvanceMissed`); nothing excludes a second scorer. The check and the load
of the ledger behind it are one step. The agent "main" (`Main`) takes part
whatever its sanctions. `loaded` remembers the ledger as it was loaded and is
history. Scores are clamped, halved and capped as in `score.py` and
`auto_score.py`. Times are cut to "never", "earlier epoch" and "this epoch"; a
score and the end of an epoch in the same second are not told apart.

### Commerce

Orders, payments settled outside, and subscriptions. `command` is a running
order command with the order book and the ledger it loaded; it takes no lock, so
it may save over a payment recorded meanwhile. The recording of a payment holds
a lock that only other recordings take, so the ledger it loaded may be older
than the one it saves over (`MayHaveLoaded`). `stale` is the ledger another
process has loaded, which `SaveElsewhere` writes back: one such copy stands for
all processes that hold an older ledger, as it may be loaded and saved any number
of times. Order commands that touch nothing but the order book are one step. A
crash falls between the order book, the ledger and the journal; a command
repeated after one credits again, so the properties bound what is credited by
how often a sale was advanced.

### TokenTransfers

Preparing, signing and sending a transfer. What was signed stays in the
operators' hands (`signed`) and may be broadcast at any time, the nodes hold
`pool`, the chain `mined`. A nonce is taken from the chain (`resolved`
remembers for whom) or insisted on (`pins`). Provisioning a hot wallet is three
writes and may stop after any. A transfer sent again after a lost answer with a
nonce taken from the chain pays twice; `PinnedPaysOnce` says that this is the
only way.

### WorkspaceAccess

Requests with the workspace's credential or a session token. `Authorize` reads
the user's role in the organizations file; the handler (`IssueSession`,
`RevokeSession`, `TransitionLifecycle`) runs afterwards, and the command line
may have written the file in between (`CommandReads`, `AddMember`). `Restart`
makes a new process: with a configured secret the key and the file of
revocations outlive it, without one every session dies. `RevokeInMemory` is a
crash between memory and file. A handler's own load and save are one step.

## The runs

| Run | Instance | What it shows | Distinct states |
|---|---|---|---|
| `one_request` | one envelope, one warrant, every decision, both case kinds | the two stores of the receiver agree unless a crash tore them; a job is never ahead of its warrant; the protocol implements the contract | 1.6 million |
| `late_messages` | two envelopes, linked or not, one warrant, one late message | a settlement is earned, spends the warrant, is reported once, and is where the receiver thinks it is; at most one acknowledged standalone request per warrant | 2.3 million |
| `mutual_calls` | one envelope, a case that makes the receiver call back, fair timeouts | every call returns | 0.35 million |
| `one_payout` | one proposal, two warrants, two crashes, two users who may propose, windows of no and of one hour | paid as recorded, again only after a crash; implements the contract | 0.4 million |
| `linked_payouts` | two proposals, one warrant, one commitment with cases, one shared hash, a crash | warrants pay once; refs and queue stand for money | 1.5 million |
| `treasury` | one payout among the owner's movements, a floor that moves, a crash | the owner is paid only what is due; the floor and the journal hold for both together | 1 million |
| `host` | the sum of `PeerTrust`, `HandoffDispatch`, `RuntimeBudget`, `PayoutPlans`, `CommitmentExchange` and `WorkspaceAccess` | see below | 2.8 million |
| `economy` | the sum of `Court`, `Commerce` and `TokenTransfers` | see below | 5.4 million |
| `revoked_peer`, `risky_case`, `kill_switch`, `lift_floor` | one peer and one case, one proposal, or one agent | the disagreements below | up to the violation |

`host` and `economy` are sums: `MCHost` and `MCEconomy` extend their parts,
and each behaviour moves one part while the others stay as they began. Where one
part reads what another writes (a dispatch reads the trust of a peer, a
reservation the ledger's cash), it has a variable for it that takes every value
the other may leave there (`SetPeerTrust`, `MoveRunway`, `SetStanding`), and
where several write one file, each module has the save of the others as an
action (`SaveMoney` in `Court`, `SaveElsewhere` in `Commerce`), so the state
space is the sum and not the product. Two gaps remain and are named under
*Simplified*. In `host`:

- *trust*, two peers and two cases, crashes: no suspension outlives its cases,
  unless the peer itself renamed the claim; no case step reinstates a blamed or
  revoked peer.
- *handoffs*, one institution that either of two hosts may serve, one warrant,
  two envelopes, two promotions: evidence stands for a delivery; one recorded
  delivery per acknowledgement and per standalone warrant.
- *local*, the dispatches of `HandoffDispatch` that stay on the host. They touch
  nothing the remote ones do and are a part of their own for that reason; only
  the types are at stake in it.
- *budget*, one agent, two reservations of one or two with a runway of one or
  two, a limit of one per run, one crash: what an agent has reserved never passes
  the runway at the reservation; the counters err one way; who is stopped
  reserves nothing. Availability is computed for each agent alone
  (`treasury.py:272-299`), so the case that matters is one agent with two
  reservations; the sum over several agents is bounded by nothing in the code,
  and no property claims it.
- *plans*, two plans, one swallowed save, writers that give any fields: what
  waits for approval was acknowledged and unsettled when it was read for
  promotion.
- *commitments*, one commitment with or without a warrant, four messages: marks
  are true, a warrant carries one acknowledged message, a breach holds
  executions. Four messages are a proposal, an
  acceptance given up, a breach, and an execution that must be held although
  the acceptance arrives late.
- *access*, two users, two sessions, one restart: a session whose revocation
  was answered stays out, in this process and the next.

In `economy`:

- *court*, two processes, one agent, one violation of any weight, one appeal,
  one deliver run, four handlers, commands or scorings: a sanction ends for a
  reason, in whatever order the processes load, save and stop.
- *sales*, two payments that share a reference (one too small for the plan), one
  order, a sale credited at most twice (`MaxCredits`), one crash, another
  process that saves an older ledger at any time: the journal is never ahead of
  the credits, the cash never ahead of what was sold.
- *subscriptions*, the same sales credited once and without a crash, under two
  subscriptions of one subscriber: a delivery stands on a credited payment that
  nobody reclassified. What a crash leaves in the order book and the journal is
  among the states of *sales*; a subscription reads the journal alone.
- *transfers*, one wallet in custody, one to be provisioned, one proposal and
  one other recipient, nonces 0 and 1, two signatures: signed transfers come
  from wallets whose key is held, accounts from registered wallets, and payees
  with one pinned transfer are paid once.

Why the bounds are enough. The two stores and the contract speak of one
envelope at a time; what two envelopes share is a warrant, the commitment and
the receiver's single outgoing call, and two envelopes (`late_messages`) are
enough for one to reuse, spend or overtake what the other did. `MaxStale = 1`
lets one message be served after its caller gave up and sent another. Two cases
about one peer are what the reinstatement must tell apart, two peers what a
suspension must not confuse. Two processes are one that saves and one whose copy
is older; four calls are a violation, an appeal against it, a decision and one
command or scoring beside them. Two payments are what one reference may confuse. For the payouts, two proposals
are what one warrant, one hash or one commitment can confuse; two crashes allow
a payment to be cut short twice and then completed; the amount of two in
`one_payout` and `treasury` makes the difference between "there is surplus" (the
phase gate) and "the surplus covers it" (`can_payout`). The bounds named `Max...`
cap the money, crashes, clock, executions, envelopes, messages, rows, nonces and
restarts; the court's decisions and the switch are varied in the runs whose
properties can depend on them. Most properties hold for every value of these
bounds by the theorems below.

`EnvelopeSymmetry` is sound: no action and no property of those runs names an
envelope. Proposals and warrants are symmetric where `SYMMETRY` is used: those
runs give every proposal the same amount. `CourtSymmetry` permutes the
processes and violations and `SubSymmetry` the subscriptions, which nothing
names; payments differ in amount and are not permuted. Deadlock is checked in
every run of the protocols and payouts. It is not in `host` and `economy`, which
end when their bounds are used up: nothing in them waits for another.

What the bounds of *court* leave out: a second violation that shares a sanction,
and the automatic lift of `zero_authority` (authority above 15 takes eight
recoveries of 2). Both are covered by the theorem `SanctionsEnd`, which bounds
neither.

Fairness. Only `Abandon` is weakly fair: `urlopen(..., timeout=10)` returns. No
fairness is assumed of the peer, of operators or of the accept queue, which is
why no property says that work gets done.

Each property is broken by a plausible slip in a definition it depends on; the
slips are definitions of their own, next to the definition they change, and
`PROJECT.json` lists them under "mutants".

## The proofs

`FederatedExecutionProofs` proves, for every number of envelopes and warrants
and every bound, from the assumptions `ConstantsAssumption`, `NoneAssumption`
and `IdsAssumption` of `FederatedExecution` alone:

- `TypeCorrect`: `Spec => []TypeOK`.
- `JobFollowsWarrant`, `StoresAgreeAlways`: from `StoresInv`, which says of
  each envelope that its job and local warrant agree or its last update was
  cut, that an executed job has a spent warrant, and that a local warrant never
  exists without a job. `HoldKeepsStores` and `ExecutionKeepsStores` do the
  work, because executing and then holding happen in one step.
- `SettlementIsEarned`, `SettlementIsFinal`, `WarrantsAreSingleUse`,
  `ReportsAreFaithful`: from the inductive invariant `IInv`. None of these is
  inductive by itself. `SettledMeansExecuted` needs that every settlement notice
  *in flight* (pending or stale) belongs to an executed, paid request, since
  that is what an abandoned notice carries; `OneStandaloneRequestPerWarrant`
  needs that a warrant an acknowledged standalone request was sent under is
  spent and can never become ready; `ReportsAreTrue` needs that while a
  notice is pending none has been acknowledged, and that an
  answer "ok" to a notice means the inbox has it. `WireMoves` and `SourceMoves`
  say once what each step does to the wire and to the source's records, so that
  each conjunct is proved against a handful of moves instead of every action.
- `Implementation`: `Spec => ImplementsContract`. Every step that writes the
  receiver's stores maps to one step of the contract (`RequestSteps`,
  `ReviewSteps`, `ExecutionSteps`, `HoldSteps`), every other step to a
  settlement or a stutter (`SettlementSteps`).

`WarrantsProofs` holds the lemmas about the operations on a warrant that the
other proofs share.

`InductionLemmas` holds the facts about finite sets and sums the other proofs
need. The induction theorems of the library take an operator as a parameter, so
an induction here is over a set: the set of the cardinalities at which a fact
holds (`SubsetInduction`) or of the numbers below which it holds
(`NumberInduction`), which is everything because a counterexample would be a
smallest one (`LeastElement`). With it the sum of a function, which the community
module defines by choosing elements one at a time, is shown not to depend on
the choice (`SumsTakeAny`), and the laws the money needs follow: a sum takes one
element, is monotone, splits in two.

`PayoutsProofs` first proves the owner's accounting alone for every amount and
number of crashes, from `AmountsAreMoney`: `AccountingTyped`, and
`OwnerPaidFairly` from `OwnerBookIsAhead`: the ledger's draws never exceed what
the book says was reimbursed or drawn, and the book reimburses only expenses it
has. Its lemmas are about single steps, so that the payouts can use them. It
then proves for every number of proposals, warrants and commitments and all
amounts, from `AmountsAreMoney` and `PayoutAssumptions`:

- `InvariantHolds`: `IInv`, the conjunction of the properties below with
  `OwnerBookIsAhead`, `PaymentsRemembered`, `NothingAhead` and `RefInv`. The types
  alone are not inductive: settling a commitment copies the transaction of an
  executed proposal, which is typed because `ExecutedIsPaid` finds it in the
  journal. `WarrantPaysOnce` needs that a warrant that has paid exists (so its id
  is not issued again) and that a payment saved to the last has marked it.
  `QueueIsHonest` needs `NothingAhead`, that no queue entry carries a transaction
  number not yet given out. `SettlementRefsAreBacked` needs that a transaction
  names one payment, that an executed proposal was paid under the hash it
  carries, and that each ref carries the hash of its payment: only then does a
  ref that replaces another on a shared key replace one of its own payout.
- `TypeCorrect`, `ExecutedProposalsArePaid`, `PaidOnce`,
  `ReviewsAreIndependent`, `WarrantsPayOnce`, `TheQueueIsHonest`, `RefsAreBacked`,
  `JournalExplainsBalance`, `ReserveIsKept`: the conjuncts, and `FloorKept` from
  the types.
- `PayoutImplementation`: `Spec => ImplementsContract`. `StepKinds` sorts the
  steps (elsewhere, a decision, the court, a preview, an execution);
  `TransitionsDecide` maps the transition table to the contract's decisions.

`PeersProofs` is about a host's peers and what it sends them.

- `TrustTyped`, `SuspensionsHaveReasons` and `ReinstatementIsEarned` hold for
  every number of peers and cases. `NoOrphanSuspension` is inductive with the
  types: a step that resolves the last active case about a peer looks at the case
  store it has just saved, so it either reinstates the peer or was cut; and a
  notice that takes the blame off an active case leaves the peer in `relabelled`.
- `HandoffsTyped`, `EvidenceOfDelivery`, `DeliveriesAreAuthorised`: for every
  number of institutions, hosts, warrants and envelopes. That deliveries never
  outnumber the acknowledgements is not inductive: a dispatchable record must
  still have one to spend (`PromotionsPayDeliveries`), which a lost answer does
  not return and a second acknowledgement adds; and that a warrant authorises
  one recorded delivery needs that such a delivery has spent it
  (`DeliveriesSpendWarrants`).

`CommitmentExchangeProofs` proves `ExchangeTyped`, `MarksAreReal`,
`NoticesSpendWarrants`, `BreachHolds` and `ProposalsAreHarmless` for every number
of commitments, warrants and messages. `ExchangeInv` adds: what a message
reports was marked by its sender's operator and stays marked (so it is true
whenever it is served); a pending delivery is its host's only business, so its
warrant is ready until the answer spends it; an acknowledged message's warrant
is spent; a processed notice of breach left a case. From `PermitsAreDistinct`:
warrants of different classes and hosts are different records.

`HostProofs` is about the smaller parts of one host.

- `AccessTyped`, `RevocationIsFinal`, `DemotionIsSeen` and `DissolutionIsFinal`.
  `Remembered` is the strengthening: an answered revocation is in the memory of
  the process or its session belongs to a process that has ended, and is in the
  file if keys outlive processes.
- `PlansTyped`, `ApprovalsAreEarned` and `StoresDifferByFaults`, from finitely many plans (the bound counts them). The
  invariant carries "was worthy" from the preview to the copy a promotion holds
  and on to the candidate's snapshot.
- `BudgetsTyped`, `CrashesErrOneWay`, `RunwayBoundsReservations`,
  `OnlyTheEntitledReserve`, for any finite set of reservations and all amounts.
  `CountersErrOneWay` is inductive with the types, but each of its steps is about
  sums: `StatusChanges` and the lemmas under it say how the totals by status move
  when some reservations change theirs, whether the counters follow or a crash
  cuts the second save. The lower bound of zero that the ledger puts on
  `reserved` and `active` is harmless as long as no crash has happened, because
  then they are the totals themselves.
- `HostTyped` and `HostIsItsParts`: the parts of the run `host` as one host.

`EconomyProofs` is about the economy of an institution: the token transfers, the
sales and subscriptions, and the court.

- `TransfersTyped`, `CustodyStays`, `PinnedTransfersPayOnce`. A prepared transfer
  carries the level its command read, which must still be the wallet's when it is
  signed (`CustodyInv`); and every transfer not named by the chain carries a wallet
  and nonce that were insisted on wherever it is: prepared, signed, in the pool or
  mined (`PinInv`). One wallet and nonce are mined once, so two payments need two
  pins.
- `CommerceTyped`, `CashIsEarned`, `DeliveriesArePaid`, for any finite sets of
  payments and orders. The strengthening (`CommerceInv`) says of the ledger a
  running order command holds what it says of the ledger on disk: its cash is
  explained by keys whose payments were credited and by orders as often as they
  were; so saving it over a payment recorded meanwhile may lose that payment's
  cash and never invents any. The ledger any other process holds is one, too.
- `CourtTyped` and `SanctionsEnd`, for any processes, agents, violations, appeals,
  bonuses, decays and numbers of calls and runs. `SanctionsEndForAReason` relates
  a step that clears a flag to what the process that saved had in its memory, so
  the strengthening is about memories: `Seen` says that the flags a process
  holds are those it loaded (scoring changes scores only), so a flag it clears by
  a plain save is one it never saw; `Backed` that in all records, on disk or in
  memory, an appeal is against a violation on record: without it a violation
  filed later could be born appealed.
- `AutoRulesSettle`, about the rules themselves: they are all evaluated before any
  is carried out, and a lift of `zero_authority` may leave a reputation that calls
  for another sanction, but two checks settle every entry.
- `EconomyTyped`: the parts of the run `economy` keep their types side by side.

`HostIsItsParts` says that a behaviour of the sum, which the run `host` checks, is
one of every part: what is proved of a part holds of the sum.

Assumptions. Besides the choices and bounds being what their names say, the
proofs use: what stands for "none" is none of the records (`NoneAssumption`,
`AbsentIsNothing`, `AbsentIsNoStatus`, `MissingIsNoRecord`, `NoCopyIsNone`,
`NoneIsNoRecord`); identifiers of different kinds differ (`IdsAssumption`,
`PermitsAreDistinct`, `SalesHaveAmounts`, `HotWalletsAreNew`: a wallet is
either registered by hand or provisioned by the script, which refuses an id the
registry has); amounts are money
(`AmountsAreMoney`); and files hold finitely many records (`SalesAreFinite`, `ReservationsAreFinite`, `PlanAssumptions`). TLC evaluates all
of them on the instances it checks.

Some theorems state what no run repeats, since the proof says it of every
instance: `ReviewsAreIndependent`, `StoresDifferByFaults`, `ProposalsAreHarmless`,
`DemotionIsSeen`, `DissolutionIsFinal`, `AutoRulesSettle`, and the types of the
parts (`HostTypeOK` joins them in the run `host`, `EconomyTypeOK` in `economy`).

Only model-checked: `CallsReturn`, because liveness under fairness is out of the
prover's reach, and the four disagreements below, which are counterexamples.
Every other property of a passing run is stated by a theorem.

## Where the code and its documents disagree

- *A revoked peer comes back* (`revoked_peer`). Opening a case about a revoked
  peer sets it to "suspended" (`_maybe_suspend_peer_for_case` does not look at
  the present state), and resolving the case sets it to "trusted".
  `docs/OPERATOR_LANGUAGE.md:280` calls a revoked peer permanently removed, and
  a test asserts that it is not restored automatically.
- *A stayed risky case without effect* (`risky_case`). A stay notice on a
  mirrored case that had been resolved makes the case active again and leaves
  the peer trusted. `README.md:315-320` says open or stayed risky cases suspend
  the trusted peer.
- *The kill switch does not stop the treasury* (`kill_switch`). No route that
  moves money reads it; a payout is executed while it is engaged.
  `docs/treasury/TREASURY_POLICY.md:80` says it freezes all treasury operations
  except balance reads.
- *A lifted sanction that comes back* (`lift_floor`). Lifting `zero_authority`
  grants authority only to an agent that has none. A recovery may have raised it
  to 2 while the sanction lasted; the lift then grants nothing, one decay of 5
  takes it to 0 and the sanction is applied again. The comment at
  `economy/sanctions.py:173` says that the grant survives one epoch of
  inactivity.

Smaller ones, seen while modelling and not made runs:

- `already_scored` (docstring at `economy/auto_score.py:304`: True if the current
  run was already scored) finds nothing without a deliver job or a `lastRunAtMs`;
  the time of an `epoch_advance` row is UTC, cut to the second and parsed as local
  time; and two scorers may both look before either writes. `Court` lets a run be
  scored again.
- Three incidents raise the risk of an agent to "elevated" (`ARCHITECTURE.md:344`);
  the next scoring syncs the registry from the ledger and sets it to "nominal" if
  the agent has no sanction (`kernel/agent_registry.py:404-409`).
- `organizations.py:196` speaks of an order of the lifecycle that the table does
  not enforce: an active institution may be dissolved directly.
- A run of zero actual cost counts with its estimate in the treasury summary
  (`treasury.py:297`, against `docs/SCALE_TRANCHE.md:33`).

## What is left out

### Not modelled

- Capsules, storage backends and audit: file input and output as such; only
  where a crash can fall between saves. A file torn in the middle of a write is
  refused by every reader until it is repaired by hand.
- Signatures, manifests and schemas of the federation envelopes; witness
  archives. They decide whether a message is accepted, which is a choice here.
- Support contributions, metering records, the charter and policy edits, and the
  lead ranking of `economy/authority.py`: reports or single writes nothing else
  reads.
- The phases other than contributor payouts: they fill a report.
- Membership is never removed by the code, so no action removes a member.
- Negative amounts and floors, and rounding to four digits.
- The HTML dashboard, logging, formatting, CLI parsing, the rust explorer,
  examples, proof bundles and runtime adapters: no protocol state.

### Simplified

- Two processes writing one file are modelled for the organizations file (the CLI
  beside the workspace, `WorkspaceAccess`) and for the economy's files (`Court`,
  `Commerce`). In the other modules the workspace is the only writer of its
  stores, as in normal use.
- `OwnerAccounting`, `Payouts` and `RuntimeBudget` keep money in the same
  `ledger.json`, and the processes of `Court` and `Commerce` may save an older
  copy over it, which loses a debit or a contribution. These modules do not have
  that save: what they show of the balance holds while no scoring, court, order or
  sanction command runs beside a treasury operation.
- Subscriptions support one kind of evidence; support contributions are assumed to
  use other payment keys.
- No function of `src/` outside the tests calls the runtime budget; the model
  lets any agent call it at any time.
- A route listed twice is served by the service modules before the workspace's
  own handler; the model follows what is served.
- Hazards without a property are listed with the reason in `PROJECT.json`.

## Plan

1. The abstract contract of a commitment (proposed, decided, closed) that
   `CommitmentExchange` should implement, in spite of late acceptances, and a
   contract of the token transfers (a payee's money leaves once per nonce).
2. `WorkspaceAccess` with the command line as a process of several steps.
3. The delivery of case notices to the peer, joining `PeerTrust` of two hosts.
