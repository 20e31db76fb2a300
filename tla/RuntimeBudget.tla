--------------------------- MODULE RuntimeBudget ---------------------------
(***************************************************************************)
(* Runtime budget: an agent reserves money before it runs, and the         *)
(* reservation is committed, released or expires with its lease.  The      *)
(* reservation store and the counters of the ledger are two files: every   *)
(* call saves the store and then the ledger, except expiry, which books    *)
(* each lapsed reservation and saves the store last.  A crash in between   *)
(* leaves them apart, and the call or the expiry is then repeated.         *)
(***************************************************************************)
EXTENDS Authority, Functions

CONSTANTS
  Reservations,    \* reservation ids
  Estimates,       \* costs an agent reserves for
  Actuals,         \* costs a run turns out to have
  PerRun,          \* max_per_run_usd of an agent
  RunwayChoices,   \* cash above the reserve floor, as other modules move it
  Lease,           \* lease of a reservation, in ticks of the clock
  MaxCrashes       \* bound on the crashes

ASSUME ReservationsAreFinite == IsFiniteSet(Reservations)
ASSUME AmountsAreCosts == Estimates \subseteq Nat /\ Actuals \subseteq Nat /\ PerRun \in Nat
ASSUME RunwaysAreAmounts == RunwayChoices \subseteq Int
ASSUME BudgetBounds == Lease \in Nat /\ MaxCrashes \in Nat

VARIABLES
  store,    \* the reservation store
  counters, \* the ledger's runtime_budget fields
  runway,   \* the ledger's cash above the reserve floor
  crashes

fileVars == <<store, counters>>
budgetVars == <<authorityVars, fileVars, runway, crashes>>

Reservation == [agent : Agents, action : Actions, status : {"reserved", "committed", "released", "expired"},
                estimate : Estimates, actual : Actuals \union {0}, expires : Nat]

ASSUME MissingIsNoRecord == Missing \notin Reservation

BudgetTypeOK ==
  /\ AuthorityTypeOK
  /\ store \in [Reservations -> Reservation \union {Missing}]
  /\ counters \in [reserved : Int, committed : Nat, released : Nat, expired : Nat, active : Nat]
  /\ runway \in Int
  /\ crashes \in 0..MaxCrashes

BudgetInit ==
  /\ AuthorityInit
  /\ store = [r \in Reservations |-> Missing]
  /\ counters = [reserved |-> 0, committed |-> 0, released |-> 0, expired |-> 0, active |-> 0]
  /\ runway \in RunwayChoices
  /\ crashes = 0

-----------------------------------------------------------------------------
With(s, status) == {r \in Reservations : s[r] # Missing /\ s[r].status = status}
EstimateSum(s, R) == SumFunction([r \in R |-> s[r].estimate])
ActualSum(s, R) == SumFunction([r \in R |-> s[r].actual])
OfAgent(s, a) == {r \in Reservations : s[r] # Missing /\ s[r].agent = a}

Lapsed(s) == {r \in With(s, "reserved") : clock > s[r].expires}
Swept(s) == [r \in Reservations |-> IF r \in Lapsed(s) THEN [s[r] EXCEPT !.status = "expired"] ELSE s[r]]

Lower(x, n) == IF x < n THEN 0 ELSE x - n
SweptCounters(R) ==
  [counters EXCEPT !.reserved = @ - EstimateSum(store, R), !.expired = @ + EstimateSum(store, R),
                   !.active = Lower(@, Cardinality(R))]

(* Every summary, list and lookup sweeps first.                            *)
Sweep ==
  /\ Lapsed(store) # {}
  /\ store' = Swept(store)
  /\ counters' = SweptCounters(Lapsed(store))
  /\ UNCHANGED <<authorityVars, runway, crashes>>

(* A crash while sweeping: some are booked, none is saved as expired.      *)
SweepInterrupted ==
  /\ crashes < MaxCrashes
  /\ \E R \in SUBSET Lapsed(store) : R # {} /\ counters' = SweptCounters(R)
  /\ crashes' = crashes + 1
  /\ UNCHANGED <<authorityVars, store, runway>>

AvailableIgnoringReservations(a) == runway

(* What the runway leaves after the agent's own reservations.              *)
Available(a) ==
  LET left == runway - EstimateSum(store, OfAgent(store, a) \intersect With(store, "reserved"))
  IN IF left < 0 THEN 0 ELSE left

CheckBudget(a, cost) ==
  /\ agents[a].rollout \notin {"quarantined", "disabled"}
  /\ cost <= PerRun
  /\ runway >= 0 /\ Available(a) >= cost

(* The counters are saved last; a crash before leaves them as they were.   *)
Book(newCounters) ==
  \/ counters' = newCounters /\ UNCHANGED crashes
  \/ crashes < MaxCrashes /\ crashes' = crashes + 1 /\ UNCHANGED counters

(* The check sweeps: a reservation is made on a swept store.               *)
Reserve(r, a, action, cost) ==
  /\ store[r] = Missing
  /\ Lapsed(store) = {}
  /\ CheckAuthority(a, action)
  /\ CheckBudget(a, cost)
  /\ store' = [store EXCEPT ![r] = [agent |-> a, action |-> action, status |-> "reserved",
                                     estimate |-> cost, actual |-> 0, expires |-> clock + Lease]]
  /\ Book([counters EXCEPT !.reserved = @ + cost, !.active = @ + 1])
  /\ UNCHANGED <<authorityVars, runway>>

CommitBookedFirst(r, actual) ==
  /\ r \in With(store, "reserved")
  /\ clock <= store[r].expires
  /\ counters' = [counters EXCEPT !.reserved = @ - store[r].estimate, !.committed = @ + actual,
                                  !.active = Lower(@, 1)]
  /\ \/ /\ store' = [store EXCEPT ![r].status = "committed", ![r].actual = actual]
        /\ UNCHANGED crashes
     \/ crashes < MaxCrashes /\ crashes' = crashes + 1 /\ UNCHANGED store
  /\ UNCHANGED <<authorityVars, runway>>

Commit(r, actual) ==
  /\ r \in With(store, "reserved")
  /\ clock <= store[r].expires
  /\ store' = [store EXCEPT ![r].status = "committed", ![r].actual = actual]
  /\ Book([counters EXCEPT !.reserved = @ - store[r].estimate, !.committed = @ + actual,
                           !.active = Lower(@, 1)])
  /\ UNCHANGED <<authorityVars, runway>>

(* Release does not look at the lease.                                     *)
Release(r) ==
  /\ r \in With(store, "reserved")
  /\ store' = [store EXCEPT ![r].status = "released"]
  /\ Book([counters EXCEPT !.reserved = @ - store[r].estimate, !.released = @ + store[r].estimate,
                           !.active = Lower(@, 1)])
  /\ UNCHANGED <<authorityVars, runway>>

(* Payments in and out, and the floor (modules OwnerAccounting, Payouts).  *)
MoveRunway(amount) ==
  /\ runway' = amount
  /\ UNCHANGED <<authorityVars, fileVars, crashes>>

BudgetStep ==
  \/ Sweep \/ SweepInterrupted
  \/ \E r \in Reservations :
       \/ \E a \in Agents, action \in Actions, cost \in Estimates : Reserve(r, a, action, cost)
       \/ \E actual \in Actuals : Commit(r, actual)
       \/ Release(r)
  \/ \E amount \in RunwayChoices : MoveRunway(amount)

BudgetNext ==
  \/ AuthorityStep /\ UNCHANGED <<fileVars, runway, crashes>>
  \/ BudgetStep

BudgetSpec == BudgetInit /\ [][BudgetNext]_budgetVars

-----------------------------------------------------------------------------
(* A crash errs one way only: money the store calls committed or released  *)
(* may be missing from the ledger's counters and is never counted twice,   *)
(* and what expired may be counted twice and is never missing.  With no    *)
(* crash the two files agree on every total.                               *)
CountersErrOneWay ==
  LET committed == ActualSum(store, With(store, "committed"))
      released == EstimateSum(store, With(store, "released"))
      expired == EstimateSum(store, With(store, "expired"))
  IN /\ counters.committed <= committed
     /\ counters.released <= released
     /\ counters.expired >= expired
     /\ crashes = 0 => /\ counters.committed = committed
                       /\ counters.released = released
                       /\ counters.expired = expired
                       /\ counters.reserved = EstimateSum(store, With(store, "reserved"))
                       /\ counters.active = Cardinality(With(store, "reserved"))

(* A reservation never takes what an agent holds past the runway of that   *)
(* moment, however its earlier reservations ended, although each agent is  *)
(* measured by itself.                                                     *)
ReservedWithinRunway ==
  [][store' # store => \A a \in Agents :
       EstimateSum(store', OfAgent(store', a) \intersect With(store', "reserved"))
           > EstimateSum(store, OfAgent(store, a) \intersect With(store, "reserved"))
         => EstimateSum(store', OfAgent(store', a) \intersect With(store', "reserved")) <= runway]_budgetVars

(* Nobody starts to spend while the kill switch is engaged, the agent is   *)
(* quarantined or its institution suspended; and an agent whose sanctions  *)
(* block the action reserves for it only under a live delegation of that   *)
(* action to it.                                                           *)
StoppedAgentsReserveNothing ==
  [][\A r \in Reservations :
       store[r] = Missing /\ store'[r] # Missing =>
         LET a == store'[r].agent
         IN /\ ~switch /\ institution \notin {"suspended", "dissolved"}
            /\ agents[a].lifecycle \notin {"quarantined", "decommissioned"}
            /\ agents[a].rollout = "active"
            /\ store'[r].action \in {"lead", "assign", "execute"}
                 /\ standing[a].flags \intersect {"zero_authority", "remediation_only"} # {} =>
                 \E d \in Delegations :
                   /\ delegations[d] # Missing /\ delegations[d].to = a
                   /\ store'[r].action \in delegations[d].scopes
                   /\ delegations[d].expires > clock]_budgetVars
=============================================================================
