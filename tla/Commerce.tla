------------------------------ MODULE Commerce ------------------------------
(***************************************************************************)
(* What customers pay and what they get for it.  A sale is an order of the *)
(* order book, advanced by command until it is paid, or a payment settled  *)
(* outside and recorded under its key.  Either credits the ledger and      *)
(* leaves a customer_payment row in the journal; a paid subscription is    *)
(* delivered while the journal backs it.  The order book, the ledger and   *)
(* the journal are three files; the subscriptions are a fourth.  The       *)
(* ledger is also loaded, changed elsewhere and saved whole, without a     *)
(* lock, by the court, the scorer, the treasury and the accounting.        *)
(***************************************************************************)
EXTENDS Integers, Sequences, FiniteSets, FiniteSetsExt, Functions

CONSTANTS
  Payments,      \* keys of payments settled outside
  Orders,        \* orders of the order book
  RefOf,         \* the payment reference of each payment: the id of a sale
  Amount,        \* the amount of each sale
  Price,         \* the price of the paid plan
  Subscribers,   \* telegram ids
  Subs,          \* subscription ids
  Absent,        \* no order, no reference, no subscription
  MaxRows,       \* bound on the rows of the journal
  MaxCredits,    \* bound on the credits of a sale
  MaxFailures    \* bound on the crashes

Sales == Payments \union Orders

ASSUME SalesHaveAmounts ==
  /\ Payments \intersect Orders = {} /\ Absent \notin Sales
  /\ Amount \in [Sales -> Nat \ {0}] /\ RefOf \in [Payments -> Sales]
ASSUME SalesAreFinite == IsFiniteSet(Payments) /\ IsFiniteSet(Orders)
ASSUME CommerceBounds ==
  Price \in Nat /\ MaxRows \in Nat /\ MaxCredits \in Nat /\ MaxFailures \in Nat

VARIABLES
  orders,        \* order book: the status of an order, or Absent
  receivables,   \* order book: receivables_usd
  command,       \* a running command: its order, the order book and the ledger it loaded
  cash,          \* ledger: what customers paid
  keys,          \* ledger: processed_payment_keys
  stale,         \* the ledger that another process loaded
  rows,          \* journal: the sale of each customer_payment row
  reclassified,  \* journal: sales of the reclassification rows
  subs,          \* subscriptions
  credits,       \* history: how often a credit for a sale was saved
  failures

book == <<orders, receivables>>
money == <<cash, keys, stale, rows, credits>>
saleVars == <<book, command, money, reclassified>>
commerceVars == <<saleVars, subs, failures>>

OrderStates == <<"proposed", "accepted", "in_progress", "delivered", "invoiced", "paid">>
Status == Range(OrderStates) \union {"rejected"}
ASSUME AbsentIsNoStatus == Absent \notin Status
OrderBook == [orders : [Sales -> Status \union {Absent}], receivables : Nat]
CashBook == [cash : Nat, keys : SUBSET Payments]
Sub == [by : Subscribers, plan : {"trial", "paid"}, status : {"active", "converted", "cancelled"},
        expired : BOOLEAN, ref : Sales \union {Absent}, evidence : Sales \union {Absent}]

CommerceTypeOK ==
  /\ [orders |-> orders, receivables |-> receivables] \in OrderBook
  /\ command = Absent \/ command \in [order : Sales, book : OrderBook, ledger : CashBook]
  /\ [cash |-> cash, keys |-> keys] \in CashBook /\ stale \in CashBook
  /\ reclassified \subseteq Sales
  /\ rows \in Seq(Sales) /\ Len(rows) <= MaxRows
  /\ subs \in [Subs -> Sub \union {Absent}]
  /\ credits \in [Sales -> Nat]
  /\ failures \in 0..MaxFailures

CommerceInit ==
  /\ orders = [x \in Sales |-> Absent] /\ receivables = 0 /\ command = Absent
  /\ cash = 0 /\ keys = {} /\ stale = [cash |-> 0, keys |-> {}]
  /\ rows = <<>> /\ reclassified = {}
  /\ credits = [x \in Sales |-> 0]
  /\ subs = [s \in Subs |-> Absent]
  /\ failures = 0

Fail == failures < MaxFailures /\ failures' = failures + 1

CashFile == [cash |-> cash, keys |-> keys]

(* Receivables are never below zero. *)
Deducted(x, n) == IF x < n THEN 0 ELSE x - n
Credited(x, loaded) ==
  /\ credits[x] < MaxCredits
  /\ cash' = loaded + Amount[x]
  /\ credits' = [credits EXCEPT ![x] = @ + 1]

-----------------------------------------------------------------------------
(***************************************************************************)
(* The order book.                                                         *)
(***************************************************************************)
CreateOrder(o) ==
  /\ orders[o] = Absent
  /\ orders' = [orders EXCEPT ![o] = "proposed"]
  /\ receivables' = receivables + Amount[o]
  /\ UNCHANGED <<command, money, reclassified, subs, failures>>

After(status) == OrderStates[1 + CHOOSE i \in DOMAIN OrderStates : OrderStates[i] = status]
Advances(status) == status \in Range(OrderStates) \ {"paid"}

AdvanceOrder(x) ==
  /\ Advances(orders[x]) /\ orders[x] # "invoiced"
  /\ orders' = [orders EXCEPT ![x] = After(@)]
  /\ UNCHANGED <<receivables, command, money, reclassified, subs, failures>>

(* The last advance takes no lock: it loads the order book and the ledger, *)
(* saves the ledger it credited, writes the row and saves the order book.  *)
LoadInvoiced(x) ==
  /\ command = Absent /\ orders[x] # Absent /\ orders[x] = "invoiced"
  /\ command' = [order |-> x, book |-> [orders |-> [orders EXCEPT ![x] = After(@)],
                                        receivables |-> Deducted(receivables, Amount[x])],
                            ledger |-> CashFile]
  /\ UNCHANGED <<book, money, reclassified, subs, failures>>

PayInvoiced ==
  /\ command # Absent /\ Len(rows) < MaxRows
  /\ Credited(command.order, command.ledger.cash) /\ keys' = command.ledger.keys
  /\ \/ /\ rows' = Append(rows, command.order)
        /\ orders' = command.book.orders /\ receivables' = command.book.receivables
        /\ UNCHANGED failures
     \/ /\ rows' \in {rows, Append(rows, command.order)}
        /\ Fail
        /\ UNCHANGED book
  /\ command' = Absent
  /\ UNCHANGED <<stale, reclassified, subs>>

(* Of an order in any status.                                              *)
RejectOrder(x) ==
  /\ orders[x] # Absent
  /\ orders' = [orders EXCEPT ![x] = "rejected"]
  /\ receivables' = Deducted(receivables, Amount[x])
  /\ UNCHANGED <<command, money, reclassified, subs, failures>>

-----------------------------------------------------------------------------
(***************************************************************************)
(* Payments settled outside.                                               *)
(***************************************************************************)
RowExists(p) ==
  \E i \in DOMAIN rows : rows[i] = p \/ (rows[i] \in Payments /\ RefOf[rows[i]] = RefOf[p])

(* Recordings exclude each other by a lock that no other process takes:    *)
(* the ledger loaded may be older than the one saved over.                 *)
MayHaveLoaded == {CashFile, stale}

RecordPaymentKeyless(p, n, loaded) ==
  /\ Len(rows) < MaxRows
  /\ orders' = [orders EXCEPT ![p] = "paid"]
  /\ IF n >= 2 /\ p \notin loaded.keys THEN Credited(p, loaded.cash) /\ keys' = loaded.keys
     ELSE UNCHANGED <<cash, keys, credits>>
  /\ rows' = IF n = 3 /\ ~RowExists(p) THEN Append(rows, p) ELSE rows
  /\ IF n = 3 THEN UNCHANGED failures ELSE Fail
  /\ UNCHANGED <<stale, receivables, command, reclassified, subs>>

(* The order book, the ledger and the row, in this order: of the saves     *)
(* that are due the first n are made.                                      *)
RecordPayment(p, n, loaded) ==
  /\ Len(rows) < MaxRows
  /\ orders' = [orders EXCEPT ![p] = "paid"]
  /\ IF n >= 2 /\ p \notin loaded.keys
     THEN Credited(p, loaded.cash) /\ keys' = loaded.keys \union {p}
     ELSE UNCHANGED <<cash, keys, credits>>
  /\ rows' = IF n = 3 /\ ~RowExists(p) THEN Append(rows, p) ELSE rows
  /\ IF n = 3 THEN UNCHANGED failures ELSE Fail
  /\ UNCHANGED <<stale, receivables, command, reclassified, subs>>

(* The processes that keep something else in the ledger.                   *)
LoadElsewhere ==
  /\ stale # CashFile
  /\ stale' = CashFile
  /\ UNCHANGED <<book, command, cash, keys, rows, credits, reclassified, subs, failures>>

SaveElsewhere ==
  /\ cash' = stale.cash /\ keys' = stale.keys
  /\ UNCHANGED <<book, command, stale, rows, credits, reclassified, subs, failures>>

(* A correction of a row, written into the journal by the operator's tools. *)
Reclassify(x) ==
  /\ x \in Range(rows)
  /\ reclassified' = reclassified \union {x}
  /\ UNCHANGED <<book, command, money, subs, failures>>

-----------------------------------------------------------------------------
(***************************************************************************)
(* Subscriptions.                                                          *)
(***************************************************************************)

(* The first row that a reference names and that pays enough, or Absent.     *)
Matches(x, ref) == x = ref \/ (x \in Payments /\ RefOf[x] = ref)
EvidenceAsRecorded(ref) ==
  LET found == {i \in DOMAIN rows : Matches(rows[i], ref) /\ Amount[rows[i]] >= Price}
  IN IF found = {} THEN Absent ELSE rows[Min(found)]

Evidence(ref) ==
  LET found == {i \in DOMAIN rows : /\ Matches(rows[i], ref)
                                    /\ rows[i] \notin reclassified
                                    /\ Amount[rows[i]] >= Price}
  IN IF found = {} THEN Absent ELSE rows[Min(found)]

Eligible(s) ==
  /\ subs[s] # Absent /\ subs[s].status = "active" /\ ~subs[s].expired
  /\ subs[s].plan = "paid" =>
       /\ subs[s].evidence # Absent
       /\ Evidence(subs[s].ref) = subs[s].evidence

NewSub(by, plan, ref, evidence) ==
  [by |-> by, plan |-> plan, status |-> "active", expired |-> FALSE, ref |-> ref, evidence |-> evidence]
Of(by) == {s \in Subs : subs[s] # Absent /\ subs[s].by = by}
UsedTrial(by) == \E s \in Of(by) : subs[s].plan = "trial"

AddTrial(s, by) ==
  /\ subs[s] = Absent /\ ~UsedTrial(by)
  /\ subs' = [subs EXCEPT ![s] = NewSub(by, "trial", Absent, Absent)]
  /\ UNCHANGED <<saleVars, failures>>

(* Confirmed at once, or left to be verified.                              *)
Confirms(ref, confirm) == confirm => Evidence(ref) # Absent
PaidSub(by, ref, confirm) == NewSub(by, "paid", ref, IF confirm THEN Evidence(ref) ELSE Absent)

AddPaid(s, by, ref, confirm) ==
  /\ subs[s] = Absent /\ Confirms(ref, confirm)
  /\ subs' = [subs EXCEPT ![s] = PaidSub(by, ref, confirm)]
  /\ UNCHANGED <<saleVars, failures>>

(* The trial is saved as converted first; the paid subscription may then   *)
(* be refused for want of evidence.                                        *)
ConvertTrial(t, s, ref, confirm) ==
  /\ subs[t] # Absent /\ subs[t].plan = "trial" /\ subs[t].status = "active"
  /\ subs[s] = Absent
  /\ subs' = [subs EXCEPT ![t].status = "converted",
                          ![s] = IF Confirms(ref, confirm) THEN PaidSub(subs[t].by, ref, confirm) ELSE Absent]
  /\ UNCHANGED <<saleVars, failures>>

VerifyPayment(s, ref) ==
  /\ subs[s] # Absent /\ subs[s].plan = "paid" /\ subs[s].status = "active"
  /\ Evidence(ref) # Absent
  /\ subs' = [subs EXCEPT ![s].ref = ref, ![s].evidence = Evidence(ref)]
  /\ UNCHANGED <<saleVars, failures>>

CancelActive(by) ==
  /\ \E s \in Of(by) : subs[s].status = "active"
  /\ subs' = [s \in Subs |-> IF s \in Of(by) /\ subs[s].status = "active"
                             THEN [subs[s] EXCEPT !.status = "cancelled"] ELSE subs[s]]
  /\ UNCHANGED <<saleVars, failures>>

Lapse(s) ==
  /\ subs[s] # Absent /\ subs[s].status = "active"
  /\ subs' = [subs EXCEPT ![s].expired = TRUE]
  /\ UNCHANGED <<saleVars, failures>>

SaleStep ==
  \/ \E o \in Orders : CreateOrder(o)
  \/ \E x \in Sales : AdvanceOrder(x) \/ LoadInvoiced(x) \/ RejectOrder(x) \/ Reclassify(x)
  \/ PayInvoiced \/ LoadElsewhere \/ SaveElsewhere
  \/ \E p \in Payments, n \in 1..3, loaded \in MayHaveLoaded : RecordPayment(p, n, loaded)

SubscriptionStep ==
  \/ \E s \in Subs, by \in Subscribers :
       AddTrial(s, by) \/ \E ref \in Sales, confirm \in BOOLEAN : AddPaid(s, by, ref, confirm)
  \/ \E s \in Subs, ref \in Sales :
       VerifyPayment(s, ref) \/ \E t \in Subs, confirm \in BOOLEAN : ConvertTrial(t, s, ref, confirm)
  \/ \E by \in Subscribers : CancelActive(by)
  \/ \E s \in Subs : Lapse(s)

CommerceNext == SaleStep \/ SubscriptionStep

CommerceSpec == CommerceInit /\ [][CommerceNext]_commerceVars

-----------------------------------------------------------------------------
RowsOf(x) == {i \in DOMAIN rows : rows[i] = x}

(* The ledger never holds a payment twice, whatever is retried, rejected   *)
(* or saved over by a process that loaded an older ledger: its cash is at  *)
(* most each payment once and each order as often as it was advanced.  And *)
(* no row of the journal comes before its credit: however crashes fall     *)
(* between the files, a sale has at least as many saved credits as rows.   *)
MoneyIsEarned ==
  /\ cash <= SumFunction([p \in Payments |-> IF credits[p] > 0 THEN Amount[p] ELSE 0])
             + SumFunction([o \in Orders |-> credits[o] * Amount[o]])
  /\ \A x \in Sales : Cardinality(RowsOf(x)) <= credits[x]

(* A paid subscription that is delivered stands on a sale whose credit was *)
(* saved in the ledger, that pays the price, and that nobody reclassified. *)
DeliveryIsPaid ==
  \A s \in Subs :
    Eligible(s) /\ subs[s].plan = "paid" =>
      \E x \in Sales : credits[x] > 0 /\ Amount[x] >= Price /\ x \notin reclassified
                       /\ x = subs[s].evidence
=============================================================================
