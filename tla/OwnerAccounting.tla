--------------------------- MODULE OwnerAccounting --------------------------
(***************************************************************************)
(* The money of one institution and what its owner puts in and takes out.  *)
(* Three files move without a transaction: ledger.json (the treasury's     *)
(* balance), owner_ledger.json (the owner's book) and transactions.jsonl   *)
(* (the journal).  Requests are served one at a time, so an operation is   *)
(* one step; a crash may cut it short after any of its saves, and n says   *)
(* how many of them reach the disk.                                        *)
(***************************************************************************)
EXTENDS Integers

CONSTANTS
  InitialCash,    \* treasury balance at bootstrap
  InitialFloor,   \* reserve floor at bootstrap
  OwnerAmounts,   \* amounts the owner moves or spends
  FloorChoices,   \* reserve floors the owner may set
  MaxMoney,       \* bound on the balance and on the book's totals
  MaxCrashes      \* bound on the crashes

ASSUME AmountsAreMoney ==
  /\ InitialCash \in Nat
  /\ InitialFloor \in Nat
  /\ OwnerAmounts \subseteq Nat \ {0}
  /\ FloorChoices \subseteq Nat
  /\ MaxMoney \in Nat
  /\ MaxCrashes \in Nat

VARIABLES
  cash,      \* ledger: treasury.cash_usd
  floor,     \* ledger: treasury.reserve_floor_usd
  capital,   \* ledger: treasury.owner_capital_contributed_usd
  drawn,     \* ledger: treasury.owner_draws_usd
  book,      \* the owner's book
  journal,   \* the sum of the journal's rows, money in less money out
  crashes    \* history: how often a crash cut an operation short

ownerVars == <<capital, drawn, book>>
moneyVars == <<cash, floor, journal, crashes>>
accountingVars == <<moneyVars, ownerVars>>

Book == [capital : Nat, expenses : Nat, reimbursed : Nat, draws : Nat]

AccountingTypeOK ==
  /\ cash \in Nat
  /\ floor \in Nat
  /\ capital \in Nat
  /\ drawn \in Nat
  /\ book \in Book
  /\ journal \in Int
  /\ crashes \in 0..MaxCrashes

AccountingInit ==
  /\ cash = InitialCash
  /\ floor = InitialFloor
  /\ capital = 0
  /\ drawn = 0
  /\ book = [capital |-> 0, expenses |-> 0, reimbursed |-> 0, draws |-> 0]
  /\ journal = 0
  /\ crashes = 0

-----------------------------------------------------------------------------
(* Of an operation with last saves, the first n reach the disk.            *)
Saves(n, last) ==
  /\ crashes' = IF n < last THEN crashes + 1 ELSE crashes
  /\ crashes' <= MaxCrashes

(* Every reader of the book first raises its capital to the ledger's.      *)
Synced == [book EXCEPT !.capital = IF capital > @ THEN capital ELSE @]

ReadBook ==
  /\ book' = Synced
  /\ UNCHANGED <<moneyVars, capital, drawn>>

(***************************************************************************)
(* Money in.  The workspace contributes through the ledger alone; the      *)
(* accounting service has a way of its own that writes the book first.     *)
(***************************************************************************)
ContributeWithoutRow(a, n) ==
  /\ cash + a <= MaxMoney
  /\ Saves(n, 2)
  /\ cash' = cash + a
  /\ capital' = capital + a
  /\ UNCHANGED <<floor, journal, drawn, book>>

Contribute(a, n) ==
  /\ cash + a <= MaxMoney
  /\ Saves(n, 2)
  /\ cash' = cash + a
  /\ capital' = capital + a
  /\ journal' = IF n >= 2 THEN journal + a ELSE journal
  /\ UNCHANGED <<floor, drawn, book>>

ContributeThroughBook(a, n) ==
  /\ cash + a <= MaxMoney /\ Synced.capital + a <= MaxMoney
  /\ Saves(n, 3)
  /\ book' = [Synced EXCEPT !.capital = @ + a]
  /\ cash' = IF n >= 2 THEN cash + a ELSE cash
  /\ capital' = IF n >= 2 THEN capital + a ELSE capital
  /\ journal' = IF n >= 3 THEN journal + a ELSE journal
  /\ UNCHANGED <<floor, drawn>>

SetReserveFloor(f) ==
  /\ floor' = f
  /\ UNCHANGED <<cash, journal, crashes, ownerVars>>

RecordExpense(a) ==
  /\ book.expenses + a <= MaxMoney
  /\ book' = [Synced EXCEPT !.expenses = @ + a]
  /\ UNCHANGED <<moneyVars, capital, drawn>>

(***************************************************************************)
(* Money out to the owner: the book is saved, then the ledger, then the    *)
(* journal row.                                                            *)
(***************************************************************************)
WithdrawLedgerFirst(a, entered, n) ==
  /\ Saves(n, 3)
  /\ cash' = cash - a
  /\ drawn' = drawn + a
  /\ book' = IF n >= 2 THEN entered ELSE book
  /\ journal' = IF n >= 3 THEN journal - a ELSE journal
  /\ UNCHANGED <<floor, capital>>

Withdraw(a, entered, n) ==
  /\ Saves(n, 3)
  /\ book' = entered
  /\ cash' = IF n >= 2 THEN cash - a ELSE cash
  /\ drawn' = IF n >= 2 THEN drawn + a ELSE drawn
  /\ journal' = IF n >= 3 THEN journal - a ELSE journal
  /\ UNCHANGED <<floor, capital>>

Reimburse(a, n) ==
  /\ a <= book.expenses - book.reimbursed
  /\ cash - a >= floor
  /\ Withdraw(a, [Synced EXCEPT !.reimbursed = @ + a], n)

Draw(a, n) ==
  /\ cash > floor /\ a <= cash - floor
  /\ book.draws + a <= MaxMoney
  /\ Withdraw(a, [Synced EXCEPT !.draws = @ + a], n)

AccountingNext ==
  \/ ReadBook
  \/ \E f \in FloorChoices : SetReserveFloor(f)
  \/ \E a \in OwnerAmounts :
       \/ RecordExpense(a)
       \/ \E n \in 1..2 : Contribute(a, n)
       \/ \E n \in 1..3 :
            \/ ContributeThroughBook(a, n)
            \/ Reimburse(a, n)
            \/ Draw(a, n)

AccountingSpec == AccountingInit /\ [][AccountingNext]_accountingVars

-----------------------------------------------------------------------------
(* What left the treasury for the owner is what the owner was owed for     *)
(* expenses and what the book calls draws, never more: a withdrawal that a *)
(* crash cuts short is in the book before the money moves, so the retry    *)
(* cannot be paid a second time.                                           *)
OwnerPaidOnlyWhatIsDue ==
  /\ drawn <= book.expenses + book.draws
  /\ crashes = 0 => drawn = book.reimbursed + book.draws

(* The journal explains the balance as long as no crash has come between   *)
(* the ledger and the row of an operation.                                 *)
JournalReconciles == crashes = 0 => cash = InitialCash + journal

(* No payout, reimbursement or draw takes the balance below the reserve    *)
(* floor; only raising the floor can.                                      *)
FloorKept == [][cash' < cash => cash' >= floor']_accountingVars
=============================================================================
