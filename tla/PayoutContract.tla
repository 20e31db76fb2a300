--------------------------- MODULE PayoutContract ---------------------------
(***************************************************************************)
(* What the treasury promises about contributor payouts, without reviews,  *)
(* warrants, files or crashes in sight.  A payout is decided once: an open *)
(* payout is cleared or closed, a cleared one is paid or closed.  Money    *)
(* leaves only for a cleared payout and only out of the surplus above the  *)
(* reserve.  A payment may be cut short after the money has left: then the *)
(* payout stays cleared, and a later attempt pays again.                   *)
(***************************************************************************)
EXTENDS Integers

CONSTANTS Payouts, Price

VARIABLES
  balance,   \* money in the treasury
  reserve,   \* what a payment must leave in it
  state      \* each payout's state

contractVars == <<balance, reserve, state>>

ContractInit ==
  /\ balance \in Nat
  /\ reserve \in Nat
  /\ state = [p \in Payouts |-> "open"]

Decide(p, next) ==
  /\ \/ state[p] = "open" /\ next \in {"cleared", "closed"}
     \/ state[p] = "cleared" /\ next = "closed"
  /\ state' = [state EXCEPT ![p] = next]
  /\ UNCHANGED <<balance, reserve>>

Pay(p, next) ==
  /\ state[p] = "cleared"
  /\ next \in {"cleared", "paid"}
  /\ balance - Price[p] >= reserve
  /\ balance' = balance - Price[p]
  /\ state' = [state EXCEPT ![p] = next]
  /\ UNCHANGED reserve

(* The owner funds the treasury, sets its reserve, and takes surplus out.  *)
MoveOwnMoney ==
  /\ balance' \in Nat
  /\ balance' < balance => balance' >= reserve
  /\ UNCHANGED <<reserve, state>>

SetReserve ==
  /\ reserve' \in Nat
  /\ UNCHANGED <<balance, state>>

ContractNext ==
  \/ \E p \in Payouts :
       \/ \E next \in {"cleared", "closed"} : Decide(p, next)
       \/ \E next \in {"cleared", "paid"} : Pay(p, next)
  \/ MoveOwnMoney
  \/ SetReserve

Contract == ContractInit /\ [][ContractNext]_contractVars
=============================================================================
