----------------------------- MODULE MCEconomy -----------------------------
(***************************************************************************)
(* The economy of an institution, for TLC: what its agents earn and lose,  *)
(* what its customers pay, and the tokens its treasury transfers.  A run   *)
(* picks the part that moves and leaves the others as they began.  The     *)
(* court and the sales keep their figures in one ledger file, saved whole  *)
(* without a lock: each part has, as steps of its own, the saves by which  *)
(* the others put back the figures they had loaded (SaveMoney in Court,    *)
(* LoadElsewhere and SaveElsewhere in Commerce).  Subscriptions move with  *)
(* sales that are credited once and never crash; the sales alone have all  *)
(* their credits and crashes.                                              *)
(***************************************************************************)
EXTENDS MCCourt, Commerce, TokenTransfers

VARIABLE part   \* the part that moves

CONSTANTS p1, p2, o1
MCPayments == {p1, p2}
MCOrders == {o1}
MCRefOf == [p \in MCPayments |-> p1]
MCAmount == [x \in MCPayments \union MCOrders |-> IF x = p2 THEN 1 ELSE 2]

EconomySymmetry == CourtSymmetry \union Permutations(Subs)

EconomyInit ==
  /\ part \in {"court", "sales", "subscriptions", "transfers"}
  /\ Init /\ CommerceInit /\ TransferInit

EconomyNext ==
  \/ part = "court" /\ UNCHANGED <<part, commerceVars, transferVars>> /\ Next
  \/ part = "sales" /\ UNCHANGED <<part, vars, transferVars>> /\ SaleStep
  \/ part = "subscriptions" /\ UNCHANGED <<part, vars, transferVars>> /\ CommerceNext
       /\ failures' = 0 /\ \A x \in Sales : credits'[x] <= 1
  \/ part = "transfers" /\ UNCHANGED <<part, vars, commerceVars>> /\ TransferNext

EconomySpec == EconomyInit /\ [][EconomyNext]_<<part, vars, commerceVars, transferVars>>

(* The parts keep the types of their files: scores stay within their       *)
(* range, receivables and cash never turn negative.                        *)
EconomyTypeOK == TypeOK /\ CommerceTypeOK /\ TransferTypeOK
=============================================================================
