----------------------------- MODULE MCPayouts ------------------------------
(* Small instances of Payouts for TLC.                                     *)
EXTENDS Payouts, TLC

UnitAmount == [p \in Proposals |-> 1]
DoubleAmount == [p \in Proposals |-> 2]
Symmetry == Permutations(WarrantIds) \union Permutations(Proposals)
=============================================================================
