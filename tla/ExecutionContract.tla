-------------------------- MODULE ExecutionContract --------------------------
(***************************************************************************)
(* What a federated execution promises, with no host, store or message in  *)
(* sight.  A request is taken in once; its local authorization may be      *)
(* given and withdrawn any number of times; it is executed at most once,   *)
(* and only from an authorization in force at that moment; and it is       *)
(* settled only after it was executed.  Nothing executed or settled is     *)
(* ever undone.                                                            *)
(***************************************************************************)
CONSTANT Envelopes

VARIABLES requested, authorized, executed, settled

contractVars == <<requested, authorized, executed, settled>>

ContractTypeOK ==
  /\ requested \subseteq Envelopes
  /\ authorized \subseteq Envelopes
  /\ executed \subseteq Envelopes
  /\ settled \subseteq Envelopes

ContractInit ==
  /\ requested = {}
  /\ authorized = {}
  /\ executed = {}
  /\ settled = {}

Request(e) ==
  /\ e \notin requested
  /\ requested' = requested \union {e}
  /\ UNCHANGED <<authorized, executed, settled>>

Authorize(e) ==
  /\ e \in requested \ executed
  /\ authorized' = authorized \union {e}
  /\ UNCHANGED <<requested, executed, settled>>

Withdraw(e) ==
  /\ authorized' = authorized \ {e}
  /\ UNCHANGED <<requested, executed, settled>>

(* Executing one request may, in the same step, withdraw another's         *)
(* authorization: the host finds the case that holds it while it reports.  *)
Execute(e) ==
  /\ e \in authorized \ executed
  /\ executed' = executed \union {e}
  /\ authorized' \subseteq authorized \ {e}
  /\ UNCHANGED <<requested, settled>>

Settle(e) ==
  /\ e \in executed
  /\ settled' = settled \union {e}
  /\ UNCHANGED <<requested, authorized, executed>>

ContractNext ==
  \E e \in Envelopes :
    \/ Request(e)
    \/ Authorize(e)
    \/ Withdraw(e)
    \/ Execute(e)
    \/ Settle(e)

Contract == ContractInit /\ [][ContractNext]_contractVars
=============================================================================
