------------------------------- MODULE MCHost -------------------------------
(***************************************************************************)
(* The smaller parts of one host, for TLC: whom it trusts as cases come    *)
(* and go, how a request leaves for another host, what its agents may      *)
(* spend, the plans of its payouts, the commitments it shares with another *)
(* host, and who may change it.  Each writes files of its own (where one   *)
(* reads a file of another, as the dispatch reads the trust of a peer, it  *)
(* is modelled with every value the other may leave there), so a run picks *)
(* the part that moves and leaves the others as they began.                *)
(***************************************************************************)
EXTENDS PeerTrust, HandoffDispatch, RuntimeBudget, PayoutPlans, CommitmentExchange,
        WorkspaceAccess

VARIABLE part   \* the part that moves

(* A peer that serves the institutions, and one that declares no endpoint. *)
ServingPeer == [trust |-> "trusted", orgs |-> Orgs, endpoint |-> TRUE]
MutePeer == [trust |-> "trusted", orgs |-> Orgs, endpoint |-> FALSE]
SomePeers == {ServingPeer, MutePeer}

(* The source may settle what it proposed.                                 *)
PartyReviews == [source |-> {"accept", "breach", "settle"}, target |-> {"accept", "breach"}]

HostInit ==
  /\ part \in {"trust", "handoffs", "local", "budget", "plans", "commitments", "access"}
  /\ Init /\ HandoffInit /\ PlanInit /\ CommitmentInit
  /\ AccessInit /\ (part # "access" => secret)
  /\ BudgetInit /\ (part # "budget" => \A amount \in RunwayChoices : runway <= amount)

HostNext ==
  \/ /\ part = "trust" /\ UNCHANGED <<part, handoffVars, budgetVars, planVars, exchangeVars, accessVars>>
     /\ Next
  \/ /\ part = "handoffs" /\ UNCHANGED <<part, vars, budgetVars, planVars, exchangeVars, accessVars>>
     /\ RemoteStep
  \/ /\ part = "local" /\ UNCHANGED <<part, vars, budgetVars, planVars, exchangeVars, accessVars>>
     /\ LocalStep
  \/ /\ part = "budget" /\ UNCHANGED <<part, vars, handoffVars, planVars, exchangeVars, accessVars>>
     /\ BudgetNext
  \/ /\ part = "plans" /\ UNCHANGED <<part, vars, handoffVars, budgetVars, exchangeVars, accessVars>>
     /\ PlanNext
  \/ /\ part = "commitments" /\ UNCHANGED <<part, vars, handoffVars, budgetVars, planVars, accessVars>>
     /\ CommitmentNext
  \/ /\ part = "access" /\ UNCHANGED <<part, vars, handoffVars, budgetVars, planVars, exchangeVars>>
     /\ AccessNext

HostSpec ==
  HostInit /\ [][HostNext]_<<part, vars, handoffVars, budgetVars, planVars, exchangeVars, accessVars>>

(* The parts keep the types of their files.                                *)
HostTypeOK ==
  TypeOK /\ HandoffTypeOK /\ BudgetTypeOK /\ PlanTypeOK /\ CommitmentTypeOK /\ AccessTypeOK
=============================================================================
