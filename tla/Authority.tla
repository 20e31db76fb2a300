----------------------------- MODULE Authority -----------------------------
(***************************************************************************)
(* Who may act.  An action of an agent is allowed by the agent's and the   *)
(* institution's lifecycle, then the kill switch, then a live delegation,  *)
(* and only then by the sanctions and scores of the economy ledger.  The   *)
(* parts are kept in four files that operators change independently.       *)
(***************************************************************************)
EXTENDS Integers, FiniteSets

CONSTANTS
  Agents,
  Delegations,   \* delegation ids
  Approvals,     \* approval ids
  Missing,
  Actions,       \* what agents ask to do
  FlagChoices,   \* sets of sanction flags the court may leave an agent with
  MaxTime        \* bound on the clock, in hours

BlockedActions == {"lead", "assign", "execute"}
BlockingFlags(action) ==
  IF action \notin BlockedActions THEN {}
  ELSE {"zero_authority", "probation", "remediation_only"}
         \union (IF action = "lead" THEN {"lead_ban"} ELSE {})

Flags == {"probation", "zero_authority", "lead_ban", "remediation_only"}
ASSUME ChoicesAreFlags == FlagChoices \subseteq SUBSET Flags
ASSUME ClockIsBounded == MaxTime \in Nat

VARIABLES
  clock,
  agents,       \* agent registry: lifecycle, rollout
  institution,  \* lifecycle of the institution the agents belong to
  standing,     \* economy ledger: flags, and whether AUTH reaches the lead threshold
  switch,       \* authority queue: the kill switch
  delegations,  \* authority queue
  approvals     \* authority queue

authorityQueue == <<switch, delegations, approvals>>
authorityVars == <<clock, agents, institution, standing, authorityQueue>>

AgentStates == {"provisioned", "active", "quarantined", "decommissioned"}
OrgStates == {"founding", "active", "suspended", "dissolved"}
Delegation == [to : Agents, scopes : SUBSET Actions, expires : Nat]

AuthorityTypeOK ==
  /\ clock \in 0..MaxTime
  /\ agents \in [Agents -> [lifecycle : AgentStates, rollout : {"active", "quarantined", "disabled"}]]
  /\ institution \in OrgStates
  /\ standing \in [Agents -> [flags : SUBSET Flags, lead : BOOLEAN]]
  /\ switch \in BOOLEAN
  /\ delegations \in [Delegations -> Delegation \union {Missing}]
  /\ approvals \in [Approvals -> {Missing, "pending", "approved", "denied"}]

AuthorityInit ==
  /\ clock = 0
  /\ agents = [a \in Agents |-> [lifecycle |-> "active", rollout |-> "active"]]
  /\ institution = "active"
  /\ standing = [a \in Agents |-> [flags |-> {}, lead |-> TRUE]]
  /\ switch = FALSE
  /\ delegations = [d \in Delegations |-> Missing]
  /\ approvals = [p \in Approvals |-> Missing]

-----------------------------------------------------------------------------
Stopped(a) ==
  \/ agents[a].lifecycle \in {"quarantined", "decommissioned"}
  \/ institution \in {"suspended", "dissolved"}
  \/ switch

Delegated(a, action) ==
  \E d \in Delegations :
    /\ delegations[d] # Missing /\ delegations[d].to = a
    /\ action \in delegations[d].scopes
    /\ delegations[d].expires > clock

HasRights(a, action) ==
  /\ standing[a].flags \intersect BlockingFlags(action) = {}
  /\ action = "lead" => standing[a].lead

CheckDelegationFirst(a, action) == Delegated(a, action) \/ (~Stopped(a) /\ HasRights(a, action))

CheckAuthority(a, action) == ~Stopped(a) /\ (Delegated(a, action) \/ HasRights(a, action))

-----------------------------------------------------------------------------
Tick ==
  /\ clock < MaxTime
  /\ clock' = clock + 1
  /\ UNCHANGED <<agents, institution, standing, authorityQueue>>

AgentTransitions ==
  [provisioned |-> {"active"}, active |-> {"quarantined", "decommissioned"},
   quarantined |-> {"active", "decommissioned"}, decommissioned |-> {}]

TransitionAgent(a, state) ==
  /\ state \in AgentTransitions[agents[a].lifecycle]
  /\ agents' = [agents EXCEPT ![a].lifecycle = state]
  /\ UNCHANGED <<clock, institution, standing, authorityQueue>>

SetRollout(a, rollout) ==
  /\ agents' = [agents EXCEPT ![a].rollout = rollout]
  /\ UNCHANGED <<clock, institution, standing, authorityQueue>>

OrgTransitions ==
  [founding |-> {"active"}, active |-> {"suspended", "dissolved"},
   suspended |-> {"active", "dissolved"}, dissolved |-> {}]

TransitionInstitution(state) ==
  /\ state \in OrgTransitions[institution]
  /\ institution' = state
  /\ UNCHANGED <<clock, agents, standing, authorityQueue>>

(* What the court and the scorer leave in the ledger (module Court).       *)
SetStanding(a, flags, lead) ==
  /\ "zero_authority" \in flags => ~lead
  /\ standing' = [standing EXCEPT ![a] = [flags |-> flags, lead |-> lead]]
  /\ UNCHANGED <<clock, agents, institution, authorityQueue>>

SetKillSwitch(engaged) ==
  /\ switch' = engaged
  /\ UNCHANGED <<clock, agents, institution, standing, delegations, approvals>>

(* Nobody asks what the delegating agent may do itself.                    *)
Delegate(d, a, scopes, hours) ==
  /\ delegations[d] = Missing
  /\ delegations' = [delegations EXCEPT ![d] = [to |-> a, scopes |-> scopes, expires |-> clock + hours]]
  /\ UNCHANGED <<clock, agents, institution, standing, switch, approvals>>

RevokeDelegation(d) ==
  /\ delegations[d] # Missing
  /\ delegations' = [delegations EXCEPT ![d] = Missing]
  /\ UNCHANGED <<clock, agents, institution, standing, switch, approvals>>

RequestApproval(p) ==
  /\ approvals[p] = Missing
  /\ approvals' = [approvals EXCEPT ![p] = "pending"]
  /\ UNCHANGED <<clock, agents, institution, standing, switch, delegations>>

DecideApproval(p, decision) ==
  /\ approvals[p] = "pending"
  /\ approvals' = [approvals EXCEPT ![p] = decision]
  /\ UNCHANGED <<clock, agents, institution, standing, switch, delegations>>

AuthorityStep ==
  \/ Tick
  \/ \E a \in Agents :
       \/ \E state \in AgentStates : TransitionAgent(a, state)
       \/ \E rollout \in {"active", "disabled"} : SetRollout(a, rollout)
       \/ \E flags \in FlagChoices, lead \in BOOLEAN : SetStanding(a, flags, lead)
       \/ \E d \in Delegations, action \in Actions : Delegate(d, a, {action}, 1)
  \/ \E state \in OrgStates : TransitionInstitution(state)
  \/ \E engaged \in BOOLEAN : SetKillSwitch(engaged)
  \/ \E d \in Delegations : RevokeDelegation(d)
  \/ \E p \in Approvals : RequestApproval(p) \/ \E s \in {"approved", "denied"} : DecideApproval(p, s)
=============================================================================
