------------------------------ MODULE MCCourt ------------------------------
(***************************************************************************)
(* The court, the sanction and score commands and the scorer, for TLC.     *)
(***************************************************************************)
EXTENDS Court, TLC

(* A recovery outcome and a good day, for every agent; and a score by hand *)
(* that takes almost everything.                                           *)
MCOutcomes == {[agent |-> a, rep |-> r[1], auth |-> r[2], recovery |-> r[3]] :
                 a \in Agents, r \in {<<20, 20, FALSE>>, <<3, 3, TRUE>>}}
MCHandScores == {[agent |-> a, rep |-> -85, auth |-> -100, recovery |-> FALSE] : a \in Agents}
NoBonus == {[rep |-> 0, auth |-> 0]}

CourtSymmetry == Permutations(Processes) \union Permutations(Violations)
=============================================================================
