------------------------------- MODULE Court -------------------------------
(***************************************************************************)
(* How an agent is sanctioned and how it comes back.  Three files move     *)
(* without a transaction and without a lock: the economy ledger (scores    *)
(* and sanction flags), the court records (violations and appeals) and the *)
(* agent registry (incidents and risk).  The court of the workspace        *)
(* server, its own commands, the sanction and score commands, the scorer   *)
(* and every process that keeps money in the ledger load a file, change it *)
(* in memory and save it whole: what others saved in between is lost.      *)
(***************************************************************************)
EXTENDS Integers, FiniteSets, FiniteSetsExt

CONSTANTS
  Processes,     \* each runs one handler, command or scoring at a time
  Agents,
  Main,          \* the agent that always participates in scoring
  Registered,    \* the agents the registry knows
  Violations,    \* violation ids
  Appeals,       \* appeal ids
  None,
  Severities,    \* severities a violation is filed with
  Outcomes,      \* what a deliver run may be scored with, per agent
  HandScores,    \* what the operator may score by command
  Bonuses,       \* what the draw may add to a gain
  CliSanctions,  \* sanctions the operator applies by command
  CliLifts,      \* sanctions the operator lifts by command, or "all"
  InitialScore,  \* the reputation and authority agents start with
  Decay,         \* auth_decay_per_epoch
  MaxRuns,       \* bound on the deliver runs
  MaxCalls       \* bound on the handlers, commands and scorings

MaxScore == 100
RecoveryAuthCap == 2
IncidentElevated == 3
IncidentCritical == 5

Flags == {"probation", "zero_authority", "lead_ban", "remediation_only"}
Risks == {"nominal", "elevated", "critical"}
Outcome == [agent : Agents, rep : Int, auth : Int, recovery : BOOLEAN]

ASSUME SeverityRange == Severities \subseteq 1..6
ASSUME OutcomesAreOutcomes == Outcomes \union HandScores \subseteq Outcome
ASSUME BonusesAreCapped == Bonuses \subseteq [rep : 0..3, auth : 0..4]
ASSUME CommandChoices ==
  CliSanctions \subseteq Flags /\ CliLifts \subseteq (Flags \ {"remediation_only"}) \union {"all"}
ASSUME Scores == InitialScore \in 0..MaxScore /\ Decay \in 0..(MaxScore - 1)
ASSUME CourtBounds == MaxRuns \in Nat /\ MaxCalls \in Nat

VARIABLES
  ledger,      \* economy ledger: scores, flags, when last scored
  records,     \* court records: violations and appeals
  registry,    \* agent registry: incidents and risk
  phase,       \* what each process is doing
  held,        \* the ledger in its memory
  loaded,      \* history: that ledger as it was loaded
  known,       \* the court records in its memory
  todo,        \* the violations its review still has to file
  pending,     \* the outcomes its scoring still has to apply
  run,         \* the last deliver run: its number (0: none), does it look scored
  calls        \* how many handlers, commands and scorings were begun

scoring == <<pending, run>>
memory == <<phase, held, loaded, known, todo>>
vars == <<ledger, records, registry, memory, scoring, calls>>

Entry == [rep : 0..MaxScore, auth : 0..MaxScore, flags : SUBSET Flags,
          scored : {"never", "earlier", "this_epoch"}]
Ledger == [Agents -> Entry]
Statuses == {"open", "sanctioned", "appealed", "resolved", "dismissed"}
Violation == [agent : Agents, severity : 1..6, sanction : Flags \union {None}, status : Statuses]
Appeal == [violation : Violations, status : {"pending", "upheld", "overturned", "dismissed"}]
Records == [violations : [Violations -> Violation \union {None}],
            appeals : [Appeals -> Appeal \union {None}]]
Call == [agent : Agents, severity : 1..6]
Phases == {"idle", "writing", "scoring", "advanced", "saved", "checked", "synced"}

ASSUME NoneIsNoRecord == None \notin Flags \union Violation \union Appeal

TypeOK ==
  /\ ledger \in Ledger /\ records \in Records
  /\ registry \in [Agents -> [incidents : Nat, risk : Risks]]
  /\ phase \in [Processes -> Phases]
  /\ held \in [Processes -> Ledger] /\ loaded \in [Processes -> Ledger]
  /\ known \in [Processes -> Records]
  /\ todo \in [Processes -> SUBSET Call]
  /\ pending \in [Processes -> SUBSET Outcomes]
  /\ run \in [number : 0..MaxRuns, marked : BOOLEAN]
  /\ calls \in 0..MaxCalls

NewLedger ==
  [a \in Agents |-> [rep |-> InitialScore, auth |-> InitialScore, flags |-> {}, scored |-> "never"]]
NoRecords == [violations |-> [v \in Violations |-> None], appeals |-> [q \in Appeals |-> None]]

Init ==
  /\ ledger = NewLedger /\ records = NoRecords
  /\ registry = [a \in Agents |-> [incidents |-> 0, risk |-> "nominal"]]
  /\ phase = [p \in Processes |-> "idle"]
  /\ held = [p \in Processes |-> NewLedger] /\ loaded = held
  /\ known = [p \in Processes |-> NoRecords]
  /\ todo = [p \in Processes |-> {}] /\ pending = todo
  /\ run = [number |-> 0, marked |-> FALSE]
  /\ calls = 0

-----------------------------------------------------------------------------
(***************************************************************************)
(* Loads and saves.  A process that has saved a file may be followed by    *)
(* one that loads it at once: the copy it saved stands for both.           *)
(***************************************************************************)
Free(p) == phase[p] = "idle" /\ todo[p] = {}
Begin(p) == Free(p) /\ calls < MaxCalls /\ calls' = calls + 1

LoadLedger(p) ==
  /\ phase[p] \in {"idle", "saved", "checked", "synced"}
  /\ held[p] # ledger
  /\ held' = [held EXCEPT ![p] = ledger]
  /\ loaded' = [loaded EXCEPT ![p] = ledger]
  /\ UNCHANGED <<ledger, records, registry, phase, known, todo, scoring, calls>>

LoadRecords(p) ==
  /\ phase[p] = "idle"
  /\ known[p] # records
  /\ known' = [known EXCEPT ![p] = records]
  /\ UNCHANGED <<ledger, records, registry, phase, held, loaded, todo, scoring, calls>>

SaveLedger(p, l) ==
  /\ ledger' = l
  /\ held' = [held EXCEPT ![p] = l]
  /\ loaded' = [loaded EXCEPT ![p] = l]

SaveRecords(p, r) ==
  /\ records' = r
  /\ known' = [known EXCEPT ![p] = r]

(* A revenue, treasury, accounting or support command changes the money    *)
(* and saves the agents back as it found them.                             *)
SaveMoney(p) ==
  /\ Begin(p)
  /\ SaveLedger(p, held[p])
  /\ UNCHANGED <<records, registry, phase, known, todo, scoring>>

(* A process may stop between any two files, with what it holds in memory. *)
Stop(p) ==
  /\ ~Free(p)
  /\ phase' = [phase EXCEPT ![p] = "idle"]
  /\ held' = [held EXCEPT ![p] = loaded[p]]
  /\ known' = [known EXCEPT ![p] = records]
  /\ todo' = [todo EXCEPT ![p] = {}]
  /\ pending' = [pending EXCEPT ![p] = {}]
  /\ UNCHANGED <<ledger, records, registry, loaded, run, calls>>

-----------------------------------------------------------------------------
(***************************************************************************)
(* Sanctions, as they change one entry of the ledger.                      *)
(***************************************************************************)

ClampAtZero(x) == IF x < 0 THEN 0 ELSE x

(* Clamped to the score range. *)
Clamp(x) == IF x < 0 THEN 0 ELSE IF x > MaxScore THEN MaxScore ELSE x

Imposed(s) ==
  IF s = "remediation_only" THEN {"zero_authority", "probation", "remediation_only"} ELSE {s}

Sanctioned(e, s) ==
  [e EXCEPT !.flags = @ \union Imposed(s),
            !.auth = IF "zero_authority" \in Imposed(s) THEN 0 ELSE @,
            !.scored = "this_epoch"]

(* Lifting zero_authority grants a floor, but only to an agent at 0. *)
Lifted(e, s) ==
  [e EXCEPT !.flags = IF s = "all" THEN {} ELSE @ \ {s},
            !.auth = IF s \in {"zero_authority", "all"} /\ @ = 0 THEN Decay + 1 ELSE @]

(* The automatic rules: what they apply, with the level the court takes    *)
(* for a severity, and what they lift.                                     *)
AutoApplied(e) ==
  {r \in {[sanction |-> "probation", level |-> 4], [sanction |-> "zero_authority", level |-> 5],
          [sanction |-> "zero_authority", level |-> 6]} :
     /\ "zero_authority" \notin e.flags
     /\ CASE r.level = 4 -> e.rep <= 20 /\ "probation" \notin e.flags
          [] r.level = 5 -> e.auth = 0
          [] r.level = 6 -> e.rep <= 5}

AutoLifted(e) ==
  {s \in {"probation"} \intersect e.flags : "zero_authority" \notin e.flags /\ e.rep > 30}
    \union {s \in {"zero_authority"} \intersect e.flags : e.auth > 15}

(* Every rule is evaluated on the entry as it was before any is carried    *)
(* out.                                                                    *)
AutoChecked(e) ==
  LET applied == UNION {Imposed(r.sanction) : r \in AutoApplied(e)}
  IN [e EXCEPT !.flags = (@ \union applied) \ AutoLifted(e),
               !.auth = IF "zero_authority" \in applied THEN 0 ELSE @,
               !.scored = IF applied # {} THEN "this_epoch" ELSE @]

-----------------------------------------------------------------------------
(***************************************************************************)
(* Violations.                                                             *)
(***************************************************************************)
SanctionOf(severity) ==
  CASE severity <= 2 -> None [] severity = 3 -> "probation" [] severity = 4 -> "lead_ban"
    [] severity = 5 -> "zero_authority" [] severity = 6 -> "remediation_only"

(* The sanction that the record names is the one that was applied.         *)
Filed(a, severity, applied) ==
  [agent |-> a, severity |-> severity, sanction |-> applied,
   status |-> IF applied = None THEN "open" ELSE "sanctioned"]

(* The registry's count, and the risk it escalates to. *)
WithIncident(r) ==
  LET count == r.incidents + 1
  IN [incidents |-> count,
      risk |-> IF count >= IncidentCritical THEN "critical"
               ELSE IF count >= IncidentElevated THEN "elevated" ELSE r.risk]

(* A failure to write the registry is swallowed, an agent it does not know *)
(* is skipped, and a registry saved by another process may lose it.        *)
RegistryMayTake(a, r) ==
  registry' \in {registry} \union
    (IF a \in Registered THEN {[registry EXCEPT ![a] = r]} ELSE {})

(* The violations a process may file now: those of its review, or any.     *)
Calls(p) == IF todo[p] = {} THEN [agent : Agents, severity : Severities] ELSE todo[p]

Unused(v) == records.violations[v] = None /\ \A p \in Processes : known[p].violations[v] = None

(* The ledger is saved first, unless applying the sanction fails; then the *)
(* registry counts the incident; SaveCase saves the record.                *)
FileViolation(p, v, call, applied) ==
  /\ phase[p] = "idle" /\ Unused(v)
  /\ IF todo[p] = {} THEN Begin(p) ELSE UNCHANGED calls
  /\ IF applied = None THEN UNCHANGED <<ledger, held, loaded>>
     ELSE SaveLedger(p, [held[p] EXCEPT ![call.agent] = Sanctioned(@, applied)])
  /\ RegistryMayTake(call.agent, WithIncident(registry[call.agent]))
  /\ known' = [known EXCEPT ![p].violations[v] = Filed(call.agent, call.severity, applied)]
  /\ phase' = [phase EXCEPT ![p] = "writing"]
  /\ todo' = [todo EXCEPT ![p] = @ \ {call}]
  /\ UNCHANGED <<records, scoring>>

SaveCase(p) ==
  /\ phase[p] = "writing"
  /\ SaveRecords(p, known[p])
  /\ phase' = [phase EXCEPT ![p] = "idle"]
  /\ UNCHANGED <<ledger, registry, held, loaded, todo, scoring, calls>>

ResolveViolation(p, v) ==
  /\ Begin(p) /\ known[p].violations[v] # None
  /\ SaveRecords(p, [known[p] EXCEPT !.violations[v].status = "resolved"])
  /\ UNCHANGED <<ledger, registry, phase, held, loaded, todo, scoring>>

(* Also of a violation that is closed. *)
FileAppeal(p, q, v) ==
  /\ Begin(p) /\ known[p].appeals[q] = None /\ known[p].violations[v] # None
  /\ SaveRecords(p, [known[p] EXCEPT !.appeals[q] = [violation |-> v, status |-> "pending"],
                                     !.violations[v].status = "appealed"])
  /\ UNCHANGED <<ledger, registry, phase, held, loaded, todo, scoring>>

(* An overturned appeal lifts the sanction before the records are saved,   *)
(* and if the lift fails they are saved all the same; a dismissed one      *)
(* leaves the violation appealed.                                          *)
DecideAppeal(p, q, decision, lifts) ==
  /\ Begin(p) /\ known[p].appeals[q] # None /\ known[p].appeals[q].status = "pending"
  /\ LET v == known[p].appeals[q].violation
         vio == known[p].violations[v]
     IN /\ IF decision = "overturned" /\ vio.sanction # None /\ lifts
           THEN SaveLedger(p, [held[p] EXCEPT ![vio.agent] = Lifted(@, vio.sanction)])
           ELSE UNCHANGED <<ledger, held, loaded>>
        /\ known' = [known EXCEPT
             ![p].appeals[q].status = decision,
             ![p].violations[v].status = CASE decision = "overturned" -> "dismissed"
                                           [] decision = "upheld" -> "sanctioned"
                                           [] decision = "dismissed" -> @]
  /\ phase' = [phase EXCEPT ![p] = "writing"]
  /\ UNCHANGED <<records, registry, todo, scoring>>

CaseOpenUnlessAppealed(r, a) ==
  \E v \in Violations :
    /\ r.violations[v] # None /\ r.violations[v].agent = a
    /\ r.violations[v].status \in {"open", "sanctioned"}

CaseOpen(r, a) ==
  \E v \in Violations :
    /\ r.violations[v] # None /\ r.violations[v].agent = a
    /\ r.violations[v].status \in {"open", "sanctioned", "appealed"}

Remediated(e) == IF "zero_authority" \in e.flags THEN Lifted(e, "all") ELSE [e EXCEPT !.flags = {}]

(* The flags that are set are lifted and saved, then the registry is reset. *)
Remediate(p, a) ==
  /\ Begin(p) /\ ~CaseOpen(known[p], a)
  /\ IF held[p][a].flags = {} THEN UNCHANGED <<ledger, held, loaded>>
     ELSE SaveLedger(p, [held[p] EXCEPT ![a] = Remediated(@)])
  /\ RegistryMayTake(a, [incidents |-> 0, risk |-> "nominal"])
  /\ UNCHANGED <<records, phase, known, todo, scoring>>

(* One violation per rule an agent meets, with the rule's level for a      *)
(* severity.  The automatic sanctions that follow change only the ledger   *)
(* in memory, which nothing saves.                                         *)
ReviewCalls(l) ==
  UNION {{[agent |-> a, severity |-> r.level] : r \in AutoApplied(l[a])} : a \in Agents}

AutoReview(p) ==
  /\ Begin(p) \/ (phase[p] = "synced" /\ UNCHANGED calls)
  /\ todo' = [todo EXCEPT ![p] = ReviewCalls(held[p])]
  /\ phase' = [phase EXCEPT ![p] = "idle"]
  /\ UNCHANGED <<ledger, records, registry, held, loaded, known, scoring>>

-----------------------------------------------------------------------------
(***************************************************************************)
(* The commands of the operator.                                           *)
(***************************************************************************)
Command(p, l) ==
  /\ Begin(p)
  /\ SaveLedger(p, l)
  /\ UNCHANGED <<records, registry, phase, known, todo, pending>>

CliApply(p, a, s) == Command(p, [held[p] EXCEPT ![a] = Sanctioned(@, s)]) /\ UNCHANGED run
CliLift(p, a, s) == Command(p, [held[p] EXCEPT ![a] = Lifted(@, s)]) /\ UNCHANGED run
AutoCheck(p) == Command(p, [a \in Agents |-> AutoChecked(held[p][a])]) /\ UNCHANGED run

(* A score entered by hand, with a bonus if the operator asks for one.     *)
HandRep(e, o, b) ==
  IF o.rep <= 0 THEN o.rep ELSE IF "probation" \in e.flags THEN (o.rep + b.rep) \div 2 ELSE o.rep + b.rep
HandAuth(e, o, b) ==
  IF o.auth <= 0 THEN o.auth ELSE IF "zero_authority" \in e.flags THEN 0 ELSE o.auth + b.auth
HandScored(e, o, b) ==
  [e EXCEPT !.rep = Clamp(@ + HandRep(e, o, b)), !.auth = Clamp(@ + HandAuth(e, o, b)),
            !.scored = "this_epoch"]

CliRecord(p, o, b) ==
  Command(p, [held[p] EXCEPT ![o.agent] = HandScored(@, o, b)]) /\ UNCHANGED run

(* The agents nobody scored since the epoch before lose authority.         *)
NextEpoch(l) ==
  [a \in Agents |->
     [l[a] EXCEPT !.auth = IF "zero_authority" \notin l[a].flags /\ l[a].scored = "earlier"
                           THEN Clamp(@ - Decay) ELSE @,
                  !.scored = IF @ = "never" THEN @ ELSE "earlier"]]

(* An epoch_advance transaction marks the deliver run as scored if its     *)
(* timestamp, cut to the second and read as local time, comes after the    *)
(* run's, and if there is a deliver job to compare it with.                *)
EpochAdvanceMissed == UNCHANGED run
EpochAdvanceSeen == run.number > 0 /\ run' = [run EXCEPT !.marked = TRUE]

CliEpoch(p) == Command(p, NextEpoch(held[p])) /\ (EpochAdvanceMissed \/ EpochAdvanceSeen)

-----------------------------------------------------------------------------
(***************************************************************************)
(* The scorer.  It scores the outcomes it detected in memory, writes the   *)
(* epoch_advance transaction, saves the ledger, then runs the automatic    *)
(* sanctions, the registry's sync and the court's review.                  *)
(***************************************************************************)

(* Another deliver run ends.                                               *)
Deliver ==
  /\ run.number < MaxRuns
  /\ run' = [number |-> run.number + 1, marked |-> FALSE]
  /\ UNCHANGED <<ledger, records, registry, memory, pending, calls>>

StartScoring(p, found) ==
  /\ Begin(p) /\ ~run.marked /\ found # {}
  /\ held' = [held EXCEPT ![p] = ledger]
  /\ loaded' = [loaded EXCEPT ![p] = ledger]
  /\ phase' = [phase EXCEPT ![p] = "scoring"]
  /\ pending' = [pending EXCEPT ![p] = found]
  /\ UNCHANGED <<ledger, records, registry, known, todo, run>>

AuthGain(e, o, b) ==
  LET gain == IF o.auth > 0 THEN o.auth + b.auth ELSE o.auth
  IN IF "zero_authority" \in e.flags /\ gain > 0
     THEN IF o.recovery THEN Min({o.auth, RecoveryAuthCap}) ELSE 0
     ELSE gain

RepGain(e, o, b) ==
  IF o.rep <= 0 THEN o.rep ELSE IF "probation" \in e.flags THEN o.rep \div 2 ELSE o.rep + b.rep

WithDelta(e, o, b) ==
  [e EXCEPT !.rep = Clamp(@ + RepGain(e, o, b)), !.auth = Clamp(@ + AuthGain(e, o, b)),
            !.scored = "this_epoch"]

Participates(l, a) == l[a].flags \intersect {"zero_authority", "remediation_only"} = {} \/ a = Main

(* A blocked agent earns from recovery outcomes only.                      *)
Scored(l, o, b) ==
  IF ~Participates(l, o.agent) /\ o.rep > 0 /\ ~o.recovery THEN l
  ELSE [l EXCEPT ![o.agent] = WithDelta(@, o, b)]

ScoreOutcome(p, o, b) ==
  /\ phase[p] = "scoring" /\ o \in pending[p]
  /\ held' = [held EXCEPT ![p] = Scored(@, o, b)]
  /\ pending' = [pending EXCEPT ![p] = @ \ {o}]
  /\ UNCHANGED <<ledger, records, registry, phase, loaded, known, todo, run, calls>>

AppendEpochAdvance(p) ==
  /\ phase[p] = "scoring" /\ pending[p] = {}
  /\ held' = [held EXCEPT ![p] = NextEpoch(@)]
  /\ EpochAdvanceMissed \/ EpochAdvanceSeen
  /\ phase' = [phase EXCEPT ![p] = "advanced"]
  /\ UNCHANGED <<ledger, records, registry, loaded, known, todo, pending, calls>>

SaveScores(p) ==
  /\ phase[p] = "advanced"
  /\ SaveLedger(p, held[p])
  /\ phase' = [phase EXCEPT ![p] = "saved"]
  /\ UNCHANGED <<records, registry, known, todo, pending, run, calls>>

(* A failure of this check, or of the sync, is logged.                     *)
ScorerAutoCheck(p) ==
  /\ phase[p] = "saved"
  /\ \/ SaveLedger(p, [a \in Agents |-> AutoChecked(held[p][a])])
     \/ UNCHANGED <<ledger, held, loaded>>
  /\ phase' = [phase EXCEPT ![p] = "checked"]
  /\ UNCHANGED <<records, registry, known, todo, scoring, calls>>

RiskOf(e) ==
  IF e.flags \intersect {"zero_authority", "remediation_only"} # {} THEN "critical"
  ELSE IF "probation" \in e.flags THEN "elevated" ELSE "nominal"

SyncFromEconomy(p) ==
  /\ phase[p] = "checked"
  /\ \/ registry' = [a \in Agents |-> IF a \in Registered
                                     THEN [registry[a] EXCEPT !.risk = RiskOf(held[p][a])]
                                     ELSE registry[a]]
     \/ UNCHANGED registry
  /\ phase' = [phase EXCEPT ![p] = "synced"]
  /\ UNCHANGED <<ledger, records, held, loaded, known, todo, scoring, calls>>

-----------------------------------------------------------------------------
CourtStep(p) ==
  \/ LoadRecords(p) \/ SaveCase(p) \/ AutoReview(p)
  \/ \E v \in Violations :
       \/ \E call \in Calls(p) : \E applied \in {SanctionOf(call.severity), None} :
            FileViolation(p, v, call, applied)
       \/ ResolveViolation(p, v)
       \/ \E q \in Appeals : FileAppeal(p, q, v)
  \/ \E q \in Appeals, d \in {"upheld", "overturned", "dismissed"}, lifts \in BOOLEAN :
       DecideAppeal(p, q, d, lifts)
  \/ \E a \in Agents : Remediate(p, a)

CommandStep(p) ==
  \/ LoadLedger(p) \/ SaveMoney(p) \/ Stop(p)
  \/ \E a \in Agents : \/ \E s \in CliSanctions : CliApply(p, a, s)
                       \/ \E s \in CliLifts : CliLift(p, a, s)
  \/ AutoCheck(p) \/ CliEpoch(p)
  \/ \E o \in HandScores, b \in Bonuses : CliRecord(p, o, b)

ScorerStep(p) ==
  \/ \E found \in SUBSET Outcomes : StartScoring(p, found)
  \/ \E o \in Outcomes, b \in Bonuses : ScoreOutcome(p, o, b)
  \/ AppendEpochAdvance(p) \/ SaveScores(p) \/ ScorerAutoCheck(p) \/ SyncFromEconomy(p)

Next == Deliver \/ \E p \in Processes : CourtStep(p) \/ CommandStep(p) \/ ScorerStep(p)

Spec == Init /\ [][Next]_vars

-----------------------------------------------------------------------------
AllClosed(r, a) ==
  \A v \in Violations :
    r.violations[v] # None /\ r.violations[v].agent = a =>
      r.violations[v].status \in {"resolved", "dismissed"}

LiftedByCommand == IF "all" \in CliLifts THEN Flags ELSE CliLifts

(* What a process has in its memory that may end sanction s of agent a: a  *)
(* ledger loaded before the sanction, a pending appeal against a violation *)
(* that carried it, records in which each of the agent's violations is     *)
(* closed (all its sanctions end together then), or a score past the rule  *)
(* that lifts it.                                                          *)
MayEnd(p, a, s) ==
  \/ s \notin loaded[p][a].flags
  \/ \E q \in Appeals :
       LET appeal == known[p].appeals[q]
       IN /\ appeal # None /\ appeal.status = "pending"
          /\ known[p].violations[appeal.violation].agent = a
          /\ known[p].violations[appeal.violation].sanction = s
  \/ AllClosed(known[p], a) /\ ledger'[a].flags = {}
  \/ s = "probation" /\ held[p][a].rep > 30
  \/ s = "zero_authority" /\ held[p][a].auth > 15

(* A sanction the operator does not lift by command ends by a decision     *)
(* about the agent, a recovered score, or a save of the ledger by a        *)
(* process that had loaded it before the sanction.  Scoring, a new epoch,  *)
(* reviewing, filing and deciding other cases, and the commands that move  *)
(* money never clear one they have seen, in whatever order the processes   *)
(* load and save and wherever they stop.                                   *)
SanctionsEndForAReason ==
  [][\A a \in Agents, s \in Flags \ LiftedByCommand :
       s \in ledger[a].flags /\ s \notin ledger'[a].flags =>
         \E p \in Processes : held' = [held EXCEPT ![p] = ledger'] /\ MayEnd(p, a, s)]_vars

(* Lifting zero_authority leaves more authority than one epoch of          *)
(* inactivity takes, so the rule for authority 0 does not apply again.     *)
LiftSurvivesOneEpoch ==
  [][\A a \in Agents :
       "zero_authority" \in ledger[a].flags /\ "zero_authority" \notin ledger'[a].flags =>
         ledger'[a].auth > Decay]_vars

=============================================================================
