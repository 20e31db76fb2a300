\* One process, one agent, one severe violation, one appeal and one deliver run.
SPECIFICATION Spec
CONSTANTS
  None = None
  Processes = {x1}
  Agents = {ann}
  Main = None
  Registered = {}
  Violations = {v1}
  Appeals = {q1}
  Severities = {5}
  Outcomes <- MCOutcomes
  HandScores <- MCHandScores
  Bonuses <- NoBonus
  CliSanctions = {}
  CliLifts = {}
  InitialScore = 100
  Decay = 5
  MaxRuns = 1
  MaxCalls = 6
PROPERTIES
  LiftSurvivesOneEpoch
CHECK_DEADLOCK FALSE
