\* Two requests under one warrant, each with or without the commitment; one
\* abandoned message may be served after its caller gave it up.
SPECIFICATION Spec
CONSTANTS
  Envelopes = {e1, e2}
  SenderWarrants = {w1}
  None = None
  LinkChoices = {TRUE, FALSE}
  ReviewChoices = {"approve"}
  CaseKinds = {}
  MaxStale = 1
SYMMETRY EnvelopeSymmetry
INVARIANTS
  SettledMeansExecuted
  SettlementSpendsWarrant
  ReportsAreTrue
  OneStandaloneRequestPerWarrant
