\* One peer, one case: a risky case that leaves its peer trusted.
SPECIFICATION Spec
CONSTANTS
  Peers = {p1}
  CaseIds = {c1}
  None = None
PROPERTIES
  RiskyCaseSuspends
