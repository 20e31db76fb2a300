\* One peer, one case: the shortest way from revoked to trusted.
SPECIFICATION Spec
CONSTANTS
  Peers = {p1}
  CaseIds = {c1}
  None = None
INVARIANTS
  RevokedStaysOut
