\* One request that cites the commitment, every court decision, every kind
\* of case on both hosts, crashes, timeouts; no message outlives its caller.
SPECIFICATION Spec
CONSTANTS
  Envelopes = {e1}
  SenderWarrants = {w1}
  None = None
  LinkChoices = {TRUE}
  ReviewChoices = {"approve", "stay", "revoke"}
  CaseKinds = {"commitment", "peer"}
  MaxStale = 0
INVARIANTS
  TypeOK
  JobNeverAheadOfWarrant
  StoresAgree
PROPERTIES
  ImplementsContract
