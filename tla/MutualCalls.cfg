\* Liveness: the two hosts call each other, and every call returns.
SPECIFICATION FairSpec
CONSTANTS
  Envelopes = {e1}
  SenderWarrants = {w1}
  None = None
  LinkChoices = {TRUE}
  ReviewChoices = {"approve"}
  CaseKinds = {"commitment"}
  MaxStale = 1
PROPERTIES
  CallsReturn
