\* One proposal under two warrants, retried after up to two crashes until
\* what is left is too little above the reserve.
SPECIFICATION Spec
CONSTANTS
  InitialCash = 6
  InitialFloor = 1
  OwnerAmounts = {}
  FloorChoices = {}
  MaxMoney = 6
  MaxCrashes = 2
  Proposals = {p1}
  WarrantIds = {w1, w2}
  Commitments = {}
  TxHashes = {}
  None = None
  Contributors = {ann, bob}
  Proposers = {ann, bob}
  Reviewers = {bob}
  Amount <- DoubleAmount
  WindowHours = 1
  HoursChoices = {0}
  CaseWarrants = {}
  ReviewChoices = {"approve"}
  SwitchChoices = {FALSE}
  MaxTime = 1
  MaxTx = 3
SYMMETRY Symmetry
INVARIANTS
  TypeOK
  ExecutedIsPaid
  PaidAgainOnlyAfterCrash
PROPERTIES
  ImplementsContract
