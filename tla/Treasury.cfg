\* One proposal paid from the ledger the owner also moves money through, with
\* both positions of the kill switch.
SPECIFICATION Spec
CONSTANTS
  InitialCash = 3
  InitialFloor = 1
  OwnerAmounts = {1}
  FloorChoices = {1, 2}
  MaxMoney = 3
  MaxCrashes = 1
  Proposals = {p1}
  WarrantIds = {w1}
  Commitments = {}
  TxHashes = {}
  None = None
  Contributors = {ann}
  Proposers = {ann}
  Reviewers = {bob}
  Amount <- DoubleAmount
  WindowHours = 1
  HoursChoices = {}
  CaseWarrants = {}
  ReviewChoices = {}
  SwitchChoices = {TRUE, FALSE}
  MaxTime = 0
  MaxTx = 2
INVARIANTS
  OwnerPaidOnlyWhatIsDue
  JournalReconciles
PROPERTIES
  FloorKept
