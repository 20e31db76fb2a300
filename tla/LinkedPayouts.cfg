\* Two proposals that may be linked to one commitment and share a transaction
\* hash, one warrant, cases about the commitment, and a crash.
SPECIFICATION Spec
CONSTANTS
  InitialCash = 4
  InitialFloor = 1
  OwnerAmounts = {}
  FloorChoices = {}
  MaxMoney = 4
  MaxCrashes = 1
  Proposals = {p1, p2}
  WarrantIds = {w1}
  Commitments = {c1}
  TxHashes = {h1}
  None = None
  Contributors = {ann}
  Proposers = {ann}
  Reviewers = {bob}
  Amount <- UnitAmount
  WindowHours = 1
  HoursChoices = {}
  CaseWarrants = {w1, None}
  ReviewChoices = {}
  SwitchChoices = {FALSE}
  MaxTime = 0
  MaxTx = 3
SYMMETRY Symmetry
INVARIANTS
  WarrantPaysOnce
  SettlementRefsAreBacked
  QueueIsHonest
