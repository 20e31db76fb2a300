\* One proposal while the kill switch is thrown.
SPECIFICATION Spec
CONSTANTS
  InitialCash = 4
  InitialFloor = 1
  OwnerAmounts = {}
  FloorChoices = {}
  MaxMoney = 4
  MaxCrashes = 0
  Proposals = {p1}
  WarrantIds = {w1}
  Commitments = {}
  TxHashes = {}
  None = None
  Contributors = {ann}
  Proposers = {ann}
  Reviewers = {bob}
  Amount <- UnitAmount
  WindowHours = 1
  HoursChoices = {}
  CaseWarrants = {}
  ReviewChoices = {"approve"}
  SwitchChoices = {TRUE, FALSE}
  MaxTime = 0
  MaxTx = 1
PROPERTIES
  KillSwitchFreezesTreasury
