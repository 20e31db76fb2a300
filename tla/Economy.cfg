\* Court: two processes, one agent, one violation of any weight, one appeal,
\* one deliver run, four calls.
\* Sales: two payments that share a reference, one of them too small for the
\* plan, one order, two subscriptions of one subscriber, one crash.
\* Transfers: one operator, a custodied and a hot wallet.
SPECIFICATION EconomySpec
CONSTANTS
  None = None
  Processes = {x1, x2}
  Agents = {ann}
  Main = None
  Registered = {ann}
  Violations = {v1}
  Appeals = {q1}
  Severities = {2, 6}
  Outcomes <- MCOutcomes
  HandScores <- MCHandScores
  Bonuses <- NoBonus
  CliSanctions = {"probation"}
  CliLifts = {"lead_ban"}
  InitialScore = 100
  Decay = 5
  MaxRuns = 1
  MaxCalls = 4
  Absent = Absent
  p1 = p1
  p2 = p2
  o1 = o1
  Payments <- MCPayments
  Orders <- MCOrders
  RefOf <- MCRefOf
  Amount <- MCAmount
  Price = 2
  Subscribers = {sue}
  Subs = {s1, s2}
  MaxRows = 2
  MaxCredits = 2
  MaxFailures = 1
  Nil = Nil
  Operators = {olga}
  Custodied = {k1}
  Hot = {h1}
  Proposals = {pay}
  Recipients = {rec}
  Levels = {1, 3}
  MaxNonce = 1
  MaxSigned = 2
SYMMETRY EconomySymmetry
INVARIANTS
  EconomyTypeOK
  MoneyIsEarned
  DeliveryIsPaid
  CustodyIsReal
  PinnedPaysOnce
PROPERTIES
  SanctionsEndForAReason
CHECK_DEADLOCK FALSE
