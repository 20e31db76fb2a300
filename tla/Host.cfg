\* Trust: two peers and two cases about them.  Handoffs: an institution that
\* one of two hosts may serve, a warrant, two envelopes.  Budget: an agent,
\* two reservations, a delegation, leases that lapse.  Plans: two plans and a
\* failed save.  Commitments: one, four messages.  Access: two users, two
\* sessions, one restart.  A crash between any two saves of each.
SPECIFICATION HostSpec
CONSTANTS
  None = None
  Absent = Absent
  Missing = Missing
  NoRecord = NoRecord
  Peers = {p1, p2}
  CaseIds = {c1, c2}
  Orgs = {o1}
  Hosts = {1, 2}
  PeerChoices <- SomePeers
  Statuses = {"admitted", "suspended"}
  Warrants = {w1}
  LocalRecords = {l1}
  MaxEnvelopes = 2
  MaxPromotions = 2
  Agents = {ann}
  Delegations = {d1}
  Approvals = {q1}
  Actions = {"lead"}
  FlagChoices = {{}, {"zero_authority", "probation", "remediation_only"}}
  MaxTime = 1
  Reservations = {r1, r2}
  Estimates = {1, 2}
  Actuals = {3}
  PerRun = 1
  RunwayChoices = {1, 2}
  Lease = 0
  MaxCrashes = 1
  Plans = {a, b}
  MaxFaults = 1
  Commitments = {cm}
  Bindings = {sp, NoWarrant}
  SourcePacts = {sp}
  SourceRuns = {sr}
  TargetPacts = {tp}
  NoCopy = NoCopy
  NoWarrant = NoWarrant
  Reviews <- PartyReviews
  CourtDecisions = {"approve"}
  MaxMessages = 4
  Users = {olga, max}
  CredentialUser = olga
  Sessions = {s1, s2}
  NoRequest = NoRequest
  GrantedRoles = {"viewer", "admin"}
  MaxRestarts = 1
  MaxAge = 1
CHECK_DEADLOCK FALSE
INVARIANTS
  HostTypeOK
  NoOrphanSuspension
  EvidenceIsReal
  EveryDeliveryIsAuthorised
  CountersErrOneWay
  ApprovalWasEarned
  PeerMarksAreReal
  OneNoticePerWarrant
PROPERTIES
  ReinstatedOnlyWhenClear
  ReservedWithinRunway
  StoppedAgentsReserveNothing
  BreachHoldsExecution
  RevokedSessionsStayOut
