SPECIFICATION SmallOfficesSpec
CONSTANTS
  Runs = {r1}
  MaxTurns = 2
  MaxCalls = 2
  MaxFailures = 2
  Window = 40
  MaxCrashes = 1
  CheckIns <- MCCheckIns
  CheckOuts <- MCCheckOuts
  NoCheckOut = NoCheckOut
  LeaseMonths = 12
  Bookings = {b1}
  Orders = {o1}
  Policies = {q1}
  Gross <- MCGross
  Rates = {100, 200}
  Ruled = {"broker"}
  DefaultRate <- MCDefaultRate
  ProviderRate = 1000
  Amounts = {10}
  Payouts = {p1}
  Workers = {w1, w2}
  NoRow = NoRow
  Fields = {"title"}
  Texts = {t1, t2}
  Features = {feature}
  Types = {"TITLE_UPDATE", "PHOTO_RECOMMENDATION", "LISTING_RENEWAL"}
  Weeks = {k1}
  WeeklyRuns = {a1}
  Consents = {c1}
  Editors = {e1}
  NoText = NoText
  Sockets = {s1, s2}
  Viewers = {v1}
  LeaseTTL = 3
  Purchases = {x1, x2}
  Editing = {y1}
  TierDays = 2
  Evaluations = {n1, n2}
  Handlers = {h1}
  AlertIds = {i1, i2}
  ConsecutiveChecks = 2
  Cooldown = 1
  MaxEdits = 1
  Evaluated = {u1}
  Executions = {j1, j2}
  Cancels = {l1}
  Disputes = {d1}
  Filings = {f1}
  Exhibits = {g1}
  Officers = {m1, m2}
  Targets = {"escalated"}
  Nobody = Nobody
INVARIANTS OfficesTypeOK BilledToTheEnd LedgerMatches AuditTellsStatus
PROPERTIES NothingRunsForever LaterEditsKept NothingOverstays BreachAlerted
CHECK_DEADLOCK FALSE
