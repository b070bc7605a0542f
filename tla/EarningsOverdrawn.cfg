SPECIFICATION EarningsSpec
CONSTANTS
  Bookings = {b1}
  Orders = {o1}
  Policies = {q1}
  Gross <- MCGross
  Rates = {100, 200}
  Ruled = {"broker"}
  DefaultRate <- MCDefaultRate
  ProviderRate = 1000
  Amounts = {10}
  Payouts = {p1, p2}
  Workers = {w1, w2}
  NoRow = NoRow
INVARIANT NeverOverdrawn
CHECK_DEADLOCK FALSE
