\* Two subscriptions of one user, three payments, one cancel request, the task.
SPECIFICATION SmallSpec
CONSTANTS
  Subs = {1, 2}
  Payments = {1, 2, 3}
  Cancels = {c1}
  u = u
  UserOf <- MCUserOf
  Period = 2
  MaxTime = 3
  None = None
INVARIANTS TypeOK NoUnpaidTime DetachedByAnother
PROPERTIES PrepaidTime OverdueExpires
CHECK_DEADLOCK FALSE
