SPECIFICATION SmallSpec
CONSTANTS
  p1 = p1
  p2 = p2
  p3 = p3
  b1 = b1
  h1 = h1
  Payments = {p1, p3}
  Bookings = {b1}
  Entries = 1
  Handlers = {h1, h2}
  Method <- MixedMethod
  Kind <- MixedKind
  BookingOf <- MCBookingOf
  Amount <- OneAmount
  Sums = {1, 2}
  ReExecute = {"completed", "refused"}
  MaxFaults = 2
  None = None
INVARIANTS TypeOK SuccessIsPaid AuditChain DepositFollowsPayments RefundOncePerFault
PROPERTIES SettledIsFinal RequestsAnswered
CHECK_DEADLOCK FALSE
