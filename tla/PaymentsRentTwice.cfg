SPECIFICATION Spec
CONSTANTS
  p1 = p1
  p2 = p2
  p3 = p3
  b1 = b1
  h1 = h1
  Payments = {p1, p2}
  Bookings = {b1}
  Entries = 2
  Handlers = {h1, h2}
  Method <- AllSsl
  Kind <- AllRent
  BookingOf <- MCBookingOf
  Amount <- OneAmount
  Sums = {1, 2}
  ReExecute = {"completed"}
  MaxFaults = 0
  None = None
PROPERTY InstallmentLinkedOnce
CHECK_DEADLOCK FALSE
