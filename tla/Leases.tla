-------------------------------- MODULE Leases --------------------------------
(***************************************************************************)
(* The payment plan of one approved booking (payments/services/schedule.py) *)
(* as a function of its dates: generate_payment_schedule adds one           *)
(* installment after the other, each a calendar month after the last.       *)
(* When it is called, and how often, is in Bookings.                        *)
(***************************************************************************)
EXTENDS Integers, Sequences

CONSTANTS
  CheckIns,    \* Booking.check_in, as clients choose it
  CheckOuts,   \* Booking.check_out; NoCheckOut for SQL NULL
  NoCheckOut,
  LeaseMonths  \* settings.DEFAULT_LEASE_SCHEDULE_MONTHS

(* calendar.monthrange: how long a month is.                                *)
IsLeap(y) == (y % 4 = 0 /\ y % 100 # 0) \/ y % 400 = 0
DaysIn(month) ==
  CASE month % 12 = 1 -> IF IsLeap(month \div 12) THEN 29 ELSE 28
    [] month % 12 \in {3, 5, 8, 10} -> 30
    [] OTHER -> 31

(* A date is a month counted from year 0 and a day of it.                   *)
Dates == {d \in [month: Nat, day: 1..31] : d.day <= DaysIn(d.month)}

ASSUME LeasesAssumption ==
  /\ CheckIns \subseteq Dates
  /\ CheckOuts \subseteq Dates \cup {NoCheckOut}
  /\ NoCheckOut \notin Dates
  /\ LeaseMonths \in Nat \ {0}

VARIABLES
  lease,        \* check_in and check_out of the booking
  due,          \* due_date of the loop
  installments, \* due dates of the rows to be created, in order
  planned       \* the loop has ended

leaseVars == <<lease, due, installments, planned>>

-----------------------------------------------------------------------------
(* A day of a month, or the month's last if it has no such day.             *)
Clamped(month, day) ==
  [month |-> month, day |-> IF day <= DaysIn(month) THEN day ELSE DaysIn(month)]

(* Dates are compared by month first.                                       *)
Before(a, b) == a.month < b.month \/ (a.month = b.month /\ a.day < b.day)

(* _add_one_month, of the date it is given, however that came about.        *)
Bug_SkipsAMonth(date) == \* month + 1 without the - 1 when the year turns
  IF (date.month + 1) % 12 = 0 THEN Clamped(date.month + 2, date.day)
                               ELSE Clamped(date.month + 1, date.day)
AddOneMonth(date) == Clamped(date.month + 1, date.day)

(* _lease_end.                                                              *)
LeaseEnd ==
  IF lease.out # NoCheckOut THEN lease.out
  ELSE Clamped(lease.in.month + LeaseMonths, lease.in.day)

LeasesInit ==
  /\ lease \in [in: CheckIns, out: CheckOuts]
  /\ due = lease.in
  /\ installments = <<>>
  /\ planned = FALSE

(* The body of the loop.                                                    *)
Bug_ThroughTheEnd == \* due_date <= lease_end
  /\ ~planned /\ ~Before(LeaseEnd, due)
  /\ installments' = Append(installments, due)
  /\ due' = AddOneMonth(due)
  /\ UNCHANGED <<lease, planned>>
AddInstallment ==
  /\ ~planned /\ Before(due, LeaseEnd)
  /\ installments' = Append(installments, due)
  /\ due' = AddOneMonth(due)
  /\ UNCHANGED <<lease, planned>>

(* bulk_create; a lease that ends before it starts gets no rows.            *)
PlanDone ==
  /\ ~planned /\ ~Before(due, LeaseEnd)
  /\ planned' = TRUE
  /\ UNCHANGED <<lease, due, installments>>

LeasesNext == AddInstallment \/ PlanDone
LeasesSpec == LeasesInit /\ [][LeasesNext]_leaseVars

-----------------------------------------------------------------------------
(* Every variable holds a value of its kind.                                *)
LeasesTypeOK ==
  /\ lease \in [in: Dates, out: Dates \cup {NoCheckOut}]
  /\ due \in Dates
  /\ installments \in Seq(Dates)
  /\ planned \in BOOLEAN

(* "Same day next month", counted from the day the lease began.             *)
Anniversary(n) == Clamped(lease.in.month + n, lease.in.day)

(* The drifting due dates never leave a month of the lease without its      *)
(* installment; and a lease from a day every month has is billed no further *)
(* than its end.                                                            *)
BilledToTheEnd ==
  planned =>
    /\ ~Before(Anniversary(Len(installments)), LeaseEnd)
    /\ lease.in.day <= 28 /\ installments # <<>> =>
         Before(Anniversary(Len(installments) - 1), LeaseEnd)

(* Each installment falls due in the month after the one before it.         *)
OneEachMonth ==
  \A i \in DOMAIN installments : installments[i].month = lease.in.month + i - 1

(* Not true: DEFAULT_LEASE_SCHEDULE_MONTHS is the "number of monthly        *)
(* installments to generate" for a booking without a check-out.             *)
OpenEndedPlan ==
  planned /\ lease.out = NoCheckOut => Len(installments) = LeaseMonths

(* It generates one installment too many at most, and none too many for a   *)
(* lease that begins on a day every month has.                              *)
OneMonthOver ==
  planned /\ lease.out = NoCheckOut =>
    /\ Len(installments) \in {LeaseMonths, LeaseMonths + 1}
    /\ lease.in.day <= 28 => Len(installments) = LeaseMonths
=============================================================================
