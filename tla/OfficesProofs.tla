---------------------------- MODULE OfficesProofs ----------------------------
(***************************************************************************)
(* Proofs about the parts of Offices: payment plans, disputes, the listing  *)
(* autopilot, presence, promotions, alerts and evaluation runs one by one,  *)
(* for any number of requests, rows and dates; and at the end about all of  *)
(* them at work beside one another, with what AgentRunsProofs and           *)
(* EarningsProofs prove of the other two.                                   *)
(***************************************************************************)
EXTENDS Offices, AgentRunsProofs, EarningsProofs, TLAPS

(***************************************************************************)
(* Leases.  The due date drifts to earlier days (31 January, 28 February,   *)
(* 28 March) but never to a later one, so the loop cannot run past a month  *)
(* that is still owed; from a day every month has it does not drift at all. *)
(***************************************************************************)
LEMMA MonthLengths ==
  ASSUME NEW month \in Nat
  PROVE  DaysIn(month) \in 28..31
<1>1. month % 12 \in 0..11
  OBVIOUS
<1>2. CASE month % 12 = 1
  BY <1>2 DEF DaysIn
<1>3. CASE month % 12 \in {3, 5, 8, 10}
  BY <1>3 DEF DaysIn
<1>4. CASE month % 12 \notin {1, 3, 5, 8, 10}
  BY <1>4 DEF DaysIn
<1> QED BY <1>2, <1>3, <1>4

(* Clamping gives a date, of the same day if the month has it.              *)
LEMMA ClampedIsDate ==
  ASSUME NEW month \in Nat, NEW day \in 1..31
  PROVE  /\ Clamped(month, day) \in Dates
         /\ Clamped(month, day).month = month
         /\ Clamped(month, day).day <= day
         /\ day <= 28 => day <= Clamped(month, day).day
BY MonthLengths DEF Clamped, Dates

LEMMA ClampedLittle ==
  ASSUME NEW month \in Nat, NEW day \in 1..31, NEW d \in Int, d <= day, d <= DaysIn(month)
  PROVE  d <= Clamped(month, day).day
BY MonthLengths DEF Clamped

LEMMA DateParts ==
  ASSUME NEW d \in Dates
  PROVE  d.month \in Nat /\ d.day \in 1..31 /\ d.day <= DaysIn(d.month)
BY DEF Dates

(* A lease ends on a date.                                                  *)
LEMMA EndIsDate ==
  ASSUME LeasesTypeOK
  PROVE  LeaseEnd \in Dates
<1>1. lease.in \in Dates /\ lease.out \in Dates \cup {NoCheckOut}
  BY DEF LeasesTypeOK
<1>2. lease.in.month + LeaseMonths \in Nat /\ lease.in.day \in 1..31
  BY <1>1, DateParts, LeasesAssumption
<1> QED BY <1>1, <1>2, ClampedIsDate DEF LeaseEnd

-----------------------------------------------------------------------------
(* The loop has billed one installment a month, its due date is no later in *)
(* the month than the check-in, and what it billed last was due before the  *)
(* end of the lease.                                                        *)
Billed == Len(installments)

Drift ==
  /\ due.month = lease.in.month + Billed
  /\ due.day <= lease.in.day
  /\ lease.in.day <= 28 => lease.in.day <= due.day

BilledBeforeEnd ==
  lease.in.day <= 28 /\ installments # <<>> =>
    Before(Anniversary(Billed - 1), LeaseEnd)

PlannedToTheEnd == planned => ~Before(due, LeaseEnd)

LeasesInv ==
  LeasesTypeOK /\ Drift /\ BilledBeforeEnd /\ PlannedToTheEnd /\ OneEachMonth

(* The due date is never after the anniversary it stands for, and is the    *)
(* anniversary where days do not drift.                                     *)
LEMMA DueByAnniversary ==
  ASSUME LeasesTypeOK, Drift
  PROVE  /\ ~Before(due, LeaseEnd) => ~Before(Anniversary(Billed), LeaseEnd)
         /\ lease.in.day <= 28 /\ Before(due, LeaseEnd) => Before(Anniversary(Billed), LeaseEnd)
<1>1. /\ lease.in.month \in Nat /\ lease.in.day \in 1..31
      /\ due.month \in Nat /\ due.day \in 1..31 /\ due.day <= DaysIn(due.month)
  BY DateParts DEF LeasesTypeOK
<1>2. due.month = lease.in.month + Billed
  BY DEF Drift
<1> DEFINE a == Anniversary(Billed)
           e == LeaseEnd
<1>3. /\ a \in Dates /\ a.month = due.month /\ due.day <= a.day
      /\ lease.in.day <= 28 => a.day <= due.day
  <2>1. a = Clamped(due.month, lease.in.day)
    BY <1>2 DEF Anniversary
  <2>2. a \in Dates /\ a.month = due.month /\ a.day <= lease.in.day
    BY <1>1, <2>1, ClampedIsDate
  <2>3. due.day <= lease.in.day /\ (lease.in.day <= 28 => lease.in.day <= due.day)
    BY DEF Drift
  <2>4. due.day \in Int /\ lease.in.day \in Int /\ a.day \in Int
    BY <1>1, <2>2, DateParts
  <2>5. due.day <= Clamped(due.month, lease.in.day).day
    BY <1>1, <2>3, <2>4, ClampedLittle
  <2>6. lease.in.day <= 28 => a.day <= due.day
    BY ONLY <2>2, <2>3, <2>4
  <2> QED BY <2>1, <2>2, <2>5, <2>6
<1>4. e.month \in Nat /\ e.day \in 1..31
  BY EndIsDate, DateParts
<1>5. a.month \in Nat /\ a.day \in 1..31
  BY <1>3, DateParts
<1> HIDE DEF a, e
<1>6. ~Before(due, e) => ~Before(a, e)
  BY <1>1, <1>3, <1>4, <1>5 DEF Before
<1>7. lease.in.day <= 28 /\ Before(due, e) => Before(a, e)
  BY <1>1, <1>3, <1>4, <1>5 DEF Before
<1> QED BY <1>3, <1>6, <1>7 DEF a, e

LEMMA InitLeases ==
  LeasesInit => LeasesInv
<1> SUFFICES ASSUME LeasesInit PROVE LeasesInv
  OBVIOUS
<1>0. lease \in [in: Dates, out: Dates \cup {NoCheckOut}]
  BY LeasesAssumption DEF LeasesInit
<1>1. lease.in \in Dates /\ due = lease.in /\ installments = <<>> /\ planned = FALSE
  BY <1>0 DEF LeasesInit
<1>2. LeasesTypeOK
  <2>1. <<>> \in Seq(Dates)
    OBVIOUS
  <2> QED BY <1>0, <1>1, <2>1 DEF LeasesTypeOK
<1>3. Drift
  <2>1. Billed = 0
    BY <1>1 DEF Billed
  <2>2. lease.in.month \in Nat /\ lease.in.day \in 1..31
    BY <1>1, DateParts
  <2>3. due.month = lease.in.month + Billed
    BY <1>1, <2>1, <2>2
  <2>4. due.day <= lease.in.day /\ lease.in.day <= due.day
    <3>1. due.day = lease.in.day
      BY <1>1, Zenon
    <3>2. lease.in.day \in Int
      BY <2>2
    <3> QED BY ONLY <3>1, <3>2
  <2> QED BY <2>3, <2>4 DEF Drift
<1> QED BY <1>1, <1>2, <1>3
       DEF LeasesInv, BilledBeforeEnd, PlannedToTheEnd, OneEachMonth

LEMMA StepLeases ==
  LeasesInv /\ [LeasesNext]_leaseVars => LeasesInv'
<1> SUFFICES ASSUME LeasesInv, [LeasesNext]_leaseVars PROVE LeasesInv'
  OBVIOUS
<1> LeasesTypeOK /\ Drift /\ BilledBeforeEnd /\ PlannedToTheEnd /\ OneEachMonth
  BY DEF LeasesInv
<1>0. ASSUME UNCHANGED leaseVars PROVE LeasesInv'
  BY <1>0 DEF leaseVars, LeasesInv, LeasesTypeOK, Drift, BilledBeforeEnd, PlannedToTheEnd,
              OneEachMonth, Anniversary, LeaseEnd, Billed
<1>1. ASSUME AddInstallment PROVE LeasesInv'
  <2>1. /\ UNCHANGED <<lease, planned>> /\ planned = FALSE
        /\ installments' = Append(installments, due)
        /\ due' = Clamped(due.month + 1, due.day) /\ Before(due, LeaseEnd)
    BY <1>1 DEF AddInstallment, AddOneMonth, LeasesTypeOK
  <2>2. /\ lease.in.month \in Nat /\ lease.in.day \in 1..31
        /\ due \in Dates /\ due.month \in Nat /\ due.day \in 1..31
    BY DateParts DEF LeasesTypeOK
  <2>3. /\ due' \in Dates /\ due'.month = due.month + 1 /\ due'.day <= due.day
        /\ due.day <= 28 => due.day <= due'.day
    <3> DEFINE c == Clamped(due.month + 1, due.day)
    <3>0. due.month + 1 \in Nat
      BY <2>2
    <3>1. /\ c \in Dates /\ c.month = due.month + 1 /\ c.day <= due.day
          /\ due.day <= 28 => due.day <= c.day
      BY <3>0, <2>2, ClampedIsDate
    <3> HIDE DEF c
    <3>2. due' = c
      BY <2>1 DEF c
    <3> QED BY <3>1, <3>2
  <2>4. due'.day \in 1..31
    BY <2>3, DateParts
  <2>5. /\ installments' \in Seq(Dates) /\ Billed \in Nat /\ Billed' = Billed + 1
        /\ DOMAIN installments = 1..Billed /\ DOMAIN installments' = 1..(Billed + 1)
        /\ installments'[Billed + 1] = due
        /\ \A i \in 1..Billed : installments'[i] = installments[i]
    BY <2>1, <2>2 DEF LeasesTypeOK, Billed
  <2>6. LeasesTypeOK'
    BY <2>1, <2>3, <2>5 DEF LeasesTypeOK
  <2>7. Drift'
    <3>1. due'.month = lease'.in.month + Billed'
      <4>1. due.month = lease.in.month + Billed /\ lease' = lease
        BY <2>1 DEF Drift
      <4>2. /\ due'.month = due.month + 1 /\ Billed' = Billed + 1
            /\ lease.in.month \in Int /\ Billed \in Int
        BY <2>2, <2>3, <2>5
      <4> QED BY ONLY <4>1, <4>2
    <3>2. due'.day <= lease'.in.day
      <4>1. due.day <= lease.in.day /\ lease' = lease
        BY <2>1 DEF Drift
      <4> QED BY <4>1, <2>2, <2>3, <2>4
    <3>3. lease'.in.day <= 28 => lease'.in.day <= due'.day
      <4>1. /\ due.day <= lease.in.day /\ lease' = lease
            /\ lease.in.day <= 28 => lease.in.day <= due.day
        BY <2>1 DEF Drift
      <4> QED BY <4>1, <2>2, <2>3, <2>4
    <3> QED BY <3>1, <3>2, <3>3 DEF Drift
  <2>8. BilledBeforeEnd'
    <3>1. lease.in.day <= 28 => Before(Anniversary(Billed), LeaseEnd)
      BY <2>1, DueByAnniversary
    <3>2. Billed' - 1 = Billed
      BY <2>5
    <3> QED BY <3>1, <3>2, <2>1 DEF BilledBeforeEnd, Anniversary, LeaseEnd
  <2>9. PlannedToTheEnd'
    BY <2>1 DEF PlannedToTheEnd
  <2>10. OneEachMonth'
    <3> SUFFICES ASSUME NEW i \in DOMAIN installments'
                 PROVE  installments'[i].month = lease'.in.month + i - 1
      BY DEF OneEachMonth
    <3>1. i \in 1..(Billed + 1)
      BY <2>5
    <3>2. CASE i = Billed + 1
      <4>1. installments'[i].month = lease.in.month + Billed
        BY <3>2, <2>5 DEF Drift
      <4> QED BY <4>1, <3>2, <2>1, <2>2, <2>5
    <3>3. CASE i # Billed + 1
      <4>1. i \in 1..Billed
        BY <3>1, <3>3, <2>5
      <4>2. i \in DOMAIN installments /\ installments'[i] = installments[i]
        BY <4>1, <2>5
      <4> QED BY <4>2, <2>1 DEF OneEachMonth
    <3> QED BY <3>2, <3>3
  <2> QED BY <2>6, <2>7, <2>8, <2>9, <2>10 DEF LeasesInv
<1>2. ASSUME PlanDone PROVE LeasesInv'
  <2>1. UNCHANGED <<lease, due, installments>> /\ planned' = TRUE /\ ~Before(due, LeaseEnd)
    BY <1>2 DEF PlanDone
  <2> QED BY <2>1 DEF LeasesInv, LeasesTypeOK, Drift, BilledBeforeEnd, PlannedToTheEnd,
                      OneEachMonth, Anniversary, LeaseEnd, Billed
<1> QED BY <1>0, <1>1, <1>2 DEF LeasesNext

LEMMA LeasesAlways ==
  LeasesSpec => []LeasesInv
BY InitLeases, StepLeases, PTL DEF LeasesSpec

(* The dates the loop makes exist, whatever the lengths of the months.      *)
THEOREM LeasesTyped ==
  LeasesSpec => []LeasesTypeOK
<1>1. LeasesInv => LeasesTypeOK
  BY DEF LeasesInv
<1> QED BY <1>1, LeasesAlways, PTL

(* Every month of a lease is billed, once, and a lease from a day that all  *)
(* months have is not billed past its end.                                  *)
THEOREM EveryMonthBilled ==
  LeasesSpec => []BilledToTheEnd
<1>1. LeasesInv => BilledToTheEnd
  BY DueByAnniversary
     DEF LeasesInv, BilledToTheEnd, PlannedToTheEnd, BilledBeforeEnd, Billed
<1> QED BY <1>1, LeasesAlways, PTL

(* No month is billed twice and none is skipped.                            *)
THEOREM NoMonthTwice ==
  LeasesSpec => []OneEachMonth
<1>1. LeasesInv => OneEachMonth
  BY DEF LeasesInv
<1> QED BY <1>1, LeasesAlways, PTL

(* What was billed last falls into the month the lease ends in, or before.  *)
LastBilledInTime ==
  installments # <<>> => lease.in.month + Billed - 1 <= LeaseEnd.month

LEMMA StepLastBilled ==
  LeasesInv /\ LastBilledInTime /\ [LeasesNext]_leaseVars => LastBilledInTime'
<1> SUFFICES ASSUME LeasesInv, LastBilledInTime, [LeasesNext]_leaseVars
             PROVE  LastBilledInTime'
  OBVIOUS
<1>1. ASSUME AddInstallment PROVE LastBilledInTime'
  <2>1. /\ lease' = lease /\ Billed' = Billed + 1 /\ Billed \in Nat
        /\ Before(due, LeaseEnd) /\ due.month = lease.in.month + Billed
    BY <1>1 DEF AddInstallment, Billed, LeasesInv, LeasesTypeOK, Drift
  <2>2. due.month \in Nat /\ LeaseEnd.month \in Nat /\ lease.in.month \in Nat
    BY EndIsDate, DateParts DEF LeasesInv, LeasesTypeOK
  <2>3. due.month <= LeaseEnd.month
    BY <2>1, <2>2 DEF Before
  <2>4. lease.in.month + Billed' - 1 <= LeaseEnd.month
    BY ONLY <2>1, <2>2, <2>3
  <2> QED BY <2>1, <2>4 DEF LastBilledInTime, LeaseEnd
<1>2. CASE UNCHANGED <<lease, installments>>
  BY <1>2 DEF LastBilledInTime, Billed, LeaseEnd
<1> QED BY <1>1, <1>2 DEF LeasesNext, PlanDone, leaseVars

(* A booking without a check-out gets DEFAULT_LEASE_SCHEDULE_MONTHS rows, or *)
(* one more; from a day that all months have it gets exactly as many.        *)
THEOREM OverbilledByOne ==
  LeasesSpec => []OneMonthOver
<1>1. LeasesInit => LastBilledInTime
  BY DEF LeasesInit, LastBilledInTime
<1>2. LeasesInv /\ LastBilledInTime => OneMonthOver
  <2> SUFFICES ASSUME LeasesInv, LastBilledInTime, planned, lease.out = NoCheckOut
               PROVE  /\ Billed \in {LeaseMonths, LeaseMonths + 1}
                      /\ lease.in.day <= 28 => Billed = LeaseMonths
    BY DEF OneMonthOver, Billed
  <2> DEFINE e == Clamped(lease.in.month + LeaseMonths, lease.in.day)
             last == Clamped(lease.in.month + (Billed - 1), lease.in.day)
  <2>1. /\ lease.in.month \in Nat /\ lease.in.day \in 1..31
        /\ due.month = lease.in.month + Billed /\ due.month \in Nat
    BY DateParts DEF LeasesInv, LeasesTypeOK, Drift
  <2>2. /\ Billed \in Nat /\ LeaseMonths \in Nat \ {0}
        /\ Billed = 0 <=> installments = <<>>
    BY LeasesAssumption DEF Billed, LeasesInv, LeasesTypeOK
  <2>3. LeaseEnd = e /\ e.month = lease.in.month + LeaseMonths
    BY DEF LeaseEnd, Clamped
  <2>4. LeaseMonths <= Billed
    <3>1. ~(due.month < e.month)
      BY <2>3 DEF LeasesInv, PlannedToTheEnd, Before
    <3> QED BY ONLY <3>1, <2>1, <2>2, <2>3
  <2>5. Billed <= LeaseMonths + 1
    <3>1. installments # <<>> /\ lease.in.month + Billed - 1 <= e.month
      BY <2>2, <2>3, <2>4 DEF LastBilledInTime
    <3> QED BY ONLY <3>1, <2>1, <2>2, <2>3
  <2>6. ASSUME lease.in.day <= 28 PROVE Billed = LeaseMonths
    <3>1. Before(last, e)
      BY <2>2, <2>3, <2>4, <2>6 DEF LeasesInv, BilledBeforeEnd, Anniversary
    <3>2. /\ lease.in.month + (Billed - 1) \in Nat
          /\ lease.in.month + LeaseMonths \in Nat
      BY ONLY <2>1, <2>2, <2>4
    <3>3. /\ last.month = lease.in.month + (Billed - 1)
          /\ last.day <= lease.in.day /\ lease.in.day <= last.day
          /\ e.day <= lease.in.day /\ lease.in.day <= e.day
          /\ last \in Dates /\ e \in Dates
      BY <3>2, <2>1, <2>6, ClampedIsDate
    <3>4. last.day \in 1..31 /\ e.day \in 1..31
      BY <3>3, DateParts
    <3> HIDE DEF last, e
    <3>5. last.month < e.month
      BY <3>1, <3>3, <3>4, <2>1 DEF Before
    <3> QED BY ONLY <3>3, <3>5, <2>1, <2>2, <2>3, <2>4
  <2> QED BY <2>2, <2>4, <2>5, <2>6
<1> QED BY <1>1, <1>2, StepLastBilled, LeasesAlways, PTL DEF LeasesSpec

(***************************************************************************)
(* Disputes.  The UPDATE of a dispute's row holds its lock to the end of    *)
(* the transaction, so entries of one dispute are stamped in the order they *)
(* are committed in; and a row that says the deposit was decided is written *)
(* with the booking's flag, or was read after it; only an outdated copy of  *)
(* the booking takes that back.                                             *)
(***************************************************************************)
InTransaction == {"saved", "logged"}
OneWriter ==
  \A g, k \in Officers :
    /\ officer[g].at \in InTransaction /\ officer[k].at \in InTransaction
    /\ officer[g].dispute = officer[k].dispute
    => g = k
EntriesInOrder == \A g \in Officers : later[g] = {}
RowsAreFiled ==
  \A g \in Officers : officer[g] # Off =>
    /\ officer[g].row.status # "unfiled"
    /\ officer[g].row.decision = "deposit" =>
         returned \/ outdated \/ (officer[g].at \in InTransaction /\ officer[g].settles)
NothingBefore ==
  \A d \in Disputes \ Filed : journal[d] = "none" /\ dispute[d].decision = "none"

DisputesInv ==
  /\ DisputesTypeOK /\ OneWriter /\ EntriesInOrder /\ RowsAreFiled
  /\ NothingBefore /\ AuditTellsStatus

LEMMA InitDisputes ==
  DisputesInit => DisputesInv
<1> SUFFICES ASSUME DisputesInit PROVE DisputesInv
  OBVIOUS
<1>1. Filed = {}
  BY DEF DisputesInit, Filed
<1>2. [status |-> "unfiled", decision |-> "none"] \in DisputeRow
  BY DEF DisputeRow, DisputeStatuses
<1>3. DisputesTypeOK
  BY <1>1, <1>2 DEF DisputesInit, DisputesTypeOK
<1>4. OneWriter /\ EntriesInOrder /\ RowsAreFiled /\ NothingBefore /\ AuditTellsStatus
  BY <1>1 DEF DisputesInit, OneWriter, EntriesInOrder, RowsAreFiled, NothingBefore,
              AuditTellsStatus, Off, InTransaction
<1> QED BY <1>3, <1>4 DEF DisputesInv

(* A step of a request under way is about a dispute that was filed, on a    *)
(* row of a filed dispute.                                                  *)
LEMMA OfficerFacts ==
  ASSUME DisputesInv, NEW g \in Officers, officer[g].at # "nothing"
  PROVE  /\ officer[g].dispute \in Filed /\ officer[g].dispute \in Disputes
         /\ officer[g].row \in DisputeRow /\ officer[g].row.status # "unfiled"
         /\ officer[g].at \in {"read"} \cup InTransaction
         /\ officer[g].at \in InTransaction => officer[g].settles \in BOOLEAN
         /\ officer[g].row.decision = "deposit" =>
              returned \/ outdated \/ (officer[g].at \in InTransaction /\ officer[g].settles)
<1>1. officer[g] # Off
  BY DEF Off
<1>2. officer[g] \in [at : {"read"}, dispute : Filed, row : DisputeRow] \cup
        [at : InTransaction, dispute : Filed, row : DisputeRow, settles : BOOLEAN]
  BY <1>1 DEF DisputesInv, DisputesTypeOK, InTransaction
<1>3. officer[g].dispute \in Disputes
  BY <1>2 DEF Filed
<1> QED BY <1>1, <1>2, <1>3 DEF DisputesInv, RowsAreFiled, InTransaction

(* What an action writes is a row of a filed dispute.                       *)
LEMMA WrittenRow ==
  ASSUME NEW action \in Targets \cup {"settle", "note", "reject"},
         NEW read \in DisputeRow, NEW row \in DisputeRow
  PROVE  LET new == RowWritten(action, read, row) IN
         /\ new \in DisputeRow /\ new.status # "unfiled"
         /\ new.decision = "deposit" =>
              read.decision = "deposit" \/ row.decision = "deposit" \/ action = "settle"
<1>1. CASE action \in Targets
  BY <1>1, DisputesAssumption DEF RowWritten, DisputeRow, DisputeStatuses
<1>2. CASE action = "reject"
  BY <1>2, DisputesAssumption DEF RowWritten, DisputeRow, DisputeStatuses, Closed
<1>3. CASE action = "settle"
  BY <1>3, DisputesAssumption DEF RowWritten, DisputeRow, DisputeStatuses, Closed
<1>4. CASE action = "note"
  BY <1>4, DisputesAssumption DEF RowWritten, DisputeRow, DisputeStatuses, Closed
<1> QED BY <1>1, <1>2, <1>3, <1>4
(* Each action keeps the invariant; only one writer of a dispute stamps.    *)
LEMMA StepDisputes ==
  DisputesInv /\ [DisputesNext]_disputeVars => DisputesInv'
<1> SUFFICES ASSUME DisputesInv, [DisputesNext]_disputeVars PROVE DisputesInv'
  OBVIOUS
<1> DisputesTypeOK /\ OneWriter /\ EntriesInOrder /\ RowsAreFiled /\ NothingBefore /\ AuditTellsStatus
  BY DEF DisputesInv
<1> USE DEF disputeVars
<1>0. ASSUME UNCHANGED disputeVars PROVE DisputesInv'
  BY <1>0 DEF DisputesInv, DisputesTypeOK, OneWriter, EntriesInOrder, RowsAreFiled,
              NothingBefore, AuditTellsStatus, Filed
<1>1. ASSUME NEW f \in Filings, PassFiling(f) PROVE DisputesInv'
  <2>1. filing' \in [Filings -> {"nothing", "passed"}]
    BY <1>1 DEF PassFiling, DisputesTypeOK
  <2> QED BY <1>1, <2>1 DEF PassFiling, DisputesInv, DisputesTypeOK, OneWriter, EntriesInOrder,
              RowsAreFiled, NothingBefore, AuditTellsStatus, Filed
<1>2. ASSUME NEW x \in Exhibits, AddExhibit(x) PROVE DisputesInv'
  <2>1. exhibit' \in [Exhibits -> {NoExhibit} \cup [at : {"passed", "added"}, dispute : Filed]]
    BY <1>2 DEF AddExhibit, DisputesTypeOK, NoExhibit
  <2> QED BY <1>2, <2>1 DEF AddExhibit, DisputesInv, DisputesTypeOK, OneWriter, EntriesInOrder,
              RowsAreFiled, NothingBefore, AuditTellsStatus, Filed
<1>3. ASSUME NEW x \in Exhibits, NEW d \in Disputes, PassExhibit(x, d) PROVE DisputesInv'
  <2>1. d \in Filed
    BY <1>3 DEF PassExhibit, Pending, Filed
  <2>2. exhibit' \in [Exhibits -> {NoExhibit} \cup [at : {"passed", "added"}, dispute : Filed]]
    BY <1>3, <2>1 DEF PassExhibit, DisputesTypeOK
  <2> QED BY <1>3, <2>2 DEF PassExhibit, DisputesInv, DisputesTypeOK, OneWriter, EntriesInOrder,
              RowsAreFiled, NothingBefore, AuditTellsStatus, Filed
<1>4. ASSUME NEW f \in Filings, NEW d \in Disputes, File(f, d) PROVE DisputesInv'
  <2>1. /\ UNCHANGED <<journal, later, returned, patches, outdated, exhibit, officer>>
        /\ dispute' = [dispute EXCEPT ![d].status = "open"] /\ d \notin Filed
        /\ filing' \in [Filings -> {"nothing", "passed"}]
    BY <1>4 DEF File, DisputesTypeOK
  <2>2. /\ dispute' \in [Disputes -> DisputeRow]
        /\ dispute'[d].status = "open" /\ dispute'[d].decision = dispute[d].decision
        /\ \A e \in Disputes \ {d} : dispute'[e] = dispute[e]
    BY <2>1 DEF DisputesTypeOK, DisputeRow, DisputeStatuses
  <2>3. Filed' = Filed \cup {d}
    BY <2>2 DEF Filed
  <2>4. DisputesTypeOK'
    BY <2>1, <2>2, <2>3 DEF DisputesTypeOK
  <2>5. NothingBefore' /\ AuditTellsStatus'
    BY <2>1, <2>2, <2>3 DEF NothingBefore, AuditTellsStatus, Filed
  <2> QED BY <2>1, <2>4, <2>5 DEF DisputesInv, OneWriter, EntriesInOrder, RowsAreFiled
<1>5. ASSUME NEW g \in Officers, NEW d \in Disputes, ReadDispute(g, d) PROVE DisputesInv'
  <2> DEFINE new == [at |-> "read", dispute |-> d, row |-> dispute[d]]
  <2>1. /\ UNCHANGED <<dispute, journal, later, returned, patches, outdated, filing, exhibit>> /\ d \in Filed
        /\ officer' = [officer EXCEPT ![g] = new]
    BY <1>5 DEF ReadDispute
  <2>2. /\ dispute[d] \in DisputeRow /\ dispute[d].status # "unfiled"
        /\ dispute[d].decision = "deposit" => returned \/ outdated
    BY <2>1 DEF DisputesTypeOK, Filed, AuditTellsStatus
  <2>3. /\ new \in [at : {"read"}, dispute : Filed, row : DisputeRow]
        /\ new.at = "read" /\ new.row = dispute[d]
    BY <2>1, <2>2
  <2> HIDE DEF new
  <2>4. /\ officer'[g] = new
        /\ \A k \in Officers \ {g} : officer'[k] = officer[k]
    BY <2>1 DEF DisputesTypeOK
  <2>5. DisputesTypeOK'
    BY <2>1, <2>3 DEF DisputesTypeOK, Filed
  <2>6. OneWriter'
    BY <2>3, <2>4 DEF OneWriter, InTransaction
  <2>7. RowsAreFiled'
    BY <2>1, <2>2, <2>3, <2>4 DEF RowsAreFiled
  <2> QED BY <2>1, <2>5, <2>6, <2>7
          DEF DisputesInv, EntriesInOrder, NothingBefore, AuditTellsStatus, Filed
<1>6. ASSUME NEW g \in Officers, NEW action \in Targets \cup {"settle", "note", "reject"},
             SaveDispute(g, action)
      PROVE  DisputesInv'
  <2> DEFINE d == officer[g].dispute
             row == RowWritten(action, officer[g].row, dispute[d])
             new == [at |-> "saved", dispute |-> d, row |-> row, settles |-> action = "settle"]
  <2>1. /\ UNCHANGED <<dispute, journal, later, returned, patches, outdated, filing, exhibit>>
        /\ officer[g].at = "read" /\ Lockers(d) = {}
        /\ officer' = [officer EXCEPT ![g] = new]
    BY <1>6 DEF SaveDispute
  <2>2. /\ d \in Filed /\ d \in Disputes /\ officer[g].row \in DisputeRow
        /\ officer[g].row.decision = "deposit" => returned \/ outdated
    BY <2>1, OfficerFacts DEF InTransaction
  <2>3. dispute[d] \in DisputeRow /\ (dispute[d].decision = "deposit" => returned \/ outdated)
    BY <2>2 DEF DisputesTypeOK, AuditTellsStatus
  <2>4. /\ row \in DisputeRow /\ row.status # "unfiled"
        /\ row.decision = "deposit" => returned \/ outdated \/ action = "settle"
    BY <2>2, <2>3, WrittenRow
  <2> HIDE DEF row
  <2>5. /\ new \in [at : {"saved", "logged"}, dispute : Filed, row : DisputeRow, settles : BOOLEAN]
        /\ new.at = "saved" /\ new.dispute = d /\ new.row = row /\ new.settles = (action = "settle")
    BY <2>2, <2>4
  <2> HIDE DEF new
  <2>6. /\ officer'[g] = new
        /\ \A k \in Officers \ {g} : officer'[k] = officer[k]
    BY <2>1 DEF DisputesTypeOK
  <2>7. DisputesTypeOK'
    BY <2>1, <2>5 DEF DisputesTypeOK, Filed
  <2>8. OneWriter'
    <3>1. \A k \in Officers : ~(officer[k].at \in InTransaction /\ officer[k].dispute = d)
      BY <2>1 DEF Lockers, InTransaction
    <3> QED BY <3>1, <2>5, <2>6 DEF OneWriter
  <2>9. RowsAreFiled'
    BY <2>1, <2>4, <2>5, <2>6 DEF RowsAreFiled, InTransaction
  <2> QED BY <2>1, <2>7, <2>8, <2>9
          DEF DisputesInv, EntriesInOrder, NothingBefore, AuditTellsStatus, Filed
<1>7. ASSUME NEW g \in Officers, LogAction(g) PROVE DisputesInv'
  <2>1. /\ UNCHANGED <<dispute, journal, returned, patches, outdated, filing, exhibit>>
        /\ officer[g].at = "saved" /\ officer' = [officer EXCEPT ![g].at = "logged"]
    BY <1>7 DEF LogAction
  <2>2. officer[g] \in [at : {"saved", "logged"}, dispute : Filed, row : DisputeRow, settles : BOOLEAN]
    BY <2>1 DEF DisputesTypeOK, Off
  <2>3. /\ officer'[g] \in [at : {"saved", "logged"}, dispute : Filed, row : DisputeRow, settles : BOOLEAN]
        /\ officer'[g].at = "logged" /\ officer'[g].dispute = officer[g].dispute
        /\ officer'[g].row = officer[g].row /\ officer'[g].settles = officer[g].settles
        /\ \A k \in Officers \ {g} : officer'[k] = officer[k]
        /\ officer' = [officer EXCEPT ![g] = officer'[g]]
    BY <2>1, <2>2 DEF DisputesTypeOK
  <2>4. EntriesInOrder'
    <3>1. \A k \in Officers : officer[k].at = "logged" => officer[k].dispute # officer[g].dispute
      BY <2>1 DEF OneWriter, InTransaction
    <3>2. later' = [k \in Officers |-> later[k]]
      BY <1>7, <3>1 DEF LogAction
    <3> QED BY <3>2 DEF EntriesInOrder
  <2>5. DisputesTypeOK'
    <3>1. later' \in [Officers -> SUBSET (Officers \cup {Nobody})]
      BY <1>7, <2>4 DEF LogAction, EntriesInOrder
    <3> DEFINE Stages == {Off}
                 \cup [at : {"read"}, dispute : Filed, row : DisputeRow]
                 \cup [at : {"saved", "logged"}, dispute : Filed, row : DisputeRow, settles : BOOLEAN]
    <3>2. officer \in [Officers -> Stages] /\ officer'[g] \in Stages
      BY <2>3 DEF DisputesTypeOK
    <3> HIDE DEF Stages
    <3>3. officer' \in [Officers -> Stages]
      BY <2>3, <3>2
    <3>4. Filed' = Filed
      BY <2>1 DEF Filed
    <3> QED BY <2>1, <3>1, <3>3, <3>4 DEF DisputesTypeOK, Stages
  <2>6. OneWriter'
    BY <2>1, <2>3 DEF OneWriter, InTransaction
  <2>7. RowsAreFiled'
    BY <2>1, <2>3 DEF RowsAreFiled, InTransaction, Off
  <2> QED BY <2>1, <2>4, <2>5, <2>6, <2>7
          DEF DisputesInv, NothingBefore, AuditTellsStatus, Filed
<1>8. ASSUME NEW g \in Officers, Commit(g) PROVE DisputesInv'
  <2> DEFINE d == officer[g].dispute
             row == officer[g].row
  <2>1. /\ UNCHANGED <<patches, outdated, filing, exhibit>> /\ officer[g].at = "logged"
        /\ dispute' = [dispute EXCEPT ![d] = row]
        /\ journal' = [journal EXCEPT ![d] = IF Nobody \in later[g] THEN @ ELSE row.status]
        /\ returned' = (returned \/ officer[g].settles)
        /\ officer' = [officer EXCEPT ![g] = Off]
    BY <1>8 DEF Commit
  <2>2. /\ d \in Filed /\ d \in Disputes /\ row \in DisputeRow /\ row.status # "unfiled"
        /\ officer[g].settles \in BOOLEAN
        /\ row.decision = "deposit" => returned \/ outdated \/ officer[g].settles
    BY <2>1, OfficerFacts DEF InTransaction
  <2>3. /\ journal' = [journal EXCEPT ![d] = row.status]
        /\ \A k \in Officers : later'[k] = {}
        /\ later' \in [Officers -> SUBSET (Officers \cup {Nobody})]
    BY <1>8, <2>1 DEF EntriesInOrder, Commit
  <2> HIDE DEF d, row
  <2>4. /\ Filed' = Filed /\ dispute' \in [Disputes -> DisputeRow]
        /\ dispute'[d] = row /\ journal'[d] = row.status
        /\ \A e \in Disputes \ {d} : dispute'[e] = dispute[e] /\ journal'[e] = journal[e]
    BY <2>1, <2>2, <2>3 DEF Filed, DisputesTypeOK
  <2>5. /\ officer'[g] = Off
        /\ \A k \in Officers \ {g} : officer'[k] = officer[k]
    BY <2>1 DEF DisputesTypeOK
  <2>6. returned \/ outdated => returned' \/ outdated'
    BY <2>1
  <2>7. row.decision = "deposit" => returned' \/ outdated'
    BY <2>1, <2>2
  <2>8. DisputesTypeOK'
    <3>1. journal' \in [Disputes -> {"none"} \cup DisputeStatuses]
      BY <2>2, <2>3 DEF DisputesTypeOK, DisputeRow
    <3>2. returned' \in BOOLEAN
      BY <2>1, <2>2 DEF DisputesTypeOK
    <3> QED BY <2>1, <2>3, <2>4, <3>1, <3>2 DEF DisputesTypeOK
  <2>9. OneWriter'
    BY <2>5 DEF OneWriter, InTransaction, Off
  <2>10. RowsAreFiled'
    BY <2>5, <2>6 DEF RowsAreFiled
  <2>11. NothingBefore'
    BY <2>2, <2>4 DEF NothingBefore
  <2>12. AuditTellsStatus'
    <3>1. row.status # "none"
      BY <2>2, DisputesAssumption DEF DisputeRow, DisputeStatuses, Closed
    <3> SUFFICES ASSUME NEW e \in Filed
                 PROVE  /\ dispute'[e].status = IF journal'[e] = "none" THEN "open" ELSE journal'[e]
                        /\ dispute'[e].decision = "deposit" => returned' \/ outdated'
      BY <2>4 DEF AuditTellsStatus
    <3>2. CASE e = d
      BY <3>1, <3>2, <2>4, <2>7
    <3>3. CASE e # d
      BY <3>3, <2>4, <2>6 DEF AuditTellsStatus, Filed
    <3> QED BY <3>2, <3>3
  <2> QED BY <2>3, <2>8, <2>9, <2>10, <2>11, <2>12 DEF DisputesInv, EntriesInOrder
<1>9. ASSUME NEW g \in Officers, RollBack(g) PROVE DisputesInv'
  <2>1. /\ UNCHANGED <<dispute, journal, returned, patches, outdated, filing, exhibit>>
        /\ officer' = [officer EXCEPT ![g] = Off]
        /\ later' = [k \in Officers |-> IF k = g THEN {} ELSE later[k] \ {g}]
    BY <1>9 DEF RollBack
  <2>2. EntriesInOrder' /\ DisputesTypeOK'
    BY <2>1 DEF EntriesInOrder, DisputesTypeOK, Filed
  <2>3. /\ officer'[g] = Off
        /\ \A k \in Officers \ {g} : officer'[k] = officer[k]
    BY <2>1 DEF DisputesTypeOK
  <2>4. OneWriter' /\ RowsAreFiled'
    BY <2>1, <2>3 DEF OneWriter, RowsAreFiled, InTransaction, Off
  <2> QED BY <2>1, <2>2, <2>4 DEF DisputesInv, NothingBefore, AuditTellsStatus, Filed
<1>10. ASSUME LoadBooking \/ \E copy \in BOOLEAN : SaveBooking(copy) PROVE DisputesInv'
  <2>1. /\ UNCHANGED <<dispute, journal, later, filing, exhibit, officer>>
        /\ returned' \in BOOLEAN /\ patches' \subseteq BOOLEAN /\ outdated' \in BOOLEAN
        /\ returned \/ outdated => returned' \/ outdated'
    BY <1>10 DEF LoadBooking, SaveBooking, DisputesTypeOK
  <2>2. DisputesTypeOK'
    BY <2>1 DEF DisputesTypeOK, Filed
  <2>3. OneWriter' /\ EntriesInOrder' /\ RowsAreFiled' /\ NothingBefore'
    BY <2>1 DEF OneWriter, EntriesInOrder, RowsAreFiled, NothingBefore, Filed
  <2>4. AuditTellsStatus'
    BY <2>1 DEF AuditTellsStatus, Filed
  <2> QED BY <2>2, <2>3, <2>4 DEF DisputesInv
<1> QED BY <1>0, <1>1, <1>2, <1>3, <1>4, <1>5, <1>6, <1>7, <1>8, <1>9, <1>10
        DEF DisputesNext

LEMMA DisputesAlways ==
  DisputesSpec => []DisputesInv
BY InitDisputes, StepDisputes, PTL DEF DisputesSpec

(* Whatever admins do at once and whichever entries fail, every request     *)
(* works on a dispute that was filed, with a row of its kind.               *)
THEOREM DisputesTyped ==
  DisputesSpec => []DisputesTypeOK
<1>1. DisputesInv => DisputesTypeOK
  BY DEF DisputesInv
<1> QED BY <1>1, DisputesAlways, PTL

(* The last entry of a dispute's audit trail names the status the dispute   *)
(* has, because the row's lock lets one transaction at a time stamp one.    *)
THEOREM AuditIsTrue ==
  DisputesSpec => []AuditTellsStatus
<1>1. DisputesInv => AuditTellsStatus
  BY DEF DisputesInv
<1> QED BY <1>1, DisputesAlways, PTL

(***************************************************************************)
(* The listing autopilot.                                                   *)
(***************************************************************************)
Keys == Weeks \X Types

(* The room's lock lets one consent be applied at a time, what it applies   *)
(* waits meanwhile, and nothing the landlord saves comes between the check  *)
(* of a proposal's checksum and its application.                            *)
OneConsent ==
  \A b, c \in Consents : consent[b] # Unused /\ consent[c] # Unused => b = c
Grounded ==
  \A c \in Consents : consent[c] # Unused =>
    LET k == consent[c].key
    IN  Undecided(k) /\ Grounding(listing, k[2]) = advice[k].seen
Worded ==
  \A k \in Keys :
    Undecided(k) /\ k[2] \notin Adding \cup {"LISTING_RENEWAL"} => advice[k].text \in Texts

AutopilotInv ==
  AutopilotTypeOK /\ OneConsent /\ Grounded /\ Worded /\ OneUnresolvedEach

ClosedAdvice == [status: Decisions, reviewer: Reviewers]
Proposed(k) ==
  [status: {"pending", "approved"}, reviewer: Reviewers,
   text: Texts \cup {NoText}, adds: SUBSET Features, seen: Seen(k[2])]

LEMMA AdviceKinds ==
  ASSUME AutopilotTypeOK, NEW k \in Keys
  PROVE  /\ advice[k] \in {NoAdvice} \cup ClosedAdvice \cup Proposed(k)
         /\ Undecided(k) => advice[k] \in Proposed(k)
<1>1. advice[k] \in {NoAdvice} \cup ClosedAdvice \cup Proposed(k)
  BY DEF AutopilotTypeOK, ClosedAdvice, Proposed, Keys
<1> QED BY <1>1 DEF Undecided, NoAdvice, Decisions, ClosedAdvice

LEMMA ConsentKey ==
  ASSUME AutopilotTypeOK, NEW c \in Consents, consent[c] # Unused
  PROVE  consent[c].key \in Keys /\ consent[c].key[2] \in Types
<1>1. consent[c] \in [at: {"apply"}, key: Weeks \X Types]
  BY DEF AutopilotTypeOK
<1> QED BY <1>1 DEF Keys

(* Where a proposal writes.                                                 *)
LEMMA WhereItWrites ==
  ASSUME NEW type \in Types
  PROVE  /\ Checked(type) /\ type \notin Adding => Overwriting[type] \in Fields
         /\ ~Checked(type) => type \in {"PHOTO_RECOMMENDATION", "LISTING_RENEWAL"}
         /\ Checked(type) => type # "LISTING_RENEWAL"
<1>1. type \in ProposalTypes
  BY AutopilotAssumption
<1>2. Checked(type) => Overwriting[type] \in Fields \cup {"amenities"}
  BY AutopilotAssumption DEF Checked
<1>3. Checked(type) =>
        type \in {"TITLE_UPDATE", "DESCRIPTION_UPDATE", "PRICE_UPDATE", "AMENITY_UPDATE"}
  BY DEF Checked, Overwriting
<1>4. ~Checked(type) => type \in {"PHOTO_RECOMMENDATION", "LISTING_RENEWAL"}
  BY <1>1 DEF Checked, ProposalTypes, Adding, Overwriting
<1>5. Checked(type) /\ type \notin Adding => Overwriting[type] # "amenities"
  BY <1>3 DEF Overwriting, Adding
<1> QED BY <1>2, <1>3, <1>4, <1>5

LEMMA GroundingKind ==
  ASSUME NEW room \in Listings, NEW type \in Types
  PROVE  Grounding(room, type) \in Seen(type)
<1>1. CASE type = "AMENITY_UPDATE"
  BY <1>1 DEF Grounding, Seen, Checked, Overwriting, Adding, Listings
<1>2. CASE type # "AMENITY_UPDATE" /\ Checked(type)
  <2>1. type \notin Adding
    BY <1>2 DEF Checked, Overwriting, Adding
  <2>2. Overwriting[type] \in Fields
    BY <1>2, <2>1, WhereItWrites
  <2> QED BY <1>2, <2>1, <2>2 DEF Grounding, Seen, Listings
<1>3. CASE ~Checked(type)
  BY <1>3, WhereItWrites DEF Grounding, Seen
<1> QED BY <1>1, <1>2, <1>3

LEMMA InitAutopilot ==
  AutopilotInit => AutopilotInv
<1> SUFFICES ASSUME AutopilotInit PROVE AutopilotInv
  OBVIOUS
<1>1. listing \in Listings
  BY DEF AutopilotInit, Listings
<1>2. /\ DOMAIN advice = Keys /\ analysed = {}
      /\ \A k \in Keys : advice[k] = NoAdvice /\ ~Undecided(k)
      /\ \A c \in Consents : consent[c] = Unused
  BY DEF AutopilotInit, NoAdvice, Keys, Undecided
<1>3. AutopilotTypeOK
  BY <1>1, <1>2 DEF AutopilotInit, AutopilotTypeOK, Keys
<1>4. OneUnresolvedEach
  BY <1>2 DEF OneUnresolvedEach, Keys, Undecided
<1> QED BY <1>2, <1>3, <1>4 DEF AutopilotInv, OneConsent, Grounded, Worded

(* What a run proposes is of its kind and pending.                          *)
LEMMA ProposalKind ==
  ASSUME NEW k \in Keys, NEW room \in Listings, NEW text \in Texts, NEW adds \in SUBSET Features
  PROVE  LET p == Proposal(k[2], room, text, adds)
         IN  /\ p \in Proposed(k) /\ p.status = "pending"
             /\ k[2] \notin Adding \cup {"LISTING_RENEWAL"} => p.text \in Texts
<1>1. k[2] \in Types
  BY DEF Keys
<1>2. Grounding(room, k[2]) \in Seen(k[2])
  BY <1>1, GroundingKind
<1> QED BY <1>2 DEF Proposal, Proposed, Reviewers
(* A run proposes nothing of a type that waits already, so not what a       *)
(* consent is applying.                                                     *)
LEMMA AnalyzeKeeps ==
  ASSUME AutopilotInv, NEW r \in WeeklyRuns, Analyze(r)
  PROVE  AutopilotInv' /\ \A j \in Keys : advice'[j].status = "applied" => advice'[j] = advice[j]
<1> AutopilotTypeOK /\ OneConsent /\ Grounded /\ Worded /\ OneUnresolvedEach
  BY DEF AutopilotInv
<1> DEFINE week == loaded[r].week
           room == loaded[r].room
<1>1. /\ UNCHANGED <<listing, consent, editing>> /\ loaded[r] # Unused
      /\ loaded' = [loaded EXCEPT ![r] = Unused]
  BY DEF Analyze
<1>2. loaded' \in [WeeklyRuns -> {Unused} \cup [at: {"loaded"}, room: Listings, week: Weeks]]
  BY <1>1 DEF AutopilotTypeOK
<1>3. week \in Weeks /\ room \in Listings
  <2>1. loaded[r] \in [at: {"loaded"}, room: Listings, week: Weeks]
    BY <1>1 DEF AutopilotTypeOK
  <2> QED BY <2>1
<1>4. CASE UNCHANGED <<analysed, advice>>
  BY <1>1, <1>2, <1>4 DEF AutopilotInv, AutopilotTypeOK, OneConsent, Grounded, Worded,
                          OneUnresolvedEach, Undecided
<1>5. CASE ~UNCHANGED <<analysed, advice>>
  <2>1. /\ week \notin analysed /\ analysed' = analysed \cup {week}
        /\ \E wanted \in SUBSET Types :
             LET made == {type \in wanted : ~Unresolved(type)}
             IN  \E text \in [made -> Texts], adds \in [made -> SUBSET Features] :
                   advice' = [k \in Weeks \X Types |->
                     IF k[1] = week /\ k[2] \in made
                     THEN Proposal(k[2], room, text[k[2]], adds[k[2]])
                     ELSE advice[k]]
    BY <1>5 DEF Analyze
  <2>2. PICK wanted \in SUBSET Types :
             LET made == {type \in wanted : ~Unresolved(type)}
             IN  \E text \in [made -> Texts], adds \in [made -> SUBSET Features] :
                   advice' = [k \in Weeks \X Types |->
                     IF k[1] = week /\ k[2] \in made
                     THEN Proposal(k[2], room, text[k[2]], adds[k[2]])
                     ELSE advice[k]]
    BY <2>1
  <2> DEFINE made == {type \in wanted : ~Unresolved(type)}
  <2>3. PICK text \in [made -> Texts], adds \in [made -> SUBSET Features] :
          advice' = [k \in Keys |->
            IF k[1] = week /\ k[2] \in made
            THEN Proposal(k[2], room, text[k[2]], adds[k[2]])
            ELSE advice[k]]
    BY <2>2 DEF Keys
  <2>4. \A k \in Keys : Undecided(k) => ~(k[2] \in made)
    BY DEF Undecided, Unresolved, AutopilotTypeOK, Keys
  <2>5. ASSUME NEW k \in Keys, k[1] = week, k[2] \in made
        PROVE  /\ advice'[k] \in Proposed(k) /\ Undecided(k)'
               /\ k[2] \notin Adding \cup {"LISTING_RENEWAL"} => advice'[k].text \in Texts
    <3>1. text[k[2]] \in Texts /\ adds[k[2]] \in SUBSET Features
      BY <2>5
    <3>2. advice'[k] = Proposal(k[2], room, text[k[2]], adds[k[2]])
      BY <2>3, <2>5
    <3>3. \A any \in Listings :
            LET p == Proposal(k[2], any, text[k[2]], adds[k[2]])
            IN  /\ p \in Proposed(k) /\ p.status = "pending"
                /\ k[2] \notin Adding \cup {"LISTING_RENEWAL"} => p.text \in Texts
      BY <3>1, ProposalKind
    <3> QED BY <1>3, <3>2, <3>3 DEF Undecided
  <2>6. ASSUME NEW k \in Keys, ~(k[1] = week /\ k[2] \in made)
        PROVE  advice'[k] = advice[k]
    BY <2>3, <2>6
  <2> HIDE DEF made
  <2>7. AutopilotTypeOK'
    <3>1. DOMAIN advice' = Weeks \X Types
      BY <2>3 DEF Keys
    <3>2. \A k \in Weeks \X Types :
            advice'[k] \in {NoAdvice} \cup ClosedAdvice \cup Proposed(k)
      BY <2>5, <2>6, AdviceKinds DEF Keys
    <3> QED BY <1>1, <1>2, <1>3, <2>1, <3>1, <3>2 DEF AutopilotTypeOK, ClosedAdvice, Proposed, Keys
  <2>8. Grounded'
    <3> SUFFICES ASSUME NEW c \in Consents, consent[c] # Unused
                 PROVE  LET k == consent[c].key
                        IN  advice'[k] = advice[k] /\ Undecided(k)
      BY <1>1 DEF Grounded, Undecided
    <3> QED BY <2>4, <2>6, ConsentKey DEF Grounded
  <2>9. Worded'
    BY <2>5, <2>6 DEF Worded, Undecided
  <2>10. OneUnresolvedEach'
    <3> SUFFICES ASSUME NEW j \in Keys, NEW k \in Keys, j[2] = k[2], Undecided(j)', Undecided(k)'
                 PROVE  j = k
      BY DEF OneUnresolvedEach, Undecided, Keys
    <3>1. CASE k[2] \in made
      <4>1. ~Undecided(j) /\ ~Undecided(k)
        BY <2>4, <3>1
      <4>2. j[1] = week /\ k[1] = week
        BY <2>6, <4>1 DEF Undecided
      <4> QED BY <4>2 DEF Keys
    <3>2. CASE k[2] \notin made
      BY <2>6, <3>2 DEF OneUnresolvedEach, Undecided, Keys
    <3> QED BY <3>1, <3>2
  <2>11. \A j \in Keys : advice'[j].status = "applied" => advice'[j] = advice[j]
    BY <2>5, <2>6 DEF Undecided
  <2> QED BY <1>1, <2>7, <2>8, <2>9, <2>10, <2>11 DEF AutopilotInv, OneConsent
<1> QED BY <1>4, <1>5

(* Closing proposals never makes one wait.                                  *)
LEMMA ClosingKeeps ==
  ASSUME AutopilotInv, NEW k \in Keys, NEW status \in Decisions, NEW who \in Reviewers,
         advice' = [advice EXCEPT ![k] = Decided(status, who)]
  PROVE  /\ Worded' /\ OneUnresolvedEach'
         /\ DOMAIN advice' = Weeks \X Types
         /\ \A j \in Keys : advice'[j] \in {NoAdvice} \cup ClosedAdvice \cup Proposed(j)
         /\ advice'[k].status = status /\ advice'[k].reviewer = who
         /\ \A j \in Keys \ {k} : advice'[j] = advice[j]
<1> AutopilotTypeOK /\ Worded /\ OneUnresolvedEach
  BY DEF AutopilotInv
<1>1. /\ DOMAIN advice = Keys /\ DOMAIN advice' = Keys
      /\ advice'[k] = Decided(status, who)
      /\ \A j \in Keys \ {k} : advice'[j] = advice[j]
  BY DEF AutopilotTypeOK, Keys
<1>2. /\ Decided(status, who) \in ClosedAdvice
      /\ Decided(status, who).status \notin {"pending", "approved"}
  BY DEF Decided, Decisions, ClosedAdvice
<1>3. Worded'
  BY <1>1, <1>2 DEF Worded, Undecided
<1>4. OneUnresolvedEach'
  BY <1>1, <1>2 DEF OneUnresolvedEach, Undecided, Keys
<1>5. ASSUME NEW j \in Keys
      PROVE  advice'[j] \in {NoAdvice} \cup ClosedAdvice \cup Proposed(j)
  BY <1>1, <1>2, AdviceKinds
<1> QED BY <1>1, <1>2, <1>3, <1>4, <1>5 DEF Keys, Decided

(* Who approved what is undecided is known.                                 *)
LEMMA ReviewerKind ==
  ASSUME AutopilotTypeOK, NEW k \in Keys, Undecided(k)
  PROVE  advice[k].reviewer \in Reviewers
BY AdviceKinds DEF Proposed

(* The end of a request that applied, its room saved.                       *)
Applier(k) == IF advice[k].status = "pending" THEN "landlord" ELSE advice[k].reviewer

LEMMA ApplyingKeeps ==
  ASSUME AutopilotInv, NEW c \in Consents, consent[c] # Unused,
         Close(c, consent[c].key, "applied"), listing' \in Listings
  PROVE  /\ AutopilotInv'
         /\ advice'[consent[c].key].status = "applied"
         /\ advice'[consent[c].key].reviewer = Applier(consent[c].key)
         /\ \A j \in Keys \ {consent[c].key} : advice'[j] = advice[j]
<1> AutopilotTypeOK /\ OneConsent /\ Grounded
  BY DEF AutopilotInv
<1> DEFINE k == consent[c].key
<1>1. k \in Keys /\ Undecided(k)
  BY ConsentKey DEF Grounded
<1>2. /\ advice' = [advice EXCEPT ![k] = Decided("applied", Applier(k))]
      /\ consent' = [consent EXCEPT ![c] = Unused]
      /\ UNCHANGED <<loaded, analysed, editing>>
  BY DEF Close, Applier
<1>3. Applier(k) \in Reviewers
  BY <1>1, ReviewerKind DEF Applier, Reviewers
<1>4. /\ Worded' /\ OneUnresolvedEach'
      /\ DOMAIN advice' = Weeks \X Types
      /\ \A j \in Keys : advice'[j] \in {NoAdvice} \cup ClosedAdvice \cup Proposed(j)
      /\ advice'[k].status = "applied" /\ advice'[k].reviewer = Applier(k)
      /\ \A j \in Keys \ {k} : advice'[j] = advice[j]
  <2>1. "applied" \in Decisions
    BY DEF Decisions
  <2> QED BY <1>1, <1>2, <1>3, <2>1, ClosingKeeps
<1>5. \A b \in Consents : consent'[b] = Unused
  BY <1>2 DEF OneConsent, AutopilotTypeOK
<1>6. AutopilotTypeOK'
  <2>1. consent' \in [Consents -> {Unused} \cup [at: {"apply"}, key: Weeks \X Types]]
    BY <1>2 DEF AutopilotTypeOK
  <2> QED BY <1>2, <1>4, <2>1 DEF AutopilotTypeOK, ClosedAdvice, Proposed, Keys
<1> QED BY <1>4, <1>5, <1>6 DEF AutopilotInv, OneConsent, Grounded

(* What applying a proposal does to the listing: it overwrites the field it *)
(* is about, and takes no amenity away.                                     *)
OneFieldMoves(k) ==
  /\ listing.amenities \subseteq listing'.amenities
  /\ \A f \in Fields : listing'.text[f] # listing.text[f] =>
       Checked(k[2]) /\ Overwriting[k[2]] = f

LEMMA ApplyTextKeeps ==
  ASSUME AutopilotInv, NEW c \in Consents, ApplyText(c)
  PROVE  AutopilotInv' /\ OneFieldMoves(consent[c].key)
<1> AutopilotTypeOK /\ Grounded /\ Worded
  BY DEF AutopilotInv
<1> DEFINE k == consent[c].key
<1>1. /\ consent[c] # Unused /\ Checked(k[2]) /\ k[2] \notin Adding
      /\ listing' = [listing EXCEPT !.text[Overwriting[k[2]]] = advice[k].text]
      /\ Close(c, k, "applied")
  BY DEF ApplyText
<1>2. k \in Keys /\ k[2] \in Types
  BY <1>1, ConsentKey
<1>3. Overwriting[k[2]] \in Fields /\ k[2] # "LISTING_RENEWAL"
  BY <1>1, <1>2, WhereItWrites
<1>4. advice[k].text \in Texts
  BY <1>1, <1>2, <1>3 DEF Grounded, Worded
<1> HIDE DEF k
<1>5. listing' \in Listings /\ OneFieldMoves(k)
  BY <1>1, <1>3, <1>4 DEF Listings, OneFieldMoves, AutopilotTypeOK
<1> QED BY <1>1, <1>5, ApplyingKeeps DEF k

LEMMA ApplyAmenitiesKeeps ==
  ASSUME AutopilotInv, NEW c \in Consents, ApplyAmenities(c)
  PROVE  AutopilotInv' /\ OneFieldMoves(consent[c].key)
<1> AutopilotTypeOK /\ Grounded
  BY DEF AutopilotInv
<1> DEFINE k == consent[c].key
<1>1. /\ consent[c] # Unused
      /\ listing' = [listing EXCEPT !.amenities = @ \cup advice[k].adds]
      /\ Close(c, k, "applied")
  BY DEF ApplyAmenities
<1>2. k \in Keys /\ Undecided(k)
  BY <1>1, ConsentKey DEF Grounded
<1>3. advice[k].adds \in SUBSET Features
  BY <1>2, AdviceKinds DEF Proposed
<1> HIDE DEF k
<1>4. listing' \in Listings /\ OneFieldMoves(k)
  BY <1>1, <1>3 DEF Listings, OneFieldMoves, AutopilotTypeOK
<1> QED BY <1>1, <1>4, ApplyingKeeps DEF k

LEMMA ApplyRenewalKeeps ==
  ASSUME AutopilotInv, NEW c \in Consents, ApplyRenewal(c)
  PROVE  AutopilotInv' /\ OneFieldMoves(consent[c].key)
<1> AutopilotTypeOK
  BY DEF AutopilotInv
<1>1. /\ consent[c] # Unused
      /\ listing' = [listing EXCEPT !.available = TRUE]
      /\ Close(c, consent[c].key, "applied")
  BY DEF ApplyRenewal
<1>2. listing' \in Listings /\ OneFieldMoves(consent[c].key)
  BY <1>1 DEF Listings, OneFieldMoves, AutopilotTypeOK
<1> QED BY <1>1, <1>2, ApplyingKeeps

(* What every request that applies has in common: it locks, and compares.   *)
LEMMA BeginKeeps ==
  ASSUME AutopilotInv, NEW c \in Consents, NEW k \in Keys, NEW who \in Reviewers,
         Undecided(k), Begin(c, k, who)
  PROVE  /\ AutopilotInv'
         /\ \A j \in Keys : advice'[j].status = "applied" => advice'[j] = advice[j]
         /\ UNCHANGED analysed
         /\ \/ UNCHANGED advice
            \/ /\ advice'[k].status = "failed" /\ advice'[k].reviewer = who
               /\ \A j \in Keys \ {k} : advice'[j] = advice[j]
<1> AutopilotTypeOK /\ OneConsent /\ Grounded /\ Worded /\ OneUnresolvedEach
  BY DEF AutopilotInv
<1>1. /\ \A b \in Consents : consent[b] = Unused
      /\ UNCHANGED <<listing, loaded, analysed, editing>>
  BY DEF Begin, RoomFree
<1>2. CASE Grounding(listing, k[2]) = advice[k].seen
  <2>1. advice' = advice /\ consent' = [consent EXCEPT ![c] = [at |-> "apply", key |-> k]]
    BY <1>2 DEF Begin
  <2>2. /\ consent'[c].key = k
        /\ \A b \in Consents : consent'[b] # Unused => b = c
    BY <1>1, <2>1 DEF AutopilotTypeOK
  <2>3. consent' \in [Consents -> {Unused} \cup [at: {"apply"}, key: Weeks \X Types]]
    BY <2>1 DEF AutopilotTypeOK, Keys
  <2>4. AutopilotTypeOK'
    BY <1>1, <2>1, <2>3 DEF AutopilotTypeOK
  <2>5. Grounded'
    BY <1>1, <1>2, <2>1, <2>2 DEF Grounded, Undecided
  <2> QED BY <1>1, <2>1, <2>2, <2>4, <2>5
          DEF AutopilotInv, OneConsent, Worded, OneUnresolvedEach, Undecided
<1>3. CASE Grounding(listing, k[2]) # advice[k].seen
  <2>1. advice' = [advice EXCEPT ![k] = Decided("failed", who)] /\ consent' = consent
    BY <1>3 DEF Begin
  <2>2. "failed" \in Decisions
    BY DEF Decisions
  <2>3. /\ Worded' /\ OneUnresolvedEach'
        /\ DOMAIN advice' = Weeks \X Types
        /\ \A j \in Keys : advice'[j] \in {NoAdvice} \cup ClosedAdvice \cup Proposed(j)
        /\ advice'[k].status = "failed" /\ advice'[k].reviewer = who
        /\ \A j \in Keys \ {k} : advice'[j] = advice[j]
    BY <2>1, <2>2, ClosingKeeps
  <2>4. AutopilotTypeOK'
    BY <1>1, <2>1, <2>3 DEF AutopilotTypeOK, ClosedAdvice, Proposed, Keys
  <2> QED BY <1>1, <2>1, <2>3, <2>4 DEF AutopilotInv, OneConsent, Grounded
<1> QED BY <1>2, <1>3

LEMMA ConsentKeeps ==
  ASSUME AutopilotInv, NEW c \in Consents, NEW k \in Keys, Consent(c, k) \/ StaffApply(c, k)
  PROVE  AutopilotInv' /\ \A j \in Keys : advice'[j].status = "applied" => advice'[j] = advice[j]
<1> AutopilotTypeOK /\ Undecided(k)
  BY DEF AutopilotInv, Consent, StaffApply, Undecided
<1>1. CASE Consent(c, k)
  BY <1>1, BeginKeeps DEF Consent, Reviewers
<1>2. CASE StaffApply(c, k)
  BY <1>2, BeginKeeps, ReviewerKind DEF StaffApply
<1> QED BY <1>1, <1>2

(* Staff approve what nobody is applying, and it says what it said.         *)
LEMMA StaffApproveKeeps ==
  ASSUME AutopilotInv, NEW k \in Keys, StaffApprove(k)
  PROVE  /\ AutopilotInv'
         /\ advice'[k].status = "approved" /\ advice'[k].reviewer = "staff"
         /\ \A j \in Keys \ {k} : advice'[j] = advice[j]
<1> AutopilotTypeOK /\ OneConsent /\ Grounded /\ Worded /\ OneUnresolvedEach
  BY DEF AutopilotInv
<1>1. /\ UNCHANGED <<listing, loaded, analysed, consent, editing>>
      /\ \A c \in Consents : consent[c] # Unused => consent[c].key # k
      /\ Undecided(k)
  BY DEF StaffApprove, ProposalFree, Undecided
<1>2. PICK old : old = advice[k]
  OBVIOUS
<1>3. old \in Proposed(k)
  BY <1>1, <1>2, AdviceKinds
<1> DEFINE new == [old EXCEPT !.status = "approved", !.reviewer = "staff"]
<1>4. /\ new \in Proposed(k) /\ new.status = "approved" /\ new.reviewer = "staff"
      /\ new.text = old.text
  BY <1>3 DEF Proposed, Reviewers
<1>5. /\ advice' = [advice EXCEPT ![k] = new]
      /\ DOMAIN advice = Keys
  BY <1>2 DEF StaffApprove, AutopilotTypeOK, Keys
<1> HIDE DEF new
<1>6. /\ DOMAIN advice' = Keys /\ advice'[k] = new
      /\ \A j \in Keys \ {k} : advice'[j] = advice[j]
  BY <1>5
<1>7. \A j \in Keys : advice'[j] \in {NoAdvice} \cup ClosedAdvice \cup Proposed(j)
  BY <1>4, <1>6, AdviceKinds
<1>8. AutopilotTypeOK'
  BY <1>1, <1>6, <1>7 DEF AutopilotTypeOK, ClosedAdvice, Proposed, Keys
<1>9. \A j \in Keys : Undecided(j)' = Undecided(j)
  BY <1>1, <1>4, <1>6 DEF Undecided
<1>10. Grounded'
  <2> SUFFICES ASSUME NEW c \in Consents, consent[c] # Unused
               PROVE  LET j == consent[c].key
                      IN  advice'[j] = advice[j] /\ Undecided(j)
    BY <1>1 DEF Grounded, Undecided
  <2> QED BY <1>1, <1>6, ConsentKey DEF Grounded
<1>11. Worded' /\ OneUnresolvedEach'
  <2>1. Worded'
    <3> SUFFICES ASSUME NEW j \in Keys, Undecided(j)', j[2] \notin Adding \cup {"LISTING_RENEWAL"}
                 PROVE  advice'[j].text \in Texts
      BY DEF Worded
    <3>1. advice'[j].text = advice[j].text
      BY <1>2, <1>4, <1>6
    <3> QED BY <1>9, <3>1 DEF Worded
  <2>2. OneUnresolvedEach'
    BY <1>9 DEF OneUnresolvedEach, Keys
  <2> QED BY <2>1, <2>2
<1> QED BY <1>1, <1>4, <1>6, <1>8, <1>10, <1>11 DEF AutopilotInv, OneConsent

LEMMA CloseUnappliedKeeps ==
  ASSUME AutopilotInv, NEW k \in Keys, NEW status \in {"rejected", "expired"},
         CloseUnapplied(k, status)
  PROVE  /\ AutopilotInv'
         /\ advice'[k].status = status /\ advice'[k].reviewer = advice[k].reviewer
         /\ \A j \in Keys \ {k} : advice'[j] = advice[j]
<1> AutopilotTypeOK /\ OneConsent /\ Grounded
  BY DEF AutopilotInv
<1>1. /\ UNCHANGED <<listing, loaded, analysed, consent, editing>>
      /\ \A c \in Consents : consent[c] # Unused => consent[c].key # k
      /\ advice' = [advice EXCEPT ![k] = Decided(status, advice[k].reviewer)]
      /\ advice[k].reviewer \in Reviewers
  BY ReviewerKind DEF CloseUnapplied, ProposalFree
<1>2. status \in Decisions /\ status # "applied"
  BY DEF Decisions
<1>3. /\ Worded' /\ OneUnresolvedEach'
      /\ DOMAIN advice' = Weeks \X Types
      /\ \A j \in Keys : advice'[j] \in {NoAdvice} \cup ClosedAdvice \cup Proposed(j)
      /\ advice'[k].status = status /\ advice'[k].reviewer = advice[k].reviewer
      /\ \A j \in Keys \ {k} : advice'[j] = advice[j]
  BY <1>1, <1>2, ClosingKeeps
<1>4. AutopilotTypeOK'
  BY <1>1, <1>3 DEF AutopilotTypeOK, ClosedAdvice, Proposed, Keys
<1>5. Grounded'
  <2> SUFFICES ASSUME NEW c \in Consents, consent[c] # Unused
               PROVE  LET j == consent[c].key
                      IN  advice'[j] = advice[j] /\ Undecided(j)
    BY <1>1 DEF Grounded, Undecided
  <2> QED BY <1>1, <1>3, ConsentKey DEF Grounded
<1> QED BY <1>1, <1>2, <1>3, <1>4, <1>5 DEF AutopilotInv, OneConsent

LEMMA StepAutopilot ==
  AutopilotInv /\ [AutopilotNext]_autopilotVars => AutopilotInv'
<1> SUFFICES ASSUME AutopilotInv, [AutopilotNext]_autopilotVars PROVE AutopilotInv'
  OBVIOUS
<1> AutopilotTypeOK /\ OneConsent /\ Grounded /\ Worded /\ OneUnresolvedEach
  BY DEF AutopilotInv
<1>0. ASSUME UNCHANGED autopilotVars PROVE AutopilotInv'
  BY <1>0 DEF autopilotVars, AutopilotInv, AutopilotTypeOK, OneConsent, Grounded, Worded,
              OneUnresolvedEach, Undecided
<1>1. ASSUME NEW r \in WeeklyRuns, Analyze(r) PROVE AutopilotInv'
  BY <1>1, AnalyzeKeeps
<1>2. ASSUME NEW r \in WeeklyRuns, NEW week \in Weeks, LoadRooms(r, week) PROVE AutopilotInv'
  <2>1. loaded' \in [WeeklyRuns -> {Unused} \cup [at: {"loaded"}, room: Listings, week: Weeks]]
    BY <1>2 DEF LoadRooms, AutopilotTypeOK
  <2> QED BY <1>2, <2>1 DEF LoadRooms, AutopilotInv, AutopilotTypeOK, OneConsent, Grounded,
                            Worded, OneUnresolvedEach, Undecided
<1>3. ASSUME NEW c \in Consents, NEW k \in Weeks \X Types, Consent(c, k) \/ StaffApply(c, k)
      PROVE  AutopilotInv'
  BY <1>3, ConsentKeeps DEF Keys
<1>9. ASSUME NEW k \in Weeks \X Types, StaffApprove(k) PROVE AutopilotInv'
  BY <1>9, StaffApproveKeeps DEF Keys
<1>4. ASSUME NEW c \in Consents, ApplyText(c) \/ ApplyAmenities(c) \/ ApplyRenewal(c)
      PROVE  AutopilotInv'
  BY <1>4, ApplyTextKeeps, ApplyAmenitiesKeeps, ApplyRenewalKeeps
<1>5. ASSUME NEW c \in Consents, ConsentLost(c) PROVE AutopilotInv'
  <2>1. /\ UNCHANGED <<listing, loaded, analysed, advice, editing>>
        /\ consent' = [consent EXCEPT ![c] = Unused]
    BY <1>5 DEF ConsentLost
  <2>2. \A b \in Consents : consent'[b] # Unused => consent[b] # Unused /\ consent'[b] = consent[b]
    BY <2>1 DEF AutopilotTypeOK
  <2>3. AutopilotTypeOK'
    BY <2>1 DEF AutopilotTypeOK
  <2> QED BY <2>1, <2>2, <2>3 DEF AutopilotInv, OneConsent, Grounded, Worded,
                                  OneUnresolvedEach, Undecided
<1>6. ASSUME NEW k \in Weeks \X Types, NEW status \in {"rejected", "expired"},
             CloseUnapplied(k, status)
      PROVE  AutopilotInv'
  BY <1>6, CloseUnappliedKeeps DEF Keys
<1>7. ASSUME NEW e \in Editors, Edit(e) PROVE AutopilotInv'
  <2>1. UNCHANGED <<listing, loaded, analysed, advice, consent>>
    BY <1>7 DEF Edit
  <2>2. PICK room \in Edits(listing) :
          editing' = [editing EXCEPT ![e] = [at |-> "save", room |-> room]]
    BY <1>7 DEF Edit
  <2>3. room \in Listings
    <3>1. CASE \E f \in Fields, text \in Texts : room = [listing EXCEPT !.text[f] = text]
      BY <3>1 DEF Listings, AutopilotTypeOK
    <3>2. CASE \E a \in SUBSET Features : room = [listing EXCEPT !.amenities = a]
      BY <3>2 DEF Listings, AutopilotTypeOK
    <3>3. CASE room = [listing EXCEPT !.available = ~@]
      BY <3>3 DEF Listings, AutopilotTypeOK
    <3> QED BY <2>2, <3>1, <3>2, <3>3 DEF Edits
  <2>4. editing' \in [Editors -> {Unused} \cup [at: {"save"}, room: Listings]]
    BY <2>2, <2>3 DEF AutopilotTypeOK
  <2> QED BY <2>1, <2>4 DEF AutopilotInv, AutopilotTypeOK, OneConsent, Grounded,
                            Worded, OneUnresolvedEach, Undecided
<1>8. ASSUME NEW e \in Editors, SaveEdit(e) PROVE AutopilotInv'
  <2>1. /\ UNCHANGED <<loaded, analysed, advice, consent>> /\ listing' = editing[e].room
        /\ editing[e] # Unused /\ editing' = [editing EXCEPT ![e] = Unused]
        /\ \A c \in Consents : consent[c] = Unused
    BY <1>8 DEF SaveEdit, RoomFree
  <2>2. listing' \in Listings
    <3>1. editing[e] \in [at: {"save"}, room: Listings]
      BY <2>1 DEF AutopilotTypeOK
    <3> QED BY <2>1, <3>1
  <2>3. AutopilotTypeOK'
    BY <2>1, <2>2 DEF AutopilotTypeOK
  <2> QED BY <2>1, <2>3 DEF AutopilotInv, OneConsent, Grounded, Worded,
                            OneUnresolvedEach, Undecided
<1> QED BY <1>0, <1>1, <1>2, <1>3, <1>4, <1>5, <1>6, <1>7, <1>8, <1>9 DEF AutopilotNext

LEMMA AutopilotAlways ==
  AutopilotSpec => []AutopilotInv
BY InitAutopilot, StepAutopilot, PTL DEF AutopilotSpec

(* Every proposal is of its kind: the checksum it keeps is one of the field *)
(* it would overwrite, and a text it would write is one for that field.     *)
THEOREM AutopilotTyped ==
  AutopilotSpec => []AutopilotTypeOK
<1>1. AutopilotInv => AutopilotTypeOK
  BY DEF AutopilotInv
<1> QED BY <1>1, AutopilotAlways, PTL

(* However many runs of however many weeks overlap, no two proposals of a   *)
(* type are pending or approved.                                            *)
THEOREM OneProposalEach ==
  AutopilotSpec => []OneUnresolvedEach
<1>1. AutopilotInv => OneUnresolvedEach
  BY DEF AutopilotInv
<1> QED BY <1>1, AutopilotAlways, PTL
(* Only an application marks a proposal as applied, and it marks its own.   *)
LEMMA AppliedStep ==
  ASSUME AutopilotInv, [AutopilotNext]_autopilotVars, NEW k \in Keys, Applied(k)
  PROVE  /\ Checked(k[2]) => Grounding(listing, k[2]) = advice[k].seen
         /\ OneFieldMoves(k)
<1> AutopilotTypeOK /\ Grounded
  BY DEF AutopilotInv
<1> USE DEF Applied
<1>1. PICK c \in Consents : ApplyText(c) \/ ApplyAmenities(c) \/ ApplyRenewal(c)
  <2>1. ~UNCHANGED advice
    OBVIOUS
  <2>2. ~\E r \in WeeklyRuns : Analyze(r) \/ \E week \in Weeks : LoadRooms(r, week)
    <3>1. ASSUME NEW r \in WeeklyRuns, Analyze(r) PROVE FALSE
      BY <3>1, AnalyzeKeeps
    <3>2. ASSUME NEW r \in WeeklyRuns, NEW week \in Weeks, LoadRooms(r, week) PROVE FALSE
      BY <3>2, <2>1 DEF LoadRooms
    <3> QED BY <3>1, <3>2
  <2>3. ~\E b \in Consents, j \in Weeks \X Types : Consent(b, j) \/ StaffApply(b, j)
    BY ConsentKeeps DEF Keys
  <2>8. ~\E j \in Weeks \X Types : StaffApprove(j)
    BY StaffApproveKeeps DEF Keys
  <2>4. ~\E j \in Weeks \X Types, status \in {"rejected", "expired"} : CloseUnapplied(j, status)
    BY CloseUnappliedKeeps DEF Keys
  <2>5. ~\E e \in Editors : Edit(e) \/ SaveEdit(e)
    BY <2>1 DEF Edit, SaveEdit
  <2>6. ~\E b \in Consents : ConsentLost(b)
    BY <2>1 DEF ConsentLost
  <2>7. ~UNCHANGED autopilotVars
    BY <2>1 DEF autopilotVars
  <2> QED BY <2>2, <2>3, <2>4, <2>5, <2>6, <2>7, <2>8 DEF AutopilotNext
<1>2. consent[c] # Unused /\ Close(c, consent[c].key, "applied")
  BY <1>1 DEF ApplyText, ApplyAmenities, ApplyRenewal
<1>3. consent[c].key \in Keys /\ consent[c].key = k
  <2>1. consent[c].key \in Keys
    BY <1>2, ConsentKey
  <2>2. \A j \in Keys \ {consent[c].key} : advice'[j] = advice[j]
    BY <1>2, <2>1 DEF Close, AutopilotTypeOK, Keys
  <2> QED BY <2>1, <2>2
<1>4. OneFieldMoves(consent[c].key)
  BY <1>1, ApplyTextKeeps, ApplyAmenitiesKeeps, ApplyRenewalKeeps
<1>5. Grounding(listing, k[2]) = advice[k].seen
  BY <1>2, <1>3 DEF Grounded
<1> QED BY <1>3, <1>4, <1>5

(* "Never clobber the landlord's later edits": the room's lock, held from   *)
(* the comparison of the checksum to the save, keeps edits from coming      *)
(* between them, for any number of runs, consents and edits.                *)
THEOREM LandlordsEditsStay ==
  AutopilotSpec => LaterEditsKept
<1> DEFINE Kept == \A k \in Weeks \X Types : Applied(k) =>
       /\ Checked(k[2]) => Grounding(listing, k[2]) = advice[k].seen
       /\ listing.amenities \subseteq listing'.amenities
       /\ \A f \in Fields : listing'.text[f] # listing.text[f] =>
            Checked(k[2]) /\ Overwriting[k[2]] = f
<1>1. AutopilotInv /\ [AutopilotNext]_autopilotVars => [Kept]_autopilotVars
  BY AppliedStep DEF OneFieldMoves, Keys
<1> HIDE DEF Kept
<1>2. AutopilotSpec => [][Kept]_autopilotVars
  BY <1>1, AutopilotAlways, PTL DEF AutopilotSpec
<1> QED BY <1>2 DEF Kept, LaterEditsKept
-----------------------------------------------------------------------------
(* The refinement.  A run asks only for what was never asked for: what a    *)
(* week has proposed, its analysis has been stored with.                    *)
AdviceAnalysed == \A k \in Keys : advice[k] # NoAdvice => k[1] \in analysed

AdviceMap == [k \in Keys |-> AdviceState(advice[k].status)]
ReviewerMap == [k \in Keys |-> advice[k].reviewer]
TimesApplied(k) == IF advice[k].status = "applied" THEN 1 ELSE 0
AppliedMap == [k \in Keys |-> TimesApplied(k)]

LEMMA InitAdvice ==
  AutopilotInit => AdviceAnalysed /\ ReviewedAdvice!Init
<1> SUFFICES ASSUME AutopilotInit PROVE AdviceAnalysed /\ ReviewedAdvice!Init
  OBVIOUS
<1>1. \A k \in Keys : /\ advice[k] = NoAdvice
                      /\ advice[k].status = "none" /\ advice[k].reviewer = "nobody"
  BY DEF AutopilotInit, Keys, NoAdvice
<1>2. AdviceAnalysed
  BY <1>1 DEF AdviceAnalysed
<1>3. \A k \in Weeks \X Types : AdviceState(advice[k].status) = "unasked"
  BY <1>1 DEF AdviceState, Keys
<1> QED BY <1>1, <1>2, <1>3 DEF ReviewedAdvice!Init, Keys

LEMMA AdviceStutters ==
  ASSUME UNCHANGED advice
  PROVE  UNCHANGED ReviewedAdvice!vars
BY DEF ReviewedAdvice!vars

(* Proposals that were made are asked for.                                  *)
LEMMA ProposingAsks ==
  ASSUME NEW S \in SUBSET Keys,
         \A k \in S : /\ advice[k] = NoAdvice
                       /\ advice'[k].status = "pending" /\ advice'[k].reviewer = "nobody",
         \A k \in Keys \ S : advice'[k] = advice[k]
  PROVE  ReviewedAdvice!Ask(S)
<1>1. \A k \in S : /\ AdviceState(advice[k].status) = "unasked"
                   /\ AdviceState(advice'[k].status) = "asked"
                   /\ advice'[k].reviewer = advice[k].reviewer
                   /\ TimesApplied(k)' = TimesApplied(k)
  BY DEF AdviceState, NoAdvice, TimesApplied
<1> HIDE DEF AdviceState
<1>2. \A k \in Keys \ S : /\ AdviceState(advice'[k].status) = AdviceState(advice[k].status)
                          /\ advice'[k].reviewer = advice[k].reviewer
                          /\ TimesApplied(k)' = TimesApplied(k)
  BY DEF TimesApplied
<1> HIDE DEF TimesApplied
<1>3. ReviewerMap' = ReviewerMap /\ AppliedMap' = AppliedMap
  BY <1>1, <1>2 DEF ReviewerMap, AppliedMap
<1>4. AdviceMap' = [k \in Keys |-> IF k \in S THEN "asked" ELSE AdviceMap[k]]
  BY <1>1, <1>2 DEF AdviceMap
<1>5. \A k \in S : AdviceMap[k] = "unasked"
  BY <1>1 DEF AdviceMap
<1> QED BY <1>3, <1>4, <1>5
        DEF ReviewedAdvice!Ask, AdviceMap, ReviewerMap, AppliedMap, Keys, TimesApplied

(* A step that moves one proposal moves one action of the gate.             *)
LEMMA OneMoves ==
  ASSUME NEW k \in Keys, \A j \in Keys \ {k} : advice'[j] = advice[j]
  PROVE  /\ AdviceMap' = [AdviceMap EXCEPT ![k] = AdviceState(advice'[k].status)]
         /\ ReviewerMap' = [ReviewerMap EXCEPT ![k] = advice'[k].reviewer]
         /\ AppliedMap' = [AppliedMap EXCEPT ![k] = TimesApplied(k)']
         /\ AdviceMap[k] = AdviceState(advice[k].status)
         /\ ReviewerMap[k] = advice[k].reviewer /\ AppliedMap[k] = TimesApplied(k)
<1>1. \A j \in Keys \ {k} : /\ AdviceState(advice'[j].status) = AdviceState(advice[j].status)
                            /\ TimesApplied(j)' = TimesApplied(j)
  BY DEF TimesApplied
<1> HIDE DEF AdviceState, TimesApplied
<1>2. AdviceMap' = [AdviceMap EXCEPT ![k] = AdviceState(advice'[k].status)]
  BY <1>1 DEF AdviceMap
<1>3. ReviewerMap' = [ReviewerMap EXCEPT ![k] = advice'[k].reviewer]
  BY DEF ReviewerMap
<1>4. AppliedMap' = [AppliedMap EXCEPT ![k] = TimesApplied(k)']
  BY <1>1 DEF AppliedMap
<1> QED BY <1>2, <1>3, <1>4 DEF AdviceMap, ReviewerMap, AppliedMap

(* One that staff approve is granted.                                       *)
LEMMA ApprovingGrants ==
  ASSUME NEW k \in Keys, advice[k].status = "pending",
         advice'[k].status = "approved", advice'[k].reviewer = "staff",
         \A j \in Keys \ {k} : advice'[j] = advice[j]
  PROVE  ReviewedAdvice!Grant(k, "staff")
<1>1. /\ AdviceState(advice[k].status) = "asked" /\ AdviceState(advice'[k].status) = "granted"
      /\ TimesApplied(k)' = TimesApplied(k)
  BY DEF AdviceState, TimesApplied
<1> HIDE DEF AdviceState, TimesApplied
<1>2. /\ AdviceMap[k] = "asked" /\ AdviceMap' = [AdviceMap EXCEPT ![k] = "granted"]
      /\ ReviewerMap' = [ReviewerMap EXCEPT ![k] = "staff"]
      /\ AppliedMap' = [AppliedMap EXCEPT ![k] = AppliedMap[k]]
  BY <1>1, OneMoves
<1>3. AppliedMap' = AppliedMap
  BY <1>2 DEF AppliedMap
<1> QED BY <1>2, <1>3
        DEF ReviewedAdvice!Grant, AdviceMap, ReviewerMap, AppliedMap, Keys, TimesApplied

(* One that its landlord consents to is granted and carried out, or fails,  *)
(* and one that staff had approved is carried out, or fails.                *)
LEMMA DecidingPerforms ==
  ASSUME NEW k \in Keys, Undecided(k), advice'[k].status \in {"applied", "failed"},
         advice'[k].reviewer = Applier(k),
         \A j \in Keys \ {k} : advice'[j] = advice[j]
  PROVE  ReviewedAdvice!GrantAndPerform(k, "landlord") \/ ReviewedAdvice!Perform(k)
<1>1. /\ AdviceState(advice'[k].status) = "done"
      /\ TimesApplied(k) = 0 /\ TimesApplied(k)' \in {0, 1}
  BY DEF AdviceState, TimesApplied, Undecided
<1>2. /\ advice[k].status = "pending" => AdviceState(advice[k].status) = "asked"
      /\ advice[k].status = "approved" => AdviceState(advice[k].status) = "granted"
  BY DEF AdviceState
<1> HIDE DEF AdviceState, TimesApplied
<1>3. /\ AdviceMap' = [AdviceMap EXCEPT ![k] = "done"]
      /\ ReviewerMap' = [ReviewerMap EXCEPT ![k] = Applier(k)]
      /\ AppliedMap' = [AppliedMap EXCEPT ![k] = TimesApplied(k)']
      /\ AdviceMap[k] = AdviceState(advice[k].status) /\ AppliedMap[k] = 0
      /\ ReviewerMap[k] = advice[k].reviewer
  BY <1>1, OneMoves
<1>4. AppliedMap' \in {AppliedMap, [AppliedMap EXCEPT ![k] = @ + 1]}
  <2>1. CASE TimesApplied(k)' = 0
    <3>1. AppliedMap' = [AppliedMap EXCEPT ![k] = AppliedMap[k]]
      BY <1>3, <2>1
    <3>2. AppliedMap' = AppliedMap
      BY <3>1 DEF AppliedMap
    <3> QED BY <3>2
  <2>2. CASE TimesApplied(k)' = 1
    BY <1>3, <2>2
  <2> QED BY <1>1, <2>1, <2>2
<1>5. CASE advice[k].status = "pending"
  <2>1. AdviceMap[k] = "asked" /\ ReviewerMap' = [ReviewerMap EXCEPT ![k] = "landlord"]
    BY <1>2, <1>3, <1>5 DEF Applier
  <2> QED BY <1>3, <1>4, <2>1
          DEF ReviewedAdvice!GrantAndPerform, AdviceMap, ReviewerMap, AppliedMap, Keys,
              TimesApplied
<1>6. CASE advice[k].status = "approved"
  <2>1. AdviceMap[k] = "granted" /\ ReviewerMap' = [ReviewerMap EXCEPT ![k] = ReviewerMap[k]]
    BY <1>2, <1>3, <1>6 DEF Applier
  <2>2. ReviewerMap' = ReviewerMap
    BY <2>1 DEF ReviewerMap
  <2> QED BY <1>3, <1>4, <2>1, <2>2
          DEF ReviewedAdvice!Perform, AdviceMap, ReviewerMap, AppliedMap, Keys, TimesApplied
<1> QED BY <1>5, <1>6 DEF Undecided

(* One that is closed unapplied is refused.                                 *)
LEMMA ClosingRefuses ==
  ASSUME NEW k \in Keys, NEW status \in {"rejected", "expired"},
         Undecided(k), advice'[k].status = status, advice'[k].reviewer = advice[k].reviewer,
         \A j \in Keys \ {k} : advice'[j] = advice[j]
  PROVE  ReviewedAdvice!Refuse({k})
<1>1. /\ AdviceState(advice[k].status) \in {"asked", "granted"}
      /\ AdviceState(advice'[k].status) = "refused"
      /\ TimesApplied(k)' = TimesApplied(k)
  BY DEF AdviceState, Undecided, TimesApplied
<1> HIDE DEF AdviceState, TimesApplied
<1>2. /\ AdviceMap[k] \in {"asked", "granted"}
      /\ AdviceMap' = [AdviceMap EXCEPT ![k] = "refused"]
      /\ ReviewerMap' = [ReviewerMap EXCEPT ![k] = ReviewerMap[k]]
      /\ AppliedMap' = [AppliedMap EXCEPT ![k] = AppliedMap[k]]
  BY <1>1, OneMoves
<1>3. AdviceMap' = [j \in Keys |-> IF j \in {k} THEN "refused" ELSE AdviceMap[j]]
  BY <1>2 DEF AdviceMap
<1>4. ReviewerMap' = ReviewerMap /\ AppliedMap' = AppliedMap
  BY <1>2 DEF ReviewerMap, AppliedMap
<1>5. \A j \in {k} : AdviceMap[j] \in {"asked", "granted"}
  BY <1>2
<1> QED BY <1>3, <1>4, <1>5
        DEF ReviewedAdvice!Refuse, AdviceMap, ReviewerMap, AppliedMap, Keys, TimesApplied

LEMMA AnalyzeAsks ==
  ASSUME AutopilotInv, AdviceAnalysed, NEW r \in WeeklyRuns, Analyze(r)
  PROVE  /\ AdviceAnalysed'
         /\ (\E S \in SUBSET Keys : ReviewedAdvice!Ask(S)) \/ UNCHANGED advice
<1> DEFINE week == loaded[r].week
           room == loaded[r].room
<1>1. CASE UNCHANGED <<analysed, advice>>
  BY <1>1 DEF AdviceAnalysed
<1>2. CASE ~UNCHANGED <<analysed, advice>>
  <2>1. /\ week \notin analysed /\ analysed' = analysed \cup {week}
        /\ \E wanted \in SUBSET Types :
             LET made == {type \in wanted : ~Unresolved(type)}
             IN  \E text \in [made -> Texts], adds \in [made -> SUBSET Features] :
                   advice' = [k \in Weeks \X Types |->
                     IF k[1] = week /\ k[2] \in made
                     THEN Proposal(k[2], room, text[k[2]], adds[k[2]])
                     ELSE advice[k]]
    BY <1>2 DEF Analyze
  <2>2. PICK wanted \in SUBSET Types :
             LET made == {type \in wanted : ~Unresolved(type)}
             IN  \E text \in [made -> Texts], adds \in [made -> SUBSET Features] :
                   advice' = [k \in Weeks \X Types |->
                     IF k[1] = week /\ k[2] \in made
                     THEN Proposal(k[2], room, text[k[2]], adds[k[2]])
                     ELSE advice[k]]
    BY <2>1
  <2> DEFINE made == {type \in wanted : ~Unresolved(type)}
             S == {k \in Keys : k[1] = week /\ k[2] \in made}
  <2>3. PICK text \in [made -> Texts], adds \in [made -> SUBSET Features] :
          advice' = [k \in Keys |->
            IF k[1] = week /\ k[2] \in made
            THEN Proposal(k[2], room, text[k[2]], adds[k[2]])
            ELSE advice[k]]
    BY <2>2 DEF Keys
  <2> HIDE DEF made
  <2>4. \A k \in S : advice[k] = NoAdvice
    BY <2>1 DEF AdviceAnalysed
  <2>5. \A k \in S : advice'[k].status = "pending" /\ advice'[k].reviewer = "nobody"
    BY <2>3 DEF Proposal
  <2>6. \A k \in Keys \ S : advice'[k] = advice[k]
    BY <2>3
  <2>7. AdviceAnalysed'
    BY <2>1, <2>6 DEF AdviceAnalysed
  <2> HIDE DEF S
  <2>8. S \in SUBSET Keys
    BY DEF S
  <2> QED BY <2>4, <2>5, <2>6, <2>7, <2>8, ProposingAsks
<1> QED BY <1>1, <1>2

(* Only proposals that wait are closed, so what was not proposed stays so.  *)
LEMMA ClosedWereAnalysed ==
  ASSUME AdviceAnalysed, UNCHANGED analysed, NEW k \in Keys, Undecided(k),
         \A j \in Keys \ {k} : advice'[j] = advice[j]
  PROVE  AdviceAnalysed'
BY DEF AdviceAnalysed, Undecided, NoAdvice

LEMMA ApplicationPerforms ==
  ASSUME AutopilotInv, AdviceAnalysed, NEW c \in Consents,
         ApplyText(c) \/ ApplyAmenities(c) \/ ApplyRenewal(c)
  PROVE  /\ AdviceAnalysed'
         /\ \E k \in Keys : ReviewedAdvice!GrantAndPerform(k, "landlord") \/ ReviewedAdvice!Perform(k)
<1> AutopilotTypeOK /\ Grounded
  BY DEF AutopilotInv
<1>1. consent[c] # Unused /\ Close(c, consent[c].key, "applied")
  BY DEF ApplyText, ApplyAmenities, ApplyRenewal
<1>2. PICK k \in Keys : k = consent[c].key
  BY <1>1, ConsentKey
<1>3. Undecided(k) /\ UNCHANGED analysed
  BY <1>1, <1>2 DEF Grounded, Close
<1>4. /\ advice'[k].status = "applied" /\ advice'[k].reviewer = Applier(k)
      /\ \A j \in Keys \ {k} : advice'[j] = advice[j]
  BY <1>1, <1>2 DEF Close, AutopilotTypeOK, Keys, Decided, Applier
<1> QED BY <1>3, <1>4, ClosedWereAnalysed, DecidingPerforms

LEMMA ConsentPerforms ==
  ASSUME AutopilotInv, AdviceAnalysed, NEW c \in Consents, NEW k \in Keys,
         Consent(c, k) \/ StaffApply(c, k)
  PROVE  /\ AdviceAnalysed'
         /\ \/ ReviewedAdvice!GrantAndPerform(k, "landlord") \/ ReviewedAdvice!Perform(k)
            \/ UNCHANGED advice
<1> AutopilotTypeOK /\ Undecided(k)
  BY DEF AutopilotInv, Consent, StaffApply, Undecided
<1>1. Applier(k) \in Reviewers /\ Begin(c, k, Applier(k))
  BY ReviewerKind DEF Consent, StaffApply, Applier, Reviewers
<1>2. /\ UNCHANGED analysed
      /\ \/ UNCHANGED advice
         \/ /\ advice'[k].status = "failed" /\ advice'[k].reviewer = Applier(k)
            /\ \A j \in Keys \ {k} : advice'[j] = advice[j]
  BY <1>1, BeginKeeps
<1>3. CASE UNCHANGED advice
  BY <1>2, <1>3 DEF AdviceAnalysed
<1>4. CASE ~UNCHANGED advice
  BY <1>2, <1>4, ClosedWereAnalysed, DecidingPerforms
<1> QED BY <1>3, <1>4

LEMMA ClosureRefuses ==
  ASSUME AutopilotInv, AdviceAnalysed, NEW k \in Keys, NEW status \in {"rejected", "expired"},
         CloseUnapplied(k, status)
  PROVE  AdviceAnalysed' /\ ReviewedAdvice!Refuse({k})
<1>1. Undecided(k) /\ UNCHANGED analysed
  BY DEF CloseUnapplied
<1>2. /\ advice'[k].status = status /\ advice'[k].reviewer = advice[k].reviewer
      /\ \A j \in Keys \ {k} : advice'[j] = advice[j]
  BY CloseUnappliedKeeps
<1> QED BY <1>1, <1>2, ClosedWereAnalysed, ClosingRefuses

LEMMA StepReviewed ==
  ASSUME AutopilotInv, AdviceAnalysed, [AutopilotNext]_autopilotVars
  PROVE  AdviceAnalysed' /\ [ReviewedAdvice!Next]_ReviewedAdvice!vars
<1> HIDE DEF AdviceAnalysed
<1>1. ASSUME UNCHANGED <<advice, analysed>>
      PROVE  AdviceAnalysed' /\ UNCHANGED ReviewedAdvice!vars
  BY <1>1, AdviceStutters DEF AdviceAnalysed
<1>2. CASE \E r \in WeeklyRuns : Analyze(r)
  <2>1. \A S \in SUBSET Keys : ReviewedAdvice!Ask(S) => ReviewedAdvice!Next
    BY DEF ReviewedAdvice!Next, Keys
  <2> QED BY <1>2, <2>1, AnalyzeAsks, AdviceStutters
<1>3. ASSUME NEW k \in Keys,
             \/ ReviewedAdvice!GrantAndPerform(k, "landlord") \/ ReviewedAdvice!Perform(k)
             \/ ReviewedAdvice!Grant(k, "staff")
      PROVE  ReviewedAdvice!Next
  BY <1>3 DEF ReviewedAdvice!Next, Keys
<1>4. CASE \E c \in Consents : ApplyText(c) \/ ApplyAmenities(c) \/ ApplyRenewal(c)
  BY <1>3, <1>4, ApplicationPerforms
<1>5. CASE \E c \in Consents, k \in Weeks \X Types : Consent(c, k) \/ StaffApply(c, k)
  BY <1>3, <1>5, ConsentPerforms, AdviceStutters DEF Keys
<1>11. ASSUME NEW k \in Keys, StaffApprove(k)
       PROVE  AdviceAnalysed' /\ ReviewedAdvice!Grant(k, "staff")
  <2>1. /\ advice[k].status = "pending" /\ UNCHANGED analysed
    BY <1>11 DEF StaffApprove
  <2>2. /\ advice'[k].status = "approved" /\ advice'[k].reviewer = "staff"
        /\ \A j \in Keys \ {k} : advice'[j] = advice[j]
    BY <1>11, StaffApproveKeeps
  <2>3. Undecided(k)
    BY <2>1 DEF Undecided
  <2> QED BY <2>1, <2>2, <2>3, ClosedWereAnalysed, ApprovingGrants
<1>6. CASE \E k \in Weeks \X Types, status \in {"rejected", "expired"} : CloseUnapplied(k, status)
  <2>1. PICK k \in Keys : AdviceAnalysed' /\ ReviewedAdvice!Refuse({k})
    BY <1>6, ClosureRefuses DEF Keys
  <2>2. {k} \in SUBSET (Weeks \X Types)
    BY DEF Keys
  <2> QED BY <2>1, <2>2 DEF ReviewedAdvice!Next
<1>7. CASE UNCHANGED autopilotVars
  BY <1>1, <1>7 DEF autopilotVars
<1>8. CASE \E r \in WeeklyRuns, week \in Weeks : LoadRooms(r, week)
  BY <1>1, <1>8 DEF LoadRooms
<1>9. CASE \E c \in Consents : ConsentLost(c)
  BY <1>1, <1>9 DEF ConsentLost
<1>10. CASE \E e \in Editors : Edit(e) \/ SaveEdit(e)
  BY <1>1, <1>10 DEF Edit, SaveEdit
<1>12. CASE \E k \in Weeks \X Types : StaffApprove(k)
  BY <1>3, <1>11, <1>12 DEF Keys
<1> QED BY <1>2, <1>4, <1>5, <1>6, <1>7, <1>8, <1>9, <1>10, <1>12 DEF AutopilotNext

(* The autopilot implements the review gate that the proposals of the other *)
(* agents implement: a suggestion is applied at most once, only when its    *)
(* landlord consents to it or staff have approved it, and never after it    *)
(* was refused.                                                             *)
THEOREM AutopilotRefinement ==
  AutopilotSpec => AdviceIsReviewed
<1>1. AutopilotInit => AdviceAnalysed /\ ReviewedAdvice!Init
  BY InitAdvice
<1>2. AutopilotInv /\ AdviceAnalysed /\ [AutopilotNext]_autopilotVars =>
        AdviceAnalysed' /\ [ReviewedAdvice!Next]_ReviewedAdvice!vars
  BY StepReviewed
<1> QED
  BY <1>1, <1>2, AutopilotAlways, PTL
  DEF AutopilotSpec, AdviceIsReviewed, ReviewedAdvice!Spec

(***************************************************************************)
(* Presence: a thread writes an entry of the kind it read.                 *)
(***************************************************************************)
LEMMA PrunedKind ==
  ASSUME NEW cached \in Entries
  PROVE  Pruned(cached) \in Entries
BY PresenceAssumption DEF Pruned, Entries, NoLease

Calls == {NoCall} \cup
  [does: {"mark_online", "touch", "mark_offline", "look"}, read: Entries]

LEMMA InitPresence ==
  PresenceInit => PresenceTypeOK
BY PresenceAssumption DEF PresenceInit, PresenceTypeOK, Entries, NoLease

LEMMA FetchKind ==
  ASSUME PresenceTypeOK, NEW t \in Sockets \cup Viewers,
         NEW does \in {"mark_online", "touch", "mark_offline", "look"}, Fetch(t, does)
  PROVE  call' \in [Sockets \cup Viewers -> Calls] /\ online' \in Entries
<1>1. [does |-> does, read |-> online] \in Calls
  BY DEF PresenceTypeOK, Calls
<1> QED BY <1>1 DEF Fetch, PresenceTypeOK, Calls

LEMMA StepPresence ==
  PresenceTypeOK /\ [PresenceNext]_presenceVars => PresenceTypeOK'
<1> SUFFICES ASSUME PresenceTypeOK, [PresenceNext]_presenceVars PROVE PresenceTypeOK'
  OBVIOUS
<1> USE DEF PresenceTypeOK
<1>0. ASSUME UNCHANGED presenceVars PROVE PresenceTypeOK'
  BY <1>0 DEF presenceVars
<1>1. ASSUME NEW s \in Sockets, Connect(s) PROVE PresenceTypeOK'
  <2>1. call' \in [Sockets \cup Viewers -> Calls] /\ online' \in Entries
    BY <1>1, FetchKind DEF Connect
  <2> QED BY <1>1, <2>1 DEF Connect, Calls, Beating
<1>2. ASSUME NEW s \in Sockets, Heartbeat(s) PROVE PresenceTypeOK'
  <2>1. call' \in [Sockets \cup Viewers -> Calls] /\ online' \in Entries
    BY <1>2, FetchKind DEF Heartbeat
  <2> QED BY <1>2, <2>1 DEF Heartbeat, Calls, Beating
<1>3. ASSUME NEW s \in Sockets, Disconnect(s) PROVE PresenceTypeOK'
  BY <1>3 DEF Disconnect, Beating
<1>9. ASSUME NEW s \in Sockets, Fail(s) PROVE PresenceTypeOK'
  BY <1>9 DEF Fail, Beating
<1>4. ASSUME NEW s \in Sockets, MarkOffline(s) PROVE PresenceTypeOK'
  <2>1. call' \in [Sockets \cup Viewers -> Calls] /\ online' \in Entries
    BY <1>4, FetchKind DEF MarkOffline
  <2> QED BY <1>4, <2>1 DEF MarkOffline, Calls, Beating
<1>5. ASSUME NEW s \in Sockets, Kill(s) PROVE PresenceTypeOK'
  BY <1>5 DEF Kill, Beating
<1>6. ASSUME NEW v \in Viewers, Look(v) PROVE PresenceTypeOK'
  <2>1. call' \in [Sockets \cup Viewers -> Calls] /\ online' \in Entries
    BY <1>6, FetchKind DEF Look
  <2> QED BY <1>6, <2>1 DEF Look, Calls
<1>7. ASSUME NEW t \in Sockets \cup Viewers, Return(t) PROVE PresenceTypeOK'
  <2>1. call[t].read \in Entries /\ Pruned(call[t].read) \in Entries
    <3>1. call[t].read \in Entries
      BY <1>7 DEF Return
    <3> QED BY <3>1, PrunedKind
  <2>2. Written(t) \in Entries
    <3> DEFINE cached == Pruned(call[t].read)
    <3>1. 0 \in 0 .. NoLease /\ NoLease \in 0 .. NoLease
      BY PresenceAssumption DEF NoLease
    <3>2. [cached EXCEPT ![t] = 0] \in Entries /\ [cached EXCEPT ![t] = NoLease] \in Entries
      BY <2>1, <3>1 DEF Entries
    <3> QED BY <2>1, <3>2 DEF Written
  <2>3. online' \in Entries
    BY <1>7, <2>2 DEF Return
  <2> QED BY <1>7, <2>3 DEF Return
<1>8. ASSUME PassInterval PROVE PresenceTypeOK'
  <2>1. online' \in Entries
    BY <1>8, PresenceAssumption DEF PassInterval, Entries, NoLease
  <2> QED BY <1>8, <2>1 DEF PassInterval
<1> QED BY <1>0, <1>1, <1>2, <1>3, <1>4, <1>5, <1>6, <1>7, <1>8, <1>9 DEF PresenceNext

(* No heartbeat is due of a socket that disconnected or was killed, and     *)
(* what threads write over one another stays an entry of the cache.         *)
THEOREM PresenceTyped ==
  PresenceSpec => []PresenceTypeOK
BY InitPresence, StepPresence, PTL DEF PresenceSpec

(***************************************************************************)
(* Promotions                                                              *)
(***************************************************************************)
LEMMA InitPromotions ==
  PromotionsInit => PromotionsTypeOK
BY PromotionsAssumption
   DEF PromotionsInit, PromotionsTypeOK, FreeTier, Promo, Promos, Tiers, Rank, NoPurchase, Purchase

LEMMA OlderKind ==
  ASSUME NEW p \in Promos
  PROVE  Older(p) \in Promos
BY PromotionsAssumption DEF Older, Promos

LEMMA StepPromotions ==
  PromotionsTypeOK /\ [PromotionsNext]_promoVars => PromotionsTypeOK'
<1> SUFFICES ASSUME PromotionsTypeOK, [PromotionsNext]_promoVars PROVE PromotionsTypeOK'
  OBVIOUS
<1> USE DEF PromotionsTypeOK
<1>0. ASSUME UNCHANGED promoVars PROVE PromotionsTypeOK'
  BY <1>0 DEF promoVars
<1>1. ASSUME NEW p \in Purchases, NEW tier \in Tiers \ {"free"}, Initiate(p, tier)
      PROVE  PromotionsTypeOK'
  BY <1>1 DEF Initiate, Purchase
<1>2. ASSUME NEW p \in Purchases, FailPurchase(p) PROVE PromotionsTypeOK'
  BY <1>2 DEF FailPurchase
<1>7. ASSUME NEW p \in Purchases, NEW new \in {"pending", "failed"}, SaveOpened(p, new)
      PROVE  PromotionsTypeOK'
  BY <1>7 DEF SaveOpened, Purchase
<1>3. ASSUME NEW p \in Purchases, Grant(p) PROVE PromotionsTypeOK'
  <2>1. promo' \in Promos
    BY <1>3, PromotionsAssumption DEF Grant, Promo, Promos
  <2> QED BY <1>3, <2>1 DEF Grant
<1>4. ASSUME ScanExpired \/ Revert \/ ExpiryLost \/ MailsChange PROVE PromotionsTypeOK'
  <2>1. FreeTier \in Promos
    BY PromotionsAssumption DEF FreeTier, Promo, Promos, Tiers, Rank
  <2> QED BY <1>4, <2>1 DEF ScanExpired, Revert, ExpiryLost, MailsChange
<1>5. ASSUME NEW e \in Editing, OpenDraft(e) \/ SaveDraft(e) PROVE PromotionsTypeOK'
  BY <1>5 DEF OpenDraft, SaveDraft
<1>6. ASSUME PassDay PROVE PromotionsTypeOK'
  <2>1. promo' \in Promos
    BY <1>6, OlderKind DEF PassDay
  <2>2. draft' \in [Editing -> Promos \cup {NoDraft}]
    BY <1>6, OlderKind DEF PassDay
  <2> QED BY <1>6, <2>1, <2>2 DEF PassDay
<1> QED BY <1>0, <1>1, <1>2, <1>3, <1>4, <1>5, <1>6, <1>7 DEF PromotionsNext

(* A tier never has more days left than one purchase gives.                 *)
THEOREM PromotionsTyped ==
  PromotionsSpec => []PromotionsTypeOK
BY InitPromotions, StepPromotions, PTL DEF PromotionsSpec

(***************************************************************************)
(* Alerts: one edit of the rule is under way at a time.                    *)
(***************************************************************************)
EditsWithin == ruleCopy # NoRuleCopy => alertRule.edits < MaxEdits
AlertsInv == AlertsTypeOK /\ EditsWithin

LEMMA InitAlerts ==
  AlertsInit => AlertsInv
BY AlertsAssumption DEF AlertsInit, AlertsInv, AlertsTypeOK, EditsWithin, Streaks, NoCheck,
                        AlertStatuses, NoRuleCopy

LEMMA MeasuredKind ==
  ASSUME NEW n \in Streaks
  PROVE  Measured(n) \in Streaks
BY AlertsAssumption DEF Measured, Streaks

LEMMA StepAlerts ==
  AlertsInv /\ [AlertsNext]_alertVars => AlertsInv'
<1> SUFFICES ASSUME AlertsInv, [AlertsNext]_alertVars PROVE AlertsInv'
  OBVIOUS
<1> USE DEF AlertsInv, AlertsTypeOK, EditsWithin
<1>0. ASSUME UNCHANGED alertVars PROVE AlertsInv'
  BY <1>0 DEF alertVars
<1>1. ASSUME NEW e \in Evaluations, LoadRule(e) PROVE AlertsInv'
  BY <1>1 DEF LoadRule
<1>2. ASSUME NEW e \in Evaluations, SaveStreak(e) PROVE AlertsInv'
  <2>1. Measured(check[e].breach_count) \in Streaks
    BY MeasuredKind
  <2>2. NoCheck \in [at: {"nothing", "loaded", "counted", "uncovered", "due"}, breach_count: Streaks]
    BY AlertsAssumption DEF NoCheck, Streaks
  <2>3. alertRule' \in [breach_count : Streaks, edits : 0 .. MaxEdits] /\ alertRule'.edits = alertRule.edits
    BY <1>2, <2>1 DEF SaveStreak
  <2>4. check' \in [Evaluations ->
          [at: {"nothing", "loaded", "counted", "uncovered", "due"}, breach_count: Streaks]]
    BY <1>2, <2>1, <2>2 DEF SaveStreak
  <2> QED BY <1>2, <2>3, <2>4 DEF SaveStreak
<1>3. ASSUME NEW e \in Evaluations, FindOpen(e) \/ CheckCooldown(e) PROVE AlertsInv'
  <2>1. NoCheck \in [at: {"nothing", "loaded", "counted", "uncovered", "due"}, breach_count: Streaks]
    BY AlertsAssumption DEF NoCheck, Streaks
  <2>2. check' \in [Evaluations ->
          [at: {"nothing", "loaded", "counted", "uncovered", "due"}, breach_count: Streaks]]
    BY SMTT(30), <1>3, <2>1 DEF FindOpen, CheckCooldown
  <2> QED BY <1>3, <2>2 DEF FindOpen, CheckCooldown
<1>4. ASSUME NEW e \in Evaluations, NEW a \in AlertIds, Trigger(e, a) PROVE AlertsInv'
  <2>1. NoCheck \in [at: {"nothing", "loaded", "counted", "uncovered", "due"}, breach_count: Streaks]
    BY AlertsAssumption DEF NoCheck, Streaks
  <2>2. cooling' \in 0 .. Cooldown
    BY <1>4, AlertsAssumption DEF Trigger
  <2>3. alert' \in [AlertIds -> AlertStatuses]
    BY <1>4 DEF Trigger, AlertStatuses
  <2>4. check' \in [Evaluations ->
          [at: {"nothing", "loaded", "counted", "uncovered", "due"}, breach_count: Streaks]]
    BY <1>4, <2>1 DEF Trigger
  <2> QED BY <1>4, <2>2, <2>3, <2>4 DEF Trigger
<1>5. ASSUME NEW h \in Handlers, NEW a \in AlertIds, NEW to \in {"acknowledged", "closed"},
             ReadAlert(h, a, to)
      PROVE  AlertsInv'
  <2>1. handling' \in [Handlers -> {NoHandling} \cup
          [does: {"saves"}, id: AlertIds, status: {"acknowledged", "closed"}]]
    BY <1>5 DEF ReadAlert
  <2> QED BY <1>5, <2>1 DEF ReadAlert
<1>6. ASSUME NEW h \in Handlers, SaveAlert(h) PROVE AlertsInv'
  BY <1>6 DEF SaveAlert, AlertStatuses
<1>7. ASSUME ReadRule PROVE AlertsInv'
  BY <1>7 DEF ReadRule
<1>8. ASSUME SaveRule PROVE AlertsInv'
  <2>1. alertRule' \in [breach_count : Streaks, edits : 0 .. MaxEdits]
    BY <1>8, AlertsAssumption DEF SaveRule
  <2> QED BY <1>8, <2>1 DEF SaveRule
<1>9. ASSUME MetricMoves PROVE AlertsInv'
  BY <1>9 DEF MetricMoves
<1>10. ASSUME CoolDown PROVE AlertsInv'
  <2>1. cooling' \in 0 .. Cooldown
    BY <1>10, AlertsAssumption DEF CoolDown
  <2> QED BY <1>10, <2>1 DEF CoolDown
<1> QED BY <1>0, <1>1, <1>2, <1>3, <1>4, <1>5, <1>6, <1>7, <1>8, <1>9, <1>10
       DEF AlertsNext, CheckBegins, CheckStep

(* A streak never counts past the number of checks it is compared with.     *)
THEOREM AlertsTyped ==
  AlertsSpec => []AlertsTypeOK
<1>1. AlertsInv => AlertsTypeOK
  BY DEF AlertsInv
<1> QED BY <1>1, InitAlerts, StepAlerts, PTL DEF AlertsSpec

(***************************************************************************)
(* Evaluation runs                                                         *)
(***************************************************************************)
LEMMA InitEvaluations ==
  EvaluationsInit => EvaluationsTypeOK
BY DEF EvaluationsInit, EvaluationsTypeOK

LEMMA StepEvaluations ==
  EvaluationsTypeOK /\ [EvaluationsNext]_evaluationVars => EvaluationsTypeOK'
<1> SUFFICES ASSUME EvaluationsTypeOK, [EvaluationsNext]_evaluationVars PROVE EvaluationsTypeOK'
  OBVIOUS
<1> USE DEF EvaluationsTypeOK
<1>0. ASSUME UNCHANGED evaluationVars PROVE EvaluationsTypeOK'
  BY <1>0 DEF evaluationVars
<1>1. ASSUME NEW x \in Executions, NEW n \in Evaluated, LoadEvaluation(x, n)
      PROVE  EvaluationsTypeOK'
  BY <1>1 DEF LoadEvaluation
<1>2. ASSUME NEW x \in Executions, StartEvaluation(x) PROVE EvaluationsTypeOK'
  BY <1>2 DEF StartEvaluation, NoExecution
<1>3. ASSUME NEW x \in Executions, ExecutionDies(x) PROVE EvaluationsTypeOK'
  BY <1>3 DEF ExecutionDies
<1>4. ASSUME NEW x \in Executions, NEW outcome \in {"completed", "failed"}, EndEvaluation(x, outcome)
      PROVE  EvaluationsTypeOK'
  BY <1>4 DEF EndEvaluation, NoExecution
<1>5. ASSUME NEW c \in Cancels, SaveCancelled(c) PROVE EvaluationsTypeOK'
  BY <1>5 DEF SaveCancelled
<1>6. ASSUME NEW c \in Cancels, NEW n \in Evaluated, ReadForCancel(c, n) PROVE EvaluationsTypeOK'
  BY <1>6 DEF ReadForCancel
<1>7. ASSUME FindStale PROVE EvaluationsTypeOK'
  BY <1>7 DEF FindStale
<1>8. ASSUME NEW n \in Evaluated, SaveStale(n) PROVE EvaluationsTypeOK'
  BY <1>8 DEF SaveStale
<1>9. ASSUME NEW n \in Evaluated, HourPasses(n) PROVE EvaluationsTypeOK'
  BY ZenonT(40), <1>9 DEF HourPasses
<1> QED BY <1>0, <1>1, <1>2, <1>3, <1>4, <1>5, <1>6, <1>7, <1>8, <1>9 DEF EvaluationsNext

(* Executions, cancellations and the task work on runs that exist.          *)
THEOREM EvaluationsTyped ==
  EvaluationsSpec => []EvaluationsTypeOK
BY InitEvaluations, StepEvaluations, PTL DEF EvaluationsSpec

(***************************************************************************)
(* All of them.  A step of the offices is a step of one part and leaves the *)
(* others alone, so each part behaves as it does by itself.                 *)
(***************************************************************************)
LEMMA TradeIsEarnings ==
  ASSUME NEW sold \in SUBSET Deals, Trade(sold)
  PROVE  EarningsNext
<1>1. \A w \in Workers : Serve(w, sold) => Serve(w, Deals)
  BY DEF Serve
<1> QED BY <1>1 DEF Trade, EarningsNext

LEMMA EachPartSteps ==
  ASSUME [OfficesNext]_officesVars
  PROVE  /\ [Next]_vars /\ [LeasesNext]_leaseVars /\ [EarningsNext]_earningVars
         /\ [AutopilotNext]_autopilotVars /\ [PresenceNext]_presenceVars
         /\ [PromotionsNext]_promoVars /\ [AlertsNext]_alertVars
         /\ [EvaluationsNext]_evaluationVars /\ [DisputesNext]_disputeVars
<1>1. CASE UNCHANGED officesVars
  BY <1>1 DEF officesVars
<1>2. CASE desk \in DOMAIN Trades /\ Trade(Trades[desk]) /\ Elsewhere
  <2>1. desk \in {"bookings", "orders", "policies"}
    BY <1>2 DEF Trades
  <2>2. Trades[desk] \in SUBSET Deals
    BY <2>1 DEF Trades, Deals
  <2>3. EarningsNext
    BY <1>2, <2>2, TradeIsEarnings
  <2> QED BY <1>2, <2>1, <2>3 DEF Elsewhere
<1>3. CASE OfficesNext /\ ~(desk \in DOMAIN Trades /\ Trade(Trades[desk]) /\ Elsewhere)
  BY <1>3 DEF OfficesNext, Elsewhere, Trades
<1> QED BY <1>1, <1>2, <1>3

LEMMA EachPartAlone ==
  OfficesSpec => /\ Spec /\ LeasesSpec /\ EarningsSpec /\ AutopilotSpec /\ PresenceSpec
                 /\ PromotionsSpec /\ AlertsSpec /\ EvaluationsSpec /\ DisputesSpec
<1>1. OfficesInit => /\ Init /\ EarningsInit /\ AutopilotInit /\ PresenceInit
                     /\ PromotionsInit /\ LeasesInit /\ AlertsInit /\ EvaluationsInit
                     /\ DisputesInit
  BY DEF OfficesInit
<1> QED BY <1>1, EachPartSteps, PTL
       DEF OfficesSpec, Spec, LeasesSpec, EarningsSpec, AutopilotSpec, PresenceSpec,
           PromotionsSpec, AlertsSpec, EvaluationsSpec, DisputesSpec

(* Every variable of every part holds a value of its kind.                  *)
THEOREM OfficesTyped ==
  OfficesSpec => []OfficesTypeOK
BY EachPartAlone, TypeCorrect, LeasesTyped, EarningsTyped, AutopilotTyped, PresenceTyped,
   PromotionsTyped, AlertsTyped, EvaluationsTyped, DisputesTyped, PTL DEF OfficesTypeOK

(* The safety properties of the parts hold of the offices together.         *)
THEOREM OfficesSafe ==
  OfficesSpec => /\ []BilledToTheEnd /\ []LedgerMatches /\ []AuditTellsStatus
                 /\ LaterEditsKept /\ AdviceIsReviewed
BY EachPartAlone, EveryMonthBilled, LedgerIsRight, AuditIsTrue, LandlordsEditsStay,
   AutopilotRefinement, PTL
=============================================================================
