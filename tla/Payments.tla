------------------------------ MODULE Payments ------------------------------
(***************************************************************************)
(* payments/views.py: a payment from the opening of its gateway session to  *)
(* its settlement and refund, and the deposit columns of its booking.       *)
(* Callbacks of SSLCommerz and bKash are delivered by the payer's browser:  *)
(* any number of times, late, and concurrently.  Each names a payment       *)
(* (tran_id) and a checkout (val_id, paymentID); the gateways are modelled  *)
(* by what the code asks them about that checkout.                          *)
(***************************************************************************)
EXTENDS Naturals, Sequences

CONSTANTS
  Payments,   \* rows of payments_payment a tenant creates
  Bookings,   \* approved bookings they are for
  Entries,    \* installments of each booking's schedule: 1..Entries by due date
  Handlers,   \* requests being served
  Method,     \* payment -> "sslcommerz" | "bkash"
  Kind,       \* payment -> "rent" | "deposit"
  BookingOf,  \* payment -> booking
  Amount,     \* payment -> Payment.amount
  Sums,       \* amounts a gateway may report
  ReExecute,  \* what bKash may answer to a second execute of one checkout
  MaxFaults,  \* bound on worker crashes and lost gateway responses
  None

ASSUME ConstantsAssumption ==
  /\ Method \in [Payments -> {"sslcommerz", "bkash"}]
  /\ Kind \in [Payments -> {"rent", "deposit"}]
  /\ BookingOf \in [Payments -> Bookings]
  /\ Amount \in [Payments -> Sums]
  /\ Entries \in Nat /\ MaxFaults \in Nat
  /\ ReExecute \subseteq {"completed", "refused"}
  /\ None \notin Payments \cup Bookings \cup Handlers \cup Nat \cup Sums

VARIABLES
  status,    \* Payment.status; "none" before the row exists
  log,       \* PaymentAuditLog: <<old, new>> per payment, oldest first
  schedule,  \* PaymentSchedule.payment of every installment
  settledBy, \* gateway_transaction_id: the checkout that settled the payment
  opening,   \* how far the request that opens each payment's session is
  raced,     \* history: payments whose opening request wrote over a callback,
             \* or died between its status and its audit row
  flags,     \* security_deposit_paid / _refunded of every booking
  copies,    \* flags of the booking rows that PATCH requests have loaded
  decided,   \* bookings whose deposit a dispute's resolution returned
  stale,     \* history: bookings that a PATCH saved from an old copy
  gateway,   \* checkout at the gateway: "none", "open", "paid", "executed"
  sum,       \* amount the gateway reports for a paid checkout, None if it has none
  refunds,   \* full refunds the gateway carried out
  lock,      \* holder of each payment's FOR UPDATE lock
  handler,   \* what each request is doing
  faults     \* crashes and lost responses so far

session == <<opening, raced>>
booking == <<flags, copies, decided, stale>>
rows == <<status, log, schedule, settledBy, session, booking>>
world == <<gateway, sum, refunds>>
vars == <<rows, world, lock, handler, faults>>

Terminal == {"success", "failed", "cancelled", "refunded"}
Statuses == {"none", "initiated", "pending"} \cup Terminal
Opening == {"none", "calling", "opened", "refused", "pending", "failed", "done"}
Flags == [paid : BOOLEAN, refunded : BOOLEAN]
Serving(pc, p, q, verdict, entry) ==
  [pc |-> pc, p |-> p, q |-> q, verdict |-> verdict, entry |-> entry]
Idle == Serving("idle", None, None, FALSE, None)

(* The money of the checkout opened for q has left its payer.               *)
Captured(q) == IF Method[q] = "sslcommerz" THEN gateway[q] \in {"paid", "executed"}
                                           ELSE gateway[q] = "executed"

Init ==
  /\ status = [p \in Payments |-> "none"]
  /\ log = [p \in Payments |-> <<>>]
  /\ schedule = [b \in Bookings |-> [e \in 1..Entries |-> None]]
  /\ settledBy = [p \in Payments |-> None]
  /\ opening = [p \in Payments |-> "none"]
  /\ raced = {}
  /\ flags = [b \in Bookings |-> [paid |-> FALSE, refunded |-> FALSE]]
  /\ copies = [b \in Bookings |-> {}]
  /\ decided = {}
  /\ stale = {}
  /\ gateway = [p \in Payments |-> "none"]
  /\ sum = [p \in Payments |-> None]
  /\ refunds = [p \in Payments |-> 0]
  /\ lock = [p \in Payments |-> None]
  /\ handler = [h \in Handlers |-> Idle]
  /\ faults = 0

(* transition_status: the status, and an audit row when it changes.         *)
Bug_TransitionReadsNew(p, new) == \* compares with the status just assigned
  status' = [status EXCEPT ![p] = new] /\ log' = log
Transition(p, new) ==
  /\ status' = [status EXCEPT ![p] = new]
  /\ log' = IF status[p] = new THEN log
            ELSE [log EXCEPT ![p] = Append(@, <<status[p], new>>)]

Become(h, request) == handler' = [handler EXCEPT ![h] = request]
Goto(h, pc) == Become(h, Serving(pc, handler[h].p, handler[h].q, FALSE, None))
Finish(h) == Become(h, Idle)
Release(p) == lock' = [lock EXCEPT ![p] = None]
Fault == faults < MaxFaults /\ faults' = faults + 1
OpeningAt(p, stage) == opening' = [opening EXCEPT ![p] = stage]

-----------------------------------------------------------------------------
(* Starting a payment: the row is committed, then the gateway is called,    *)
Initiate(p) ==
  /\ status[p] = "none"
  /\ status' = [status EXCEPT ![p] = "initiated"]
  /\ OpeningAt(p, "calling")
  /\ UNCHANGED <<log, schedule, settledBy, raced, booking, world, lock, handler, faults>>

GatewayAnswers(p) ==
  /\ opening[p] = "calling"
  /\ \E answer \in {"opened", "refused"} : OpeningAt(p, answer)
  /\ UNCHANGED <<status, log, schedule, settledBy, raced, booking, world, lock, handler, faults>>

(* then transition_status saves the new status whatever the row holds now,  *)
Bug_SaveSession(p, new) == \* a status that is not one of the choices
  /\ opening[p] = "opened" /\ new = "pending" /\ lock[p] = None
  /\ status' = [status EXCEPT ![p] = "processing"]
  /\ OpeningAt(p, new)
  /\ raced' = IF status[p] = "initiated" THEN raced ELSE raced \cup {p}
  /\ UNCHANGED <<log, schedule, settledBy, booking, world, lock, handler, faults>>
SaveSession(p, new) ==
  /\ <<opening[p], new>> \in {<<"opened", "pending">>, <<"refused", "failed">>}
  /\ lock[p] = None
  /\ status' = [status EXCEPT ![p] = new]
  /\ OpeningAt(p, new)
  /\ raced' = IF status[p] = "initiated" THEN raced ELSE raced \cup {p}
  /\ UNCHANGED <<log, schedule, settledBy, booking, world, lock, handler, faults>>

(* and, in a commit of its own, logs the transition from the status it had  *)
(* in memory.  The answer hands the checkout's address to the payer.        *)
LogSession(p) ==
  LET new == opening[p] IN
  /\ new \in {"pending", "failed"}
  /\ log' = [log EXCEPT ![p] = Append(@, <<"initiated", new>>)]
  /\ OpeningAt(p, "done")
  /\ raced' = IF status[p] = new THEN raced ELSE raced \cup {p}
  /\ gateway' = IF new = "pending" THEN [gateway EXCEPT ![p] = "open"] ELSE gateway
  /\ UNCHANGED <<status, schedule, settledBy, booking, sum, refunds, lock, handler, faults>>

(* The request dies, or the gateway's answer lacks the address it needs.    *)
OpeningDies(p) ==
  /\ opening[p] \notin {"none", "done"}
  /\ Fault
  /\ OpeningAt(p, "done")
  /\ raced' = IF opening[p] \in {"pending", "failed"} THEN raced \cup {p} ELSE raced
  /\ UNCHANGED <<status, log, schedule, settledBy, booking, world, lock, handler>>

(* The payer completes the checkout, whatever the browser reported before.  *)
Pay(q) ==
  /\ gateway[q] = "open"
  /\ gateway' = [gateway EXCEPT ![q] = "paid"]
  /\ \E s \in Sums \cup {None} : sum' = [sum EXCEPT ![q] = s]
  /\ UNCHANGED <<rows, refunds, lock, handler, faults>>

-----------------------------------------------------------------------------
(* The fail and cancel callbacks, one locked transaction each.              *)
Bug_BrowserReturnAnyStatus(p, outcome) == \* no TERMINAL_STATUSES check
  /\ status[p] # "none" /\ lock[p] = None
  /\ outcome \in {"failed", "cancelled"}
  /\ Transition(p, outcome)
  /\ UNCHANGED <<schedule, settledBy, session, booking, world, lock, handler, faults>>
BrowserReturn(p, outcome) ==
  /\ lock[p] = None
  /\ status[p] \notin {"none"} \cup Terminal
  /\ outcome \in {"failed", "cancelled"}
  /\ Transition(p, outcome)
  /\ UNCHANGED <<schedule, settledBy, session, booking, world, lock, handler, faults>>

(* A success (SSLCommerz) or checkout (bKash) callback, past its fast path. *)
(* The checkout q need not be the one that was opened for the payment p; it *)
(* tells which of the two gateways the callback is of.                      *)
CallbackArrives(h, p, q) ==
  /\ handler[h].pc = "idle"
  /\ status[p] \notin {"none"} \cup Terminal
  /\ Become(h, Serving("asking", p, q, FALSE, None))
  /\ UNCHANGED <<rows, world, lock, faults>>

Settling(h, verdict) ==
  Become(h, Serving("settling", handler[h].p, handler[h].q, verdict, None))

(* validate_payment / query_payment: the gateway's word on the checkout, or *)
(* an error that leaves the payment as it is.                               *)
Ask(h) ==
  LET q == handler[h].q
      completed == gateway[q] \in {"paid", "executed"} IN
  /\ handler[h].pc = "asking"
  /\ \/ Finish(h)
     \/ completed /\ Method[q] = "bkash" /\ Goto(h, "executing")
     \/ ~completed /\ Settling(h, FALSE)
     \/ completed /\ Method[q] = "sslcommerz" /\ Settling(h, TRUE)
  /\ UNCHANGED <<rows, world, lock, faults>>

(* execute_payment: captures an authorised checkout or refuses it; a second *)
(* one is answered as bKash sees fit.                                       *)
Execute(h) ==
  LET q == handler[h].q IN
  /\ handler[h].pc = "executing"
  /\ \E answer \in IF gateway[q] = "executed" THEN ReExecute ELSE {"completed", "refused"} :
       /\ gateway' = IF answer = "completed" THEN [gateway EXCEPT ![q] = "executed"]
                                            ELSE gateway
       /\ Settling(h, answer = "completed")
  /\ UNCHANGED <<rows, sum, refunds, lock, faults>>

(* A BkashError from execute: not carried out, or carried out unheard.      *)
ExecuteLost(h) ==
  LET q == handler[h].q IN
  /\ handler[h].pc = "executing"
  /\ Fault
  /\ gateway' \in {gateway, [gateway EXCEPT ![q] = "executed"]}
  /\ Finish(h)
  /\ UNCHANGED <<rows, sum, refunds, lock>>

-----------------------------------------------------------------------------
Unlinked(b) == {e \in 1..Entries : schedule[b][e] = None}
IsOldest(e, S) == IF S = {} THEN e = None ELSE e \in S /\ \A f \in S : e <= f

(* The gateway's amount for q agrees with the payment, or there is none.    *)
Agrees(p, q) == sum[q] \in {Amount[p], None}

(* The locked half of a callback.  A payment settled meanwhile is left      *)
(* alone; a refused or mismatching one fails; otherwise the transaction     *)
(* goes on, having read the oldest installment nobody has paid.             *)
SettleDrops(h) ==
  LET p == handler[h].p IN
  /\ handler[h].pc = "settling" /\ lock[p] = None
  /\ status[p] \in Terminal
  /\ Finish(h)
  /\ UNCHANGED <<rows, world, lock, faults>>

SettleFails(h) ==
  LET p == handler[h].p IN
  /\ handler[h].pc = "settling" /\ lock[p] = None
  /\ status[p] \notin Terminal
  /\ ~(handler[h].verdict /\ Agrees(p, handler[h].q))
  /\ Transition(p, "failed")
  /\ Finish(h)
  /\ UNCHANGED <<schedule, settledBy, session, booking, world, lock, faults>>

Bug_SettleTrustsCallback(h) == \* the gateway's verdict is not looked at
  LET p == handler[h].p IN
  /\ handler[h].pc = "settling" /\ lock[p] = None
  /\ status[p] \notin Terminal
  /\ lock' = [lock EXCEPT ![p] = h]
  /\ \E e \in (1..Entries) \cup {None} :
       /\ IsOldest(e, Unlinked(BookingOf[p]))
       /\ Become(h, Serving("committing", p, handler[h].q, TRUE, e))
  /\ UNCHANGED <<rows, world, faults>>
SettleSucceeds(h) ==
  LET p == handler[h].p IN
  /\ handler[h].pc = "settling" /\ lock[p] = None
  /\ status[p] \notin Terminal
  /\ handler[h].verdict /\ Agrees(p, handler[h].q)
  /\ lock' = [lock EXCEPT ![p] = h]
  /\ \E e \in (1..Entries) \cup {None} :
       /\ IsOldest(e, Unlinked(BookingOf[p]))
       /\ Become(h, Serving("committing", p, handler[h].q, TRUE, e))
  /\ UNCHANGED <<rows, world, faults>>

(* SUCCESS, the gateway's id and the side effects become visible together.  *)
Bug_CommitWithoutEffects(h) == \* the side effects left out of the transaction
  LET p == handler[h].p IN
  /\ handler[h].pc = "committing"
  /\ Transition(p, "success") /\ Release(p) /\ Finish(h)
  /\ settledBy' = [settledBy EXCEPT ![p] = handler[h].q]
  /\ UNCHANGED <<schedule, session, booking, world, faults>>
Commit(h) ==
  LET p == handler[h].p
      b == BookingOf[p]
      e == handler[h].entry IN
  /\ handler[h].pc = "committing"
  /\ Transition(p, "success")
  /\ settledBy' = [settledBy EXCEPT ![p] = handler[h].q]
  /\ schedule' = IF Kind[p] = "rent" /\ e # None
                   THEN [schedule EXCEPT ![b][e] = p] ELSE schedule
  /\ flags' = IF Kind[p] = "deposit" THEN [flags EXCEPT ![b].paid = TRUE] ELSE flags
  /\ Release(p)
  /\ Finish(h)
  /\ UNCHANGED <<session, copies, decided, stale, world, faults>>

-----------------------------------------------------------------------------
(* The landlord's refund: checked, locked, checked again, sent to the       *)
(* gateway with the lock held, recorded.                                    *)
RefundArrives(h, p) ==
  /\ handler[h].pc = "idle"
  /\ status[p] = "success"
  /\ Become(h, Serving("refunding", p, None, FALSE, None))
  /\ UNCHANGED <<rows, world, lock, faults>>

Bug_RefundUnchecked(h) == \* the status is not read again under the lock
  LET p == handler[h].p IN
  /\ handler[h].pc = "refunding" /\ lock[p] = None
  /\ lock' = [lock EXCEPT ![p] = h] /\ Goto(h, "calling")
  /\ UNCHANGED <<rows, world, faults>>
RefundLock(h) ==
  LET p == handler[h].p IN
  /\ handler[h].pc = "refunding" /\ lock[p] = None
  /\ IF status[p] = "success"
       THEN lock' = [lock EXCEPT ![p] = h] /\ Goto(h, "calling")
       ELSE lock' = lock /\ Finish(h)
  /\ UNCHANGED <<rows, world, faults>>

RefundDone(h) ==
  LET p == handler[h].p IN
  /\ handler[h].pc = "calling"
  /\ refunds' = [refunds EXCEPT ![p] = @ + 1]
  /\ Goto(h, "recording")
  /\ UNCHANGED <<rows, gateway, sum, lock, faults>>

(* The gateway refuses (502), or refunds and its answer is lost (502 too).  *)
Bug_RefundRefusedLeaksLock(h) == \* a lock that outlives the transaction
  /\ handler[h].pc = "calling"
  /\ Finish(h)
  /\ UNCHANGED <<rows, world, lock, faults>>
RefundRefused(h) ==
  /\ handler[h].pc = "calling"
  /\ Release(handler[h].p) /\ Finish(h)
  /\ UNCHANGED <<rows, world, faults>>

RefundLost(h) ==
  LET p == handler[h].p IN
  /\ handler[h].pc = "calling"
  /\ Fault
  /\ refunds' = [refunds EXCEPT ![p] = @ + 1]
  /\ Release(p) /\ Finish(h)
  /\ UNCHANGED <<rows, gateway, sum>>

RefundRecord(h) ==
  LET p == handler[h].p
      b == BookingOf[p] IN
  /\ handler[h].pc = "recording"
  /\ Transition(p, "refunded")
  /\ flags' = IF Kind[p] = "deposit" THEN [flags EXCEPT ![b].refunded = TRUE] ELSE flags
  /\ Release(p) /\ Finish(h)
  /\ UNCHANGED <<schedule, settledBy, session, copies, decided, stale, world, faults>>

(* A worker dies: its open transaction, and with it its lock, is gone.      *)
Crash(h) ==
  /\ handler[h].pc # "idle"
  /\ Fault
  /\ Finish(h)
  /\ lock' = [p \in Payments |-> IF lock[p] = h THEN None ELSE lock[p]]
  /\ UNCHANGED <<rows, world>>

-----------------------------------------------------------------------------
(* The other writers of the deposit columns.  A PATCH of the booking saves  *)
(* the whole row from a copy it loaded without a lock; any number of them   *)
(* may hold the same copy.                                                  *)
LoadBooking(b) ==
  /\ copies' = [copies EXCEPT ![b] = @ \cup {flags[b]}]
  /\ UNCHANGED <<status, log, schedule, settledBy, session, flags, decided, stale,
                 world, lock, handler, faults>>
SaveBooking(b, copy) ==
  /\ copy \in copies[b]
  /\ flags' = [flags EXCEPT ![b] = copy]
  /\ stale' = IF copy = flags[b] THEN stale ELSE stale \cup {b}
  /\ UNCHANGED <<status, log, schedule, settledBy, session, copies, decided,
                 world, lock, handler, faults>>

(* A dispute resolved with a decision on the deposit.                       *)
DecideDeposit(b) ==
  /\ flags' = [flags EXCEPT ![b].refunded = TRUE]
  /\ decided' = decided \cup {b}
  /\ UNCHANGED <<status, log, schedule, settledBy, session, copies, stale,
                 world, lock, handler, faults>>

-----------------------------------------------------------------------------
CallbackStep(h) ==
  Ask(h) \/ Execute(h) \/ SettleDrops(h) \/ SettleFails(h) \/ SettleSucceeds(h) \/ Commit(h)
RefundStep(h) ==
  RefundLock(h) \/ RefundDone(h) \/ RefundRefused(h) \/ RefundRecord(h)

OpeningStep(p) ==
  \/ Initiate(p) \/ GatewayAnswers(p) \/ LogSession(p) \/ OpeningDies(p)
  \/ \E new \in {"pending", "failed"} : SaveSession(p, new)
BookingStep(b) ==
  LoadBooking(b) \/ DecideDeposit(b) \/ \E copy \in Flags : SaveBooking(b, copy)

Next ==
  \/ \E p \in Payments :
       \/ OpeningStep(p) \/ Pay(p)
       \/ \E outcome \in {"failed", "cancelled"} : BrowserReturn(p, outcome)
  \/ \E b \in Bookings : BookingStep(b)
  \/ \E h \in Handlers :
       \/ \E p \in Payments : RefundArrives(h, p) \/ \E q \in Payments : CallbackArrives(h, p, q)
       \/ CallbackStep(h) \/ RefundStep(h)
       \/ ExecuteLost(h) \/ RefundLost(h) \/ Crash(h)

Spec == Init /\ [][Next]_vars

(* A request under way keeps running; lock waiters are served in turn.      *)
FairSpec == Spec /\ \A h \in Handlers : SF_vars(CallbackStep(h) \/ RefundStep(h))

-----------------------------------------------------------------------------
Handler == [pc: {"idle", "asking", "executing", "settling", "committing",
                 "refunding", "calling", "recording"},
            p: Payments \cup {None}, q: Payments \cup {None},
            verdict: BOOLEAN, entry: (1..Entries) \cup {None}]

(* Every variable holds a value of its kind, and a request under way names  *)
(* its payment, and a callback its checkout.                                *)
TypeOK ==
  /\ status \in [Payments -> Statuses]
  /\ log \in [Payments -> Seq(Statuses \X Statuses)]
  /\ schedule \in [Bookings -> [1..Entries -> Payments \cup {None}]]
  /\ settledBy \in [Payments -> Payments \cup {None}]
  /\ opening \in [Payments -> Opening]
  /\ raced \subseteq Payments
  /\ flags \in [Bookings -> Flags]
  /\ copies \in [Bookings -> SUBSET Flags]
  /\ decided \subseteq Bookings
  /\ stale \subseteq Bookings
  /\ gateway \in [Payments -> {"none", "open", "paid", "executed"}]
  /\ sum \in [Payments -> Sums \cup {None}]
  /\ refunds \in [Payments -> Nat]
  /\ lock \in [Payments -> Handlers \cup {None}]
  /\ handler \in [Handlers -> Handler]
  /\ faults \in Nat
  /\ \A h \in Handlers :
       /\ handler[h].pc # "idle" => handler[h].p \in Payments
       /\ handler[h].pc \in {"asking", "executing", "settling", "committing"} =>
            handler[h].q \in Payments

(* "Once a payment leaves initiated/pending, no callback may mutate it      *)
(* further": a settled payment moves from success to refunded, or when the  *)
(* request that opened its session saves over what a callback committed.    *)
SettledIsFinal ==
  [][\A p \in Payments : status[p] \in Terminal =>
       \/ status'[p] = status[p]
       \/ status[p] = "success" /\ status'[p] = "refunded"
       \/ opening[p] \in {"opened", "refused"} /\ opening'[p] = status'[p]]_vars

(* A payment counts as successful only if the gateway took the money of     *)
(* some checkout for it, in the payment's amount unless its answer has none.*)
PaidBy(p, q) == Captured(q) /\ Agrees(p, q)
SuccessIsPaid ==
  \A p \in Payments :
    status[p] \in {"success", "refunded"} =>
      settledBy[p] \in Payments /\ PaidBy(p, settledBy[p])

(* Not true: a payment is settled by the checkout that was opened for it,   *)
(* and a checkout settles one payment ("so a validated-but-mismatched       *)
(* transaction can't be misapplied", views.py:824).  A callback's val_id or *)
(* paymentID is compared with nothing the payment keeps.                    *)
SettledByOwnCheckout == \A p \in Payments : settledBy[p] \in {p, None}

(* The audit trail of a payment is one unbroken chain of transitions from   *)
(* "initiated" to the status it has now, without a repeated one, unless the *)
(* request that opened its session raced a callback or is yet to log.       *)
Chained(p) ==
  LET n == Len(log[p]) IN
  /\ \A k \in 1..n : log[p][k][1] = IF k = 1 THEN "initiated" ELSE log[p][k - 1][2]
  /\ status[p] = IF n = 0 THEN "initiated" ELSE log[p][n][2]
  /\ n <= 3
AuditChain ==
  \A p \in Payments \ raced :
    status[p] # "none" /\ opening[p] \notin {"pending", "failed"} => Chained(p)

(* A booking's deposit flags follow the trails of its deposit payments and  *)
(* the decisions of its disputes, until a PATCH saves an old copy of them;  *)
(* and no copy ever makes a deposit read as paid, or returned, that never   *)
(* was.                                                                     *)
Reached(p, new) == \E k \in 1..Len(log[p]) : log[p][k][2] = new
DepositReached(b, new) ==
  \E p \in Payments : BookingOf[p] = b /\ Kind[p] = "deposit" /\ Reached(p, new)
DepositFollowsPayments ==
  \A b \in Bookings :
    /\ flags[b].paid => DepositReached(b, "success")
    /\ flags[b].refunded => DepositReached(b, "refunded") \/ b \in decided
    /\ b \notin stale =>
         /\ DepositReached(b, "success") => flags[b].paid
         /\ DepositReached(b, "refunded") \/ b \in decided => flags[b].refunded

(* Not true: refunds never exceed what was paid, one full refund a payment. *)
RefundWithinPaid == \A p \in Payments : refunds[p] <= 1

(* However many requests race, only a lost answer or a dead worker can make *)
(* the gateway refund a payment once more, unless its session's opening     *)
(* wrote over a callback (the payment may then be settled again).           *)
RefundOncePerFault == \A p \in Payments \ raced : refunds[p] <= 1 + faults

(* An installment is linked to a payment once, and never to another.        *)
InstallmentLinkedOnce ==
  [][\A b \in Bookings, e \in 1..Entries :
       schedule[b][e] # None => schedule'[b][e] = schedule[b][e]]_vars

(* Not true: money the gateway took is never written off as failed or       *)
(* cancelled.                                                               *)
CapturedNotDropped ==
  \A p \in Payments :
    Captured(p) /\ sum[p] = Amount[p] => status[p] \notin {"failed", "cancelled"}

(* Every callback and refund request is answered.                           *)
RequestsAnswered == \A h \in Handlers : handler[h].pc # "idle" ~> handler[h].pc = "idle"
=============================================================================
