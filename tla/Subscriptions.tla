---------------------------- MODULE Subscriptions ----------------------------
(***************************************************************************)
(* subscriptions/: checkout, renewal, cancellation, activation by a         *)
(* payment, and the daily task that expires what is over.  No view locks    *)
(* the subscription: each reads it and later writes a field or two.  A      *)
(* payment is opened and settled as in Payments: a callback names a payment *)
(* and a checkout, which need not be the payment's own; here settling is    *)
(* one transaction.                                                         *)
(***************************************************************************)
EXTENDS Naturals, FiniteSets

CONSTANTS
  Subs,      \* rows of subscriptions_subscription
  Payments,  \* payments of type subscription; each is one checkout or renewal
  Cancels,   \* cancel requests
  UserOf,    \* subscription -> user
  Period,    \* length of a billing period
  MaxTime,   \* bound on the clock
  None

ASSUME ConstantsAssumption ==
  /\ IsFiniteSet(Payments)
  /\ Period \in Nat \ {0} /\ MaxTime \in Nat
  /\ None \notin Payments \cup Subs

VARIABLES
  now,
  sub,      \* the rows: status, current_period_end, cancel_at_period_end, payment
  payment,  \* of every payment: its status, how far the request that opens it
            \* is, its subscription, who asked, the checkout that settled it
  captured, \* checkouts the gateway has taken the money of
  cancel,   \* cancel requests between their read and their write
  due,      \* rows the task has read and not saved yet
  used      \* history: entitled time each subscription has had

vars == <<now, sub, payment, captured, cancel, due, used>>

Live == {"pending", "active"}
NoRow == [status |-> "none", end |-> 0, cancelAtEnd |-> FALSE, payment |-> None]
NotAsked == [status |-> "none", request |-> "none", sub |-> None, kind |-> "none", by |-> None]
Idle == [sub |-> None, seen |-> "none"]

(* The partial unique constraint: one pending or active row of a user.      *)
NoOtherLive(s) ==
  \A t \in Subs \ {s} : UserOf[t] = UserOf[s] => sub[t].status \notin Live

(* active_subscription: what every entitlement check goes by.               *)
Entitled(s) == sub[s].status = "active" /\ sub[s].end > now
Left(s) == IF Entitled(s) THEN sub[s].end - now ELSE 0
Overdue(s) == sub[s].status = "active" /\ sub[s].end <= now

Init ==
  /\ now = 0
  /\ sub = [s \in Subs |-> NoRow]
  /\ payment = [p \in Payments |-> NotAsked]
  /\ captured = {}
  /\ cancel = [c \in Cancels |-> Idle]
  /\ due = {}
  /\ used = [s \in Subs |-> 0]

SetStatus(s, status) == sub' = [sub EXCEPT ![s].status = status]
Asks(p, s, kind) ==
  payment' = [payment EXCEPT ![p] = [status |-> "initiated", request |-> "calling",
                                     sub |-> s, kind |-> kind, by |-> None]]
Becomes(p, status, request) ==
  payment' = [payment EXCEPT ![p].status = status, ![p].request = request]

-----------------------------------------------------------------------------
(* A checkout creates the subscription and its payment together.            *)
Checkout(p, s) ==
  /\ payment[p] = NotAsked
  /\ sub[s].status = "none" /\ NoOtherLive(s)
  /\ SetStatus(s, "pending")
  /\ Asks(p, s, "checkout")
  /\ UNCHANGED <<now, captured, cancel, due, used>>

(* A renewal creates a payment only; the period waits for the money.        *)
Bug_RenewExtends(p, s) == \* the period is extended when the renewal starts
  /\ payment[p] = NotAsked
  /\ sub[s].status \in {"active", "expired", "canceled"}
  /\ Asks(p, s, "renewal")
  /\ sub' = [sub EXCEPT ![s].end = @ + Period]
  /\ UNCHANGED <<now, captured, cancel, due, used>>
Renew(p, s) ==
  /\ payment[p] = NotAsked
  /\ sub[s].status \in {"active", "expired", "canceled"}
  /\ Asks(p, s, "renewal")
  /\ UNCHANGED <<now, sub, captured, cancel, due, used>>

(* The gateway opens a session: the payment is saved as pending, whatever a *)
(* callback made of it meanwhile; the link to it is a save of its own, and  *)
(* only then does the payer get the address.                                *)
Bug_AddressFirst(p) == \* the payer has the address before the link is saved
  /\ payment[p].request = "calling"
  /\ Becomes(p, "pending", "linked")
  /\ UNCHANGED <<now, sub, captured, cancel, due, used>>
GatewayOpens(p) ==
  /\ payment[p].request = "calling"
  /\ Becomes(p, "pending", "linking")
  /\ UNCHANGED <<now, sub, captured, cancel, due, used>>

Link(p) ==
  /\ payment[p].request = "linking"
  /\ sub' = [sub EXCEPT ![payment[p].sub].payment = p]
  /\ Becomes(p, payment[p].status, "linked")
  /\ UNCHANGED <<now, captured, cancel, due, used>>

(* It refuses: the payment fails, and a checkout then cancels the row it    *)
(* created, whatever has become of it.                                      *)
GatewayRefuses(p) ==
  /\ payment[p].request = "calling"
  /\ Becomes(p, "failed", IF payment[p].kind = "checkout" THEN "withdrawing" ELSE "over")
  /\ UNCHANGED <<now, sub, captured, cancel, due, used>>

Withdraw(p) ==
  /\ payment[p].request = "withdrawing"
  /\ SetStatus(payment[p].sub, "canceled")
  /\ Becomes(p, payment[p].status, "over")
  /\ UNCHANGED <<now, captured, cancel, due, used>>

(* The request dies between two of its commits.                             *)
Dies(p) ==
  /\ payment[p].request \in {"calling", "linking", "withdrawing"}
  /\ Becomes(p, payment[p].status, "over")
  /\ UNCHANGED <<now, sub, captured, cancel, due, used>>

-----------------------------------------------------------------------------
(* Whoever has the address may complete the checkout, at any later time.    *)
Pay(p) ==
  /\ payment[p].request = "linked" /\ p \notin captured
  /\ captured' = captured \cup {p}
  /\ UNCHANGED <<now, sub, payment, cancel, due, used>>

(* A fail or cancel callback; the subscription is not told.                 *)
Open(p) == payment[p].status \in {"initiated", "pending"}
Fails(p) ==
  /\ Open(p)
  /\ Becomes(p, "failed", payment[p].request)
  /\ UNCHANGED <<now, sub, captured, cancel, due, used>>

(* activate_on_payment, for the row that points at this payment.  The reset *)
(* of cancel_at_period_end is not among the saved fields.  With another     *)
(* live row of the user the constraint rolls the settlement back.           *)
Activated(row) ==
  IF row.status = "active" /\ row.end > now
    THEN [row EXCEPT !.end = @ + Period]
    ELSE [row EXCEPT !.end = now + Period, !.status = "active"]
Succeeds(p, q) ==
  payment' = [payment EXCEPT ![p].status = "success", ![p].by = q]

(* A success callback: the gateway says that the checkout it names was      *)
(* paid, in an amount that agrees or in none.                               *)
Bug_SettleTwice(p, q) == \* a replayed callback finds no terminal status
  LET s == payment[p].sub IN
  /\ (Open(p) \/ payment[p].status = "success") /\ q \in captured
  /\ sub[s].payment = p /\ NoOtherLive(s)
  /\ sub' = [sub EXCEPT ![s] = Activated(@)]
  /\ Succeeds(p, q)
  /\ UNCHANGED <<now, captured, cancel, due, used>>
Settle(p, q) ==
  LET s == payment[p].sub IN
  /\ Open(p) /\ q \in captured
  /\ sub[s].payment = p /\ NoOtherLive(s)
  /\ sub' = [sub EXCEPT ![s] = Activated(@)]
  /\ Succeeds(p, q)
  /\ UNCHANGED <<now, captured, cancel, due, used>>

(* No row points at it, yet or any more: a success without effect.          *)
SettleDetached(p, q) ==
  /\ Open(p) /\ q \in captured
  /\ sub[payment[p].sub].payment # p
  /\ Succeeds(p, q)
  /\ UNCHANGED <<now, sub, captured, cancel, due, used>>

-----------------------------------------------------------------------------
CancelRead(c, s) ==
  /\ cancel[c] = Idle
  /\ sub[s].status \in Live
  /\ cancel' = [cancel EXCEPT ![c] = [sub |-> s, seen |-> sub[s].status]]
  /\ UNCHANGED <<now, sub, payment, captured, due, used>>

Bug_CancelMisspelt(c) == \* a status that is not one of the choices
  LET s == cancel[c].sub IN
  /\ cancel[c] # Idle
  /\ SetStatus(s, "cancelled")
  /\ cancel' = [cancel EXCEPT ![c] = Idle]
  /\ UNCHANGED <<now, payment, captured, due, used>>
CancelSave(c) ==
  LET s == cancel[c].sub IN
  /\ cancel[c] # Idle
  /\ IF cancel[c].seen = "pending"
       THEN SetStatus(s, "canceled")
       ELSE sub' = [sub EXCEPT ![s].cancelAtEnd = TRUE]
  /\ cancel' = [cancel EXCEPT ![c] = Idle]
  /\ UNCHANGED <<now, payment, captured, due, used>>

(* process_subscription_renewals: one query, then a save per row.           *)
Bug_TaskSkipsCanceled == \* subscriptions the user canceled are not looked at
  /\ due = {}
  /\ due' = {s \in Subs : Overdue(s) /\ ~sub[s].cancelAtEnd}
  /\ UNCHANGED <<now, sub, payment, captured, cancel, used>>
TaskRead ==
  /\ due = {}
  /\ due' = {s \in Subs : Overdue(s)}
  /\ UNCHANGED <<now, sub, payment, captured, cancel, used>>

TaskSave(s) ==
  /\ s \in due
  /\ SetStatus(s, "expired")
  /\ due' = due \ {s}
  /\ UNCHANGED <<now, payment, captured, cancel, used>>

Tick ==
  /\ now < MaxTime
  /\ now' = now + 1
  /\ used' = [s \in Subs |-> IF Entitled(s) THEN used[s] + 1 ELSE used[s]]
  /\ UNCHANGED <<sub, payment, captured, cancel, due>>

-----------------------------------------------------------------------------
PaymentStep(p) ==
  \/ \E s \in Subs : Checkout(p, s) \/ Renew(p, s)
  \/ GatewayOpens(p) \/ Link(p) \/ GatewayRefuses(p) \/ Withdraw(p) \/ Dies(p)
  \/ Pay(p) \/ Fails(p)
  \/ \E q \in Payments : Settle(p, q) \/ SettleDetached(p, q)

TaskStep == TaskRead \/ \E s \in Subs : TaskSave(s)

Next ==
  \/ \E p \in Payments : PaymentStep(p)
  \/ \E c \in Cancels : CancelSave(c) \/ \E s \in Subs : CancelRead(c, s)
  \/ TaskStep
  \/ Tick

Spec == Init /\ [][Next]_vars

(* celery beat starts the task every day and a worker goes through its rows.*)
FairSpec == Spec /\ WF_vars(TaskRead) /\ \A s \in Subs : WF_vars(TaskSave(s))

-----------------------------------------------------------------------------
Row == [status: {"none", "canceled", "expired"} \cup Live, end: Nat,
        cancelAtEnd: BOOLEAN, payment: Payments \cup {None}]
Asked == [status: {"initiated", "pending", "success", "failed"},
          request: {"calling", "linking", "linked", "withdrawing", "over"},
          sub: Subs, kind: {"checkout", "renewal"}, by: Payments \cup {None}]

(* Every variable holds a value of its kind.                                *)
TypeOK ==
  /\ now \in Nat
  /\ sub \in [Subs -> Row]
  /\ payment \in [Payments -> Asked \cup {NotAsked}]
  /\ captured \subseteq Payments
  /\ cancel \in [Cancels -> [sub: Subs, seen: Live] \cup {Idle}]
  /\ due \subseteq Subs
  /\ used \in [Subs -> Nat]

(* The settlements of a subscription that stay, the money the gateway took  *)
(* for it, and the settlements by the money of another payment.             *)
Settled == {p \in Payments : payment[p].status = "success" /\ payment[p].request # "calling"}
PaidFor(s) == {p \in Settled : payment[p].sub = s}
CapturedFor(s) == {p \in captured : payment[p].sub = s}
Misapplied(s) == {p \in PaidFor(s) : payment[p].by # p}

(* Entitled time a subscription has had and still has is covered by the     *)
(* periods the gateway took money for, and where it is not, by settlements  *)
(* with the money of another payment, one period each: no interleaving of   *)
(* renewals, openings, cancels and the task gives time away.                *)
NoUnpaidTime ==
  \A s \in Subs :
    used[s] + Left(s) <= Period * (Cardinality(CapturedFor(s)) + Cardinality(Misapplied(s)))

(* Not true: "a forged callback can't grant a free plan" (views.py:8).  A   *)
(* callback may name the checkout of another payment that was paid for.     *)
PlansArePaid == \A s \in Subs : used[s] + Left(s) <= Period * Cardinality(CapturedFor(s))

(* A payer who has the address of a payment pays for their subscription,    *)
(* unless a later request of theirs has taken its place.                    *)
DetachedByAnother ==
  \A p \in Payments : payment[p].request = "linked" =>
    LET s == payment[p].sub
        q == sub[s].payment IN
    q # p => q # None /\ payment[q].sub = s

(* An expired subscription is one whose period has ended: one renewed while *)
(* the task runs "would no longer match".                                   *)
ExpiredIsOver == \A s \in Subs : sub[s].status = "expired" => sub[s].end <= now

(* A renewal takes back an earlier cancellation.                            *)
RenewalResumes ==
  [][\A p, q \in Payments : Settle(p, q) => ~sub'[payment[p].sub].cancelAtEnd]_vars

(* Entitled time is not taken away: it only runs down with the clock.       *)
PaidTimeKept == [][\A s \in Subs : Entitled(s) /\ now' = now => Entitled(s)']_vars

(* A subscription whose period is over does not stay active.                *)
OverdueExpires == \A s \in Subs : Overdue(s) ~> ~Overdue(s)

(* Subscriptions implement prepaid time: a settlement that stays is one use *)
(* of captured money.                                                       *)
Prepay == INSTANCE Prepaid WITH
  balance <- [s \in Subs |-> Left(s)],
  spent <- Settled
PrepaidTime == Prepay!Spec
=============================================================================
