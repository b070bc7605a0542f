------------------------- MODULE SubscriptionsProofs -------------------------
(***************************************************************************)
(* Proofs about Subscriptions, for any number of subscriptions, payments    *)
(* and cancel requests, any period and any clock.                           *)
(***************************************************************************)
EXTENDS Subscriptions, FiniteSetTheorems, TLAPS

(* A subscription points at a payment of its own whose address is out.      *)
PointsAtOwn ==
  \A s \in Subs : sub[s].payment # None =>
    payment[sub[s].payment].sub = s /\ payment[sub[s].payment].request = "linked"

(* The address of a payment is only given out once some payment is linked.  *)
LinkMade ==
  \A p \in Payments : payment[p].request = "linked" => sub[payment[p].sub].payment # None

(* What settled a payment is a checkout that was paid for.                  *)
PaidByCaptured == \A p \in Payments : payment[p].status = "success" => payment[p].by \in captured

Links == PointsAtOwn /\ LinkMade /\ PaidByCaptured

(* A settlement that stays covers one period, whoever's money it was.       *)
Covered == \A s \in Subs : used[s] + Left(s) <= Period * Cardinality(PaidFor(s))

IInv == TypeOK /\ Links /\ Covered

-----------------------------------------------------------------------------
(* The kinds of step, by what they do to time and money.                    *)
MoneyStays == captured' = captured /\ Settled' = Settled /\ \A s \in Subs : PaidFor(s)' = PaidFor(s)
TimeStays(s) == Left(s)' = Left(s) /\ used'[s] = used[s]

Quiet == MoneyStays /\ \A s \in Subs : TimeStays(s)
Forfeits(s) ==
  /\ MoneyStays
  /\ \A t \in Subs : Left(t)' = (IF t = s THEN 0 ELSE Left(t)) /\ used'[t] = used[t]
Captures(p) ==
  /\ p \notin captured /\ captured' = captured \cup {p} /\ Settled' = Settled
  /\ \A s \in Subs : PaidFor(s)' = PaidFor(s) /\ TimeStays(s)
Spends(p, q, s) ==
  /\ p \notin Settled /\ Settled' = Settled \cup {p}
  /\ q \in captured /\ captured' = captured
  /\ Left(s)' \in {Left(s), Left(s) + Period} /\ used'[s] = used[s]
  /\ Cardinality(PaidFor(s)') = Cardinality(PaidFor(s)) + 1
  /\ \A t \in Subs \ {s} : PaidFor(t)' = PaidFor(t) /\ TimeStays(t)
Elapses ==
  /\ MoneyStays
  /\ \A s \in Subs : IF Left(s) = 0 THEN TimeStays(s)
                     ELSE Left(s)' = Left(s) - 1 /\ used'[s] = used[s] + 1

LEMMA PeriodNat == Period \in Nat /\ Period # 0
  BY ConstantsAssumption

LEMMA LeftNat ==
  ASSUME TypeOK, NEW s \in Subs
  PROVE  Left(s) \in Nat
<1>1. now \in Nat /\ sub[s].end \in Nat
  BY DEF TypeOK, Row
<1> QED
  BY <1>1 DEF Left, Entitled

(* A write of a status other than "active" takes what was left, and nothing *)
(* of any other subscription.                                               *)
LEMMA StatusTakes ==
  ASSUME TypeOK, NEW s \in Subs, NEW status, status # "active",
         SetStatus(s, status), now' = now, used' = used
  PROVE  \A t \in Subs : /\ Left(t)' = IF t = s THEN 0 ELSE Left(t)
                         /\ used'[t] = used[t]
<1> TAKE t \in Subs
<1>1. sub' = [sub EXCEPT ![s].status = status] /\ sub \in [Subs -> Row]
  BY DEF SetStatus, TypeOK
<1>2. CASE t = s
  <2>1. sub'[t].status = status
    BY <1>1, <1>2 DEF Row
  <2> QED
    BY <1>2, <2>1 DEF Left, Entitled
<1>3. CASE t # s
  <2>1. sub'[t] = sub[t]
    BY <1>1, <1>3
  <2> QED
    BY <1>3, <2>1 DEF Left, Entitled
<1> QED
  BY <1>2, <1>3

-----------------------------------------------------------------------------
(* A write of one payment.                                                  *)
Statuses == {"initiated", "pending", "success", "failed"}
Stages == {"calling", "linking", "linked", "withdrawing", "over"}
Writes(p, status, request, by) ==
  /\ payment' \in [Payments -> Asked \cup {NotAsked}]
  /\ payment[p] # NotAsked /\ payment'[p].sub = payment[p].sub
  /\ payment'[p].status = status /\ payment'[p].request = request /\ payment'[p].by = by
  /\ \A q \in Payments \ {p} : payment'[q] = payment[q]

LEMMA Requested ==
  ASSUME TypeOK, NEW p \in Payments, payment[p] # NotAsked
  PROVE  payment[p] \in Asked /\ payment[p].sub \in Subs
  BY DEF TypeOK, Asked

LEMMA BecomesWrites ==
  ASSUME TypeOK, NEW p \in Payments, payment[p] # NotAsked,
         NEW status \in Statuses, NEW request \in Stages, Becomes(p, status, request)
  PROVE  Writes(p, status, request, payment[p].by)
<1>1. PICK row : row = [payment[p] EXCEPT !.status = status, !.request = request]
  OBVIOUS
<1>2. payment[p] \in Asked
  BY Requested
<1>3. /\ row \in Asked /\ row.status = status /\ row.request = request
      /\ row.sub = payment[p].sub /\ row.by = payment[p].by
  BY <1>1, <1>2 DEF Asked, Statuses, Stages
<1>4. payment' = [payment EXCEPT ![p] = row]
  BY <1>1, ZenonT(40) DEF Becomes
<1> QED
  BY <1>3, <1>4 DEF Writes, TypeOK

LEMMA SucceedsWrites ==
  ASSUME TypeOK, NEW p \in Payments, payment[p] # NotAsked, NEW q \in Payments, Succeeds(p, q)
  PROVE  Writes(p, "success", payment[p].request, q)
<1>1. PICK row : row = [payment[p] EXCEPT !.status = "success", !.by = q]
  OBVIOUS
<1>2. payment[p] \in Asked
  BY Requested
<1>3. /\ row \in Asked /\ row.status = "success" /\ row.request = payment[p].request
      /\ row.sub = payment[p].sub /\ row.by = q
  BY <1>1, <1>2 DEF Asked
<1>4. payment' = [payment EXCEPT ![p] = row]
  BY <1>1, ZenonT(40) DEF Succeeds
<1> QED
  BY <1>3, <1>4 DEF Writes, TypeOK

(* What the steps of a request, and a callback, write.                      *)
LEMMA PaymentWrites ==
  ASSUME TypeOK, NEW p \in Payments
  PROVE  /\ GatewayOpens(p) => Writes(p, "pending", "linking", payment[p].by)
         /\ Link(p) => Writes(p, payment[p].status, "linked", payment[p].by)
         /\ GatewayRefuses(p) =>
              \E stage \in {"withdrawing", "over"} : Writes(p, "failed", stage, payment[p].by)
         /\ Withdraw(p) => Writes(p, payment[p].status, "over", payment[p].by)
         /\ Dies(p) => Writes(p, payment[p].status, "over", payment[p].by)
         /\ Fails(p) => Writes(p, "failed", payment[p].request, payment[p].by)
         /\ \A q \in Payments : Settle(p, q) \/ SettleDetached(p, q) =>
              Writes(p, "success", payment[p].request, q)
<1> USE DEF Statuses, Stages
<1>1. payment[p] # NotAsked => payment[p].status \in Statuses /\ payment[p].request \in Stages
  BY Requested DEF Asked
<1>2. GatewayOpens(p) => Writes(p, "pending", "linking", payment[p].by)
  BY BecomesWrites DEF GatewayOpens, NotAsked
<1>3. Link(p) => Writes(p, payment[p].status, "linked", payment[p].by)
  BY <1>1, BecomesWrites DEF Link, NotAsked
<1>4. GatewayRefuses(p) =>
        \E stage \in {"withdrawing", "over"} : Writes(p, "failed", stage, payment[p].by)
  BY BecomesWrites DEF GatewayRefuses, NotAsked
<1>5. Withdraw(p) => Writes(p, payment[p].status, "over", payment[p].by)
  BY <1>1, BecomesWrites DEF Withdraw, NotAsked
<1>6. Dies(p) => Writes(p, payment[p].status, "over", payment[p].by)
  BY <1>1, BecomesWrites DEF Dies, NotAsked
<1>7. Fails(p) => Writes(p, "failed", payment[p].request, payment[p].by)
  BY <1>1, BecomesWrites DEF Fails, Open, NotAsked
<1>8. \A q \in Payments : Settle(p, q) \/ SettleDetached(p, q) =>
        Writes(p, "success", payment[p].request, q)
  BY SucceedsWrites DEF Settle, SettleDetached, Open, NotAsked
<1> QED
  BY <1>2, <1>3, <1>4, <1>5, <1>6, <1>7, <1>8

Stays(status, request) == status = "success" /\ request # "calling"

(* A write that neither makes nor undoes a settlement that stays.           *)
LEMMA WriteQuiet ==
  ASSUME NEW p \in Payments, NEW status, NEW request, NEW by,
         Writes(p, status, request, by), captured' = captured,
         Stays(status, request) <=> Stays(payment[p].status, payment[p].request)
  PROVE  MoneyStays
<1>1. \A q \in Payments : /\ Stays(payment'[q].status, payment'[q].request)
                               <=> Stays(payment[q].status, payment[q].request)
                          /\ payment'[q].sub = payment[q].sub
  BY DEF Writes
<1>2. Settled' = Settled
  BY <1>1 DEF Settled, Stays
<1>3. \A s \in Subs : PaidFor(s)' = PaidFor(s)
  BY <1>1, <1>2 DEF PaidFor, Settled
<1> QED
  BY <1>2, <1>3 DEF MoneyStays

LEMMA AskQuiet ==
  ASSUME TypeOK, NEW p \in Payments, NEW s \in Subs, NEW kind, Asks(p, s, kind),
         payment[p] = NotAsked, captured' = captured
  PROVE  MoneyStays
<1>1. \A q \in Payments : IF q = p THEN payment'[q].status = "initiated" ELSE payment'[q] = payment[q]
  BY DEF Asks, TypeOK
<1>2. Settled' = Settled
  BY <1>1 DEF Settled, NotAsked
<1>3. \A t \in Subs : PaidFor(t)' = PaidFor(t)
  BY <1>1, <1>2 DEF PaidFor, Settled, NotAsked
<1> QED
  BY <1>2, <1>3 DEF MoneyStays

(* A settlement that stays counts once more for its subscription.           *)
LEMMA SettledCounts ==
  ASSUME NEW p \in Payments, NEW status, NEW request, NEW by,
         Writes(p, status, request, by), Stays(status, request),
         ~Stays(payment[p].status, payment[p].request)
  PROVE  /\ p \notin Settled /\ Settled' = Settled \cup {p}
         /\ \A s \in Subs : IF s = payment[p].sub
              THEN Cardinality(PaidFor(s)') = Cardinality(PaidFor(s)) + 1
              ELSE PaidFor(s)' = PaidFor(s)
<1>1. \A q \in Payments : /\ Stays(payment'[q].status, payment'[q].request)
                               <=> (q = p \/ Stays(payment[q].status, payment[q].request))
                          /\ payment'[q].sub = payment[q].sub
  BY DEF Writes
<1>2. p \notin Settled /\ Settled' = Settled \cup {p}
  BY <1>1 DEF Settled, Stays
<1>3. \A s \in Subs : IsFiniteSet(PaidFor(s))
  <2> TAKE s \in Subs
  <2>1. PaidFor(s) \subseteq Payments
    BY DEF PaidFor, Settled
  <2> QED
    BY <2>1, FS_Subset, ConstantsAssumption
<1>4. ASSUME NEW s \in Subs, s = payment[p].sub
      PROVE  Cardinality(PaidFor(s)') = Cardinality(PaidFor(s)) + 1
  <2>1. PaidFor(s)' = PaidFor(s) \cup {p} /\ p \notin PaidFor(s)
    BY <1>1, <1>2, <1>4 DEF PaidFor, Settled
  <2> QED
    BY <2>1, <1>3, FS_AddElement
<1>5. ASSUME NEW s \in Subs, s # payment[p].sub
      PROVE  PaidFor(s)' = PaidFor(s)
  BY <1>1, <1>2, <1>5 DEF PaidFor, Settled
<1> QED
  BY <1>2, <1>4, <1>5

-----------------------------------------------------------------------------
(* Types, one conjunct at a time.                                           *)
LEMMA TypeInit == Init => TypeOK
  BY ConstantsAssumption
  DEF Init, TypeOK, NoRow, NotAsked, Idle, Row, Asked, Live

LEMMA StatusTyped ==
  ASSUME TypeOK, NEW s \in Subs, NEW status \in {"pending", "canceled", "expired"},
         SetStatus(s, status)
  PROVE  sub' \in [Subs -> Row]
<1>1. [sub[s] EXCEPT !.status = status] \in Row
  BY DEF TypeOK, Row, Live
<1> QED
  BY <1>1 DEF SetStatus, TypeOK

LEMMA ActivatedTyped ==
  ASSUME TypeOK, NEW s \in Subs
  PROVE  Activated(sub[s]) \in Row
<1>1. sub[s] \in Row /\ now \in Nat /\ sub[s].end + Period \in Nat /\ now + Period \in Nat
  BY PeriodNat DEF TypeOK, Row
<1> QED
  BY <1>1 DEF Activated, Row, Live

LEMMA TypeStep == TypeOK /\ [Next]_vars => TypeOK'
<1> SUFFICES ASSUME TypeOK, [Next]_vars PROVE TypeOK'
  OBVIOUS
<1>1. ASSUME NEW p \in Payments, NEW s \in Subs, Checkout(p, s) PROVE TypeOK'
  <2>1. sub' \in [Subs -> Row]
    BY <1>1, StatusTyped DEF Checkout
  <2>2. payment' \in [Payments -> Asked \cup {NotAsked}]
    BY <1>1 DEF Checkout, Asks, TypeOK, Asked
  <2> QED
    BY <1>1, <2>1, <2>2 DEF Checkout, TypeOK
<1>2. ASSUME NEW p \in Payments, NEW s \in Subs, Renew(p, s) PROVE TypeOK'
  <2>2. payment' \in [Payments -> Asked \cup {NotAsked}]
    BY <1>2 DEF Renew, Asks, TypeOK, Asked
  <2> QED
    BY <1>2, <2>2 DEF Renew, TypeOK
<1>3. ASSUME NEW p \in Payments,
             GatewayOpens(p) \/ GatewayRefuses(p) \/ Dies(p) \/ Fails(p)
      PROVE  TypeOK'
  <2>1. payment' \in [Payments -> Asked \cup {NotAsked}]
    BY <1>3, PaymentWrites DEF Writes
  <2> QED
    BY <1>3, <2>1 DEF GatewayOpens, GatewayRefuses, Dies, Fails, TypeOK
<1>4. ASSUME NEW p \in Payments, Link(p) PROVE TypeOK'
  <2>1. payment[p].sub \in Subs
    BY <1>4, Requested DEF Link, NotAsked
  <2>2. [sub[payment[p].sub] EXCEPT !.payment = p] \in Row
    BY <2>1 DEF TypeOK, Row
  <2>3. sub' \in [Subs -> Row]
    BY <1>4, <2>1, <2>2 DEF Link, TypeOK
  <2>4. payment' \in [Payments -> Asked \cup {NotAsked}]
    BY <1>4, PaymentWrites DEF Writes
  <2> QED
    BY <1>4, <2>3, <2>4 DEF Link, TypeOK
<1>5. ASSUME NEW p \in Payments, Withdraw(p) PROVE TypeOK'
  <2>1. payment[p].sub \in Subs
    BY <1>5, Requested DEF Withdraw, NotAsked
  <2>2. sub' \in [Subs -> Row]
    BY <1>5, <2>1, StatusTyped DEF Withdraw
  <2>3. payment' \in [Payments -> Asked \cup {NotAsked}]
    BY <1>5, PaymentWrites DEF Writes
  <2> QED
    BY <1>5, <2>2, <2>3 DEF Withdraw, TypeOK
<1>6. ASSUME NEW p \in Payments, NEW q \in Payments, Settle(p, q) \/ SettleDetached(p, q)
      PROVE  TypeOK'
  <2>1. payment[p].sub \in Subs
    BY <1>6, Requested DEF Settle, SettleDetached, Open, NotAsked
  <2>2. sub' \in [Subs -> Row]
    BY <1>6, <2>1, ActivatedTyped DEF Settle, SettleDetached, TypeOK
  <2>3. payment' \in [Payments -> Asked \cup {NotAsked}]
    BY <1>6, PaymentWrites DEF Writes
  <2> QED
    BY <1>6, <2>2, <2>3 DEF Settle, SettleDetached, TypeOK
<1>7. ASSUME NEW c \in Cancels, NEW s \in Subs, CancelRead(c, s) PROVE TypeOK'
  BY <1>7 DEF CancelRead, TypeOK
<1>8. ASSUME NEW c \in Cancels, CancelSave(c) PROVE TypeOK'
  <2>1. cancel[c].sub \in Subs
    BY <1>8 DEF CancelSave, TypeOK
  <2>2. [sub[cancel[c].sub] EXCEPT !.cancelAtEnd = TRUE] \in Row
    BY ZenonT(40), <2>1 DEF TypeOK, Row
  <2>3. sub' \in [Subs -> Row]
    <3>1. CASE SetStatus(cancel[c].sub, "canceled")
      BY <2>1, <3>1, StatusTyped
    <3>2. CASE sub' = [sub EXCEPT ![cancel[c].sub].cancelAtEnd = TRUE]
      BY <2>1, <2>2, <3>2 DEF TypeOK
    <3> QED
      BY <1>8, <3>1, <3>2 DEF CancelSave
  <2> QED
    BY <1>8, <2>3 DEF CancelSave, TypeOK
<1>9. CASE TaskRead
  BY <1>9 DEF TaskRead, TypeOK
<1>10. ASSUME NEW s \in Subs, TaskSave(s) PROVE TypeOK'
  <2>1. sub' \in [Subs -> Row]
    BY <1>10, StatusTyped DEF TaskSave
  <2> QED
    BY <1>10, <2>1 DEF TaskSave, TypeOK
<1>11. CASE Tick
  BY <1>11 DEF Tick, TypeOK
<1>13. ASSUME NEW p \in Payments, Pay(p) PROVE TypeOK'
  BY <1>13 DEF Pay, TypeOK
<1>12. CASE UNCHANGED vars
  BY <1>12 DEF vars, TypeOK
<1> QED
  BY <1>1, <1>2, <1>3, <1>4, <1>5, <1>6, <1>7, <1>8, <1>9, <1>10, <1>11, <1>12, <1>13
  DEF Next, PaymentStep, TaskStep

-----------------------------------------------------------------------------
(* Links.                                                                   *)
LEMMA LinksWritten ==
  ASSUME TypeOK, Links, NEW p \in Payments, NEW status, NEW request, NEW by,
         Writes(p, status, request, by), captured' = captured,
         request = "linked" <=> payment[p].request = "linked",
         status = "success" => by \in captured,
         \A s \in Subs : sub'[s].payment = sub[s].payment
  PROVE  Links'
<1>1. \A q \in Payments : /\ payment'[q].sub = payment[q].sub
                          /\ payment'[q].request = "linked" <=> payment[q].request = "linked"
  BY DEF Writes
<1>2. \A s \in Subs : sub[s].payment \in Payments \cup {None}
  BY DEF TypeOK, Row
<1>3. \A q \in Payments : payment[q].request = "linked" => payment[q].sub \in Subs
  BY Requested DEF NotAsked
<1>4. PointsAtOwn'
  BY <1>1, <1>2 DEF PointsAtOwn, Links
<1>5. LinkMade'
  BY <1>1, <1>3 DEF LinkMade, Links
<1>6. PaidByCaptured'
  BY DEF PaidByCaptured, Links, Writes
<1> QED
  BY <1>4, <1>5, <1>6 DEF Links

LEMMA LinksCarried ==
  ASSUME TypeOK, Links, payment' = payment, captured \subseteq captured',
         \A s \in Subs : sub'[s].payment = sub[s].payment
  PROVE  Links'
<1>1. \A q \in Payments : payment[q].request = "linked" => payment[q].sub \in Subs
  BY Requested DEF NotAsked
<1>2. LinkMade'
  BY <1>1 DEF LinkMade, Links
<1>3. PointsAtOwn'
  BY DEF PointsAtOwn, Links
<1>4. PaidByCaptured'
  BY DEF PaidByCaptured, Links
<1> QED
  BY <1>2, <1>3, <1>4 DEF Links

LEMMA LinksAsked ==
  ASSUME TypeOK, Links, NEW p \in Payments, NEW s \in Subs, NEW kind,
         Asks(p, s, kind), payment[p] = NotAsked, captured' = captured,
         \A t \in Subs : sub'[t].payment = sub[t].payment
  PROVE  Links'
<1>1. \A q \in Payments : IF q = p
        THEN payment'[q].request = "calling" /\ payment'[q].status = "initiated"
        ELSE payment'[q] = payment[q]
  BY DEF Asks, TypeOK
<1>2. payment[p].request = "none"
  BY DEF NotAsked
<1>3. \A t \in Subs : sub[t].payment \in Payments \cup {None}
                      /\ (sub[t].payment # None => sub[t].payment # p)
  BY <1>2 DEF PointsAtOwn, Links, TypeOK, Row
<1>4. PointsAtOwn'
  BY <1>1, <1>3 DEF PointsAtOwn, Links
<1>5. \A q \in Payments : payment[q].request = "linked" => payment[q].sub \in Subs
  BY Requested DEF NotAsked
<1>6. LinkMade'
  BY <1>1, <1>5 DEF LinkMade, Links
<1>7. PaidByCaptured'
  BY <1>1 DEF PaidByCaptured, Links
<1> QED
  BY <1>4, <1>6, <1>7 DEF Links

LEMMA RowsKeepLink ==
  ASSUME TypeOK, NEW s \in Subs, NEW status, SetStatus(s, status)
  PROVE  \A t \in Subs : sub'[t].payment = sub[t].payment
  BY DEF SetStatus, TypeOK, Row

LEMMA LinksStep == TypeOK /\ Links /\ [Next]_vars => Links'
<1> SUFFICES ASSUME TypeOK, Links, [Next]_vars PROVE Links'
  OBVIOUS
<1>1. ASSUME NEW p \in Payments, NEW s \in Subs, Checkout(p, s) PROVE Links'
  BY <1>1, RowsKeepLink, LinksAsked DEF Checkout
<1>2. ASSUME NEW p \in Payments, NEW s \in Subs, Renew(p, s) PROVE Links'
  BY <1>2, LinksAsked DEF Renew
<1>3. ASSUME NEW p \in Payments,
             GatewayOpens(p) \/ GatewayRefuses(p) \/ Dies(p) \/ Fails(p)
      PROVE  Links'
  BY <1>3, PaymentWrites, LinksWritten
  DEF GatewayOpens, GatewayRefuses, Dies, Fails, Links, PaidByCaptured
<1>4. ASSUME NEW p \in Payments, Link(p) PROVE Links'
  <2>1. payment[p].sub \in Subs /\ payment[p].request = "linking"
    BY <1>4, Requested DEF Link, NotAsked
  <2>2. Writes(p, payment[p].status, "linked", payment[p].by) /\ captured' = captured
    BY <1>4, PaymentWrites DEF Link
  <2>3. \A t \in Subs : sub'[t].payment = IF t = payment[p].sub THEN p ELSE sub[t].payment
    BY <1>4, <2>1 DEF Link, Row, TypeOK
  <2>4. \A t \in Subs : sub[t].payment \in Payments \cup {None}
    BY DEF TypeOK, Row
  <2>5. PointsAtOwn'
    BY <2>2, <2>3, <2>4 DEF PointsAtOwn, Links, Writes
  <2>6. LinkMade'
    <3> SUFFICES ASSUME NEW q \in Payments, payment'[q].request = "linked"
                 PROVE  sub'[payment'[q].sub].payment # None
      BY DEF LinkMade
    <3>1. CASE q = p
      BY <2>1, <2>2, <2>3, <3>1, ConstantsAssumption DEF Writes
    <3>2. CASE q # p
      <4>1. payment'[q] = payment[q]
        BY <2>2, <3>2 DEF Writes
      <4>2. payment[q].sub \in Subs /\ sub[payment[q].sub].payment # None
        BY <4>1, Requested DEF LinkMade, Links, NotAsked
      <4> QED
        BY <2>3, <4>1, <4>2, ConstantsAssumption
    <3> QED
      BY <3>1, <3>2
  <2>7. PaidByCaptured'
    BY <2>2 DEF PaidByCaptured, Links, Writes
  <2> QED
    BY <2>5, <2>6, <2>7 DEF Links
<1>5. ASSUME NEW p \in Payments, Withdraw(p) PROVE Links'
  <2>1. payment[p].sub \in Subs
    BY <1>5, Requested DEF Withdraw, NotAsked
  <2>2. \A t \in Subs : sub'[t].payment = sub[t].payment
    BY <1>5, <2>1, RowsKeepLink DEF Withdraw
  <2> QED
    BY <1>5, <2>2, PaymentWrites, LinksWritten DEF Withdraw, Links, PaidByCaptured
<1>6. ASSUME NEW p \in Payments, NEW q \in Payments, Settle(p, q) \/ SettleDetached(p, q)
      PROVE  Links'
  <2>1. \A t \in Subs : sub'[t].payment = sub[t].payment
    <3>1. \A t \in Subs : sub'[t] \in {sub[t], Activated(sub[t])}
      BY <1>6 DEF Settle, SettleDetached, TypeOK
    <3>2. \A t \in Subs : Activated(sub[t]).payment = sub[t].payment
      BY DEF Activated, Row, TypeOK
    <3> QED
      BY <3>1, <3>2
  <2> QED
    BY <1>6, <2>1, PaymentWrites, LinksWritten DEF Settle, SettleDetached
<1>7. ASSUME NEW p \in Payments, Pay(p) PROVE Links'
  BY <1>7, LinksCarried DEF Pay
<1>8. ASSUME NEW c \in Cancels, CancelSave(c) PROVE Links'
  <2>1. \A t \in Subs : sub'[t].payment = sub[t].payment
    <3>1. cancel[c].sub \in Subs
      BY <1>8 DEF CancelSave, TypeOK
    <3>2. CASE sub' = [sub EXCEPT ![cancel[c].sub].cancelAtEnd = TRUE]
      BY <3>2 DEF TypeOK, Row
    <3>3. CASE SetStatus(cancel[c].sub, "canceled")
      BY <3>1, <3>3, RowsKeepLink
    <3> QED
      BY <1>8, <3>2, <3>3 DEF CancelSave
  <2> QED
    BY <1>8, <2>1, LinksCarried DEF CancelSave
<1>9. ASSUME NEW s \in Subs, TaskSave(s) PROVE Links'
  BY <1>9, LinksCarried, RowsKeepLink DEF TaskSave
<1>10. ASSUME \/ \E c \in Cancels, s \in Subs : CancelRead(c, s)
              \/ TaskRead \/ Tick \/ UNCHANGED vars
       PROVE  Links'
  BY <1>10, LinksCarried DEF CancelRead, TaskRead, Tick, vars
<1> QED
  BY <1>1, <1>2, <1>3, <1>4, <1>5, <1>6, <1>7, <1>8, <1>9, <1>10
  DEF Next, PaymentStep, TaskStep

-----------------------------------------------------------------------------
(* Every step is one of the kinds.                                          *)
MoneyMoves ==
  \/ Quiet \/ Elapses
  \/ \E s \in Subs : Forfeits(s)
  \/ \E p \in Payments : Captures(p) \/ \E q \in Payments, s \in Subs : Spends(p, q, s)

LEMMA RowsQuiet ==
  ASSUME now' = now, used' = used,
         \A s \in Subs : sub'[s].status = sub[s].status /\ sub'[s].end = sub[s].end
  PROVE  \A s \in Subs : TimeStays(s)
  BY DEF TimeStays, Left, Entitled

LEMMA PaymentsQuiet ==
  ASSUME payment' = payment
  PROVE  Settled' = Settled /\ \A s \in Subs : PaidFor(s)' = PaidFor(s)
  BY DEF Settled, PaidFor

LEMMA PayCaptures ==
  ASSUME NEW p \in Payments, Pay(p)
  PROVE  Captures(p)
<1>1. \A s \in Subs : TimeStays(s)
  BY RowsQuiet DEF Pay
<1> QED
  BY <1>1, PaymentsQuiet DEF Pay, Captures

(* A settlement the opening request can still write over is undone by it,   *)
(* or stays when the request dies; nothing of it has moved any time.        *)
LEMMA DiesMoves ==
  ASSUME TypeOK, Links, NEW p \in Payments, Dies(p)
  PROVE  Quiet \/ \E q \in Payments, s \in Subs : Spends(p, q, s)
<1>1. Writes(p, payment[p].status, "over", payment[p].by) /\ captured' = captured
  BY PaymentWrites DEF Dies
<1>2. \A t \in Subs : TimeStays(t)
  BY RowsQuiet DEF Dies
<1>3. CASE payment[p].status = "success" /\ payment[p].request = "calling"
  <2>1. payment[p].by \in captured /\ payment[p].by \in Payments
    BY <1>3 DEF Links, PaidByCaptured, TypeOK
  <2>2. PICK s \in Subs : s = payment[p].sub
    BY <1>3, Requested DEF NotAsked
  <2>3. /\ p \notin Settled /\ Settled' = Settled \cup {p}
        /\ Cardinality(PaidFor(s)') = Cardinality(PaidFor(s)) + 1
        /\ \A t \in Subs \ {s} : PaidFor(t)' = PaidFor(t)
    BY <1>1, <1>3, <2>2, SettledCounts DEF Stays
  <2>4. Spends(p, payment[p].by, s)
    BY <1>1, <1>2, <2>1, <2>2, <2>3 DEF Spends, TimeStays
  <2> QED
    BY <2>1, <2>2, <2>4
<1>4. CASE ~(payment[p].status = "success" /\ payment[p].request = "calling")
  <2>1. MoneyStays
    BY <1>1, <1>4, WriteQuiet DEF Stays
  <2> QED
    BY <1>2, <2>1 DEF Quiet
<1> QED
  BY <1>3, <1>4

(* Settling an attached payment adds exactly one period, whether the row is *)
(* extended or starts anew.                                                 *)
LEMMA SettleSpends ==
  ASSUME TypeOK, Links, NEW p \in Payments, NEW q \in Payments, Settle(p, q)
  PROVE  \E s \in Subs : Spends(p, q, s)
<1>1. /\ Writes(p, "success", payment[p].request, q) /\ captured' = captured
      /\ payment[p].status # "success" /\ q \in captured /\ used' = used /\ now' = now
  BY PaymentWrites DEF Settle, Open
<1>2. PICK s \in Subs : s = payment[p].sub
  BY Requested DEF Settle, Open, NotAsked
<1>3. payment[p].request = "linked"
  BY <1>2, ConstantsAssumption DEF Settle, Links, PointsAtOwn
<1>4. /\ p \notin Settled /\ Settled' = Settled \cup {p}
      /\ Cardinality(PaidFor(s)') = Cardinality(PaidFor(s)) + 1
      /\ \A t \in Subs \ {s} : PaidFor(t)' = PaidFor(t)
  BY <1>1, <1>2, <1>3, SettledCounts DEF Stays
<1>5. \A t \in Subs : sub'[t] = IF t = s THEN Activated(sub[s]) ELSE sub[t]
  BY <1>2 DEF Settle, TypeOK
<1>6. \A t \in Subs \ {s} : TimeStays(t)
  BY <1>1, <1>5 DEF TimeStays, Left, Entitled
<1>7. now \in Nat /\ sub[s] \in Row /\ sub[s].end \in Nat
  BY <1>2 DEF TypeOK, Row
<1>8. Left(s)' \in {Left(s), Left(s) + Period}
  <2>1. CASE Entitled(s)
    <3>1. sub'[s].status = "active" /\ sub'[s].end = sub[s].end + Period
      BY <1>2, <1>5, <1>7, <2>1 DEF Entitled, Activated, Row
    <3> QED
      BY <1>1, <1>7, <2>1, <3>1, PeriodNat DEF Left, Entitled
  <2>2. CASE ~Entitled(s)
    <3>1. sub'[s].status = "active" /\ sub'[s].end = now + Period
      BY <1>2, <1>5, <1>7, <2>2 DEF Entitled, Activated, Row
    <3> QED
      BY <1>1, <1>7, <2>2, <3>1, PeriodNat DEF Left, Entitled
  <2> QED
    BY <2>1, <2>2
<1> QED
  BY <1>1, <1>2, <1>4, <1>6, <1>8 DEF Spends

LEMMA DetachedMoves ==
  ASSUME TypeOK, NEW p \in Payments, NEW q \in Payments, SettleDetached(p, q)
  PROVE  Quiet \/ \E s \in Subs : Spends(p, q, s)
<1>1. /\ Writes(p, "success", payment[p].request, q) /\ captured' = captured
      /\ payment[p].status # "success" /\ q \in captured
  BY PaymentWrites DEF SettleDetached, Open
<1>2. \A t \in Subs : TimeStays(t)
  BY RowsQuiet DEF SettleDetached
<1>3. PICK s \in Subs : s = payment[p].sub
  BY Requested DEF SettleDetached, Open, NotAsked
<1>4. CASE payment[p].request = "calling"
  <2>1. MoneyStays
    BY <1>1, <1>4, WriteQuiet DEF Stays
  <2> QED
    BY <1>2, <2>1 DEF Quiet
<1>5. CASE payment[p].request # "calling"
  <2>1. /\ p \notin Settled /\ Settled' = Settled \cup {p}
        /\ Cardinality(PaidFor(s)') = Cardinality(PaidFor(s)) + 1
        /\ \A t \in Subs \ {s} : PaidFor(t)' = PaidFor(t)
    BY <1>1, <1>3, <1>5, SettledCounts DEF Stays
  <2>2. Spends(p, q, s)
    BY <1>1, <1>2, <1>3, <2>1 DEF Spends, TimeStays
  <2> QED
    BY <2>2
<1> QED
  BY <1>4, <1>5

LEMMA TickElapses ==
  ASSUME TypeOK, Tick
  PROVE  Elapses
<1>1. MoneyStays
  BY PaymentsQuiet DEF Tick, MoneyStays
<1>2. ASSUME NEW s \in Subs
      PROVE  IF Left(s) = 0 THEN TimeStays(s)
             ELSE Left(s)' = Left(s) - 1 /\ used'[s] = used[s] + 1
  <2>1. /\ now \in Nat /\ sub[s].end \in Nat /\ now' = now + 1 /\ sub' = sub
        /\ used'[s] = IF Entitled(s) THEN used[s] + 1 ELSE used[s]
    BY DEF Tick, TypeOK, Row
  <2> QED
    BY <2>1 DEF TimeStays, Left, Entitled
<1> QED
  BY <1>1, <1>2 DEF Elapses

LEMMA MoneyStep == TypeOK /\ Links /\ [Next]_vars => MoneyMoves
<1> SUFFICES ASSUME TypeOK, Links, [Next]_vars PROVE MoneyMoves
  OBVIOUS
<1>1. ASSUME NEW p \in Payments, NEW s \in Subs, Checkout(p, s) PROVE Forfeits(s)
  <2>1. \A t \in Subs : Left(t)' = (IF t = s THEN 0 ELSE Left(t)) /\ used'[t] = used[t]
    BY <1>1, StatusTakes DEF Checkout
  <2>2. MoneyStays
    BY <1>1, AskQuiet DEF Checkout
  <2> QED
    BY <2>1, <2>2 DEF Forfeits
<1>2. ASSUME NEW p \in Payments, NEW s \in Subs, Renew(p, s) PROVE Quiet
  <2>1. MoneyStays
    BY <1>2, AskQuiet DEF Renew
  <2> QED
    BY <1>2, <2>1, RowsQuiet DEF Renew, Quiet
<1>3. ASSUME NEW p \in Payments, GatewayOpens(p) \/ GatewayRefuses(p) \/ Fails(p)
      PROVE  Quiet
  <2>1. MoneyStays
    BY <1>3, PaymentWrites, WriteQuiet DEF GatewayOpens, GatewayRefuses, Fails, Open, Stays
  <2> QED
    BY <1>3, <2>1, RowsQuiet DEF GatewayOpens, GatewayRefuses, Fails, Quiet
<1>4. ASSUME NEW p \in Payments, Link(p) PROVE Quiet
  <2>1. MoneyStays
    BY <1>4, PaymentWrites, WriteQuiet DEF Link, Stays
  <2>2. \A t \in Subs : sub'[t].status = sub[t].status /\ sub'[t].end = sub[t].end
    BY <1>4 DEF Link, TypeOK, Row
  <2> QED
    BY <1>4, <2>1, <2>2, RowsQuiet DEF Link, Quiet
<1>5. ASSUME NEW p \in Payments, Withdraw(p) PROVE \E s \in Subs : Forfeits(s)
  <2>1. payment[p].sub \in Subs
    BY <1>5, Requested DEF Withdraw, NotAsked
  <2>2. MoneyStays
    BY <1>5, PaymentWrites, WriteQuiet DEF Withdraw, Stays
  <2> QED
    BY <1>5, <2>1, <2>2, StatusTakes DEF Withdraw, Forfeits
<1>6. ASSUME NEW c \in Cancels, CancelSave(c) PROVE Quiet \/ \E s \in Subs : Forfeits(s)
  <2>1. MoneyStays
    BY <1>6, PaymentsQuiet DEF CancelSave, MoneyStays
  <2>2. cancel[c].sub \in Subs
    BY <1>6 DEF CancelSave, TypeOK
  <2>3. CASE SetStatus(cancel[c].sub, "canceled")
    BY <1>6, <2>1, <2>2, <2>3, StatusTakes DEF CancelSave, Forfeits
  <2>4. CASE sub' = [sub EXCEPT ![cancel[c].sub].cancelAtEnd = TRUE]
    <3>1. \A t \in Subs : sub'[t].status = sub[t].status /\ sub'[t].end = sub[t].end
      BY <2>4 DEF TypeOK, Row
    <3> QED
      BY <1>6, <2>1, <3>1, RowsQuiet DEF CancelSave, Quiet
  <2> QED
    BY <1>6, <2>3, <2>4 DEF CancelSave
<1>7. ASSUME NEW s \in Subs, TaskSave(s) PROVE Forfeits(s)
  <2>1. MoneyStays
    BY <1>7, PaymentsQuiet DEF TaskSave, MoneyStays
  <2> QED
    BY <1>7, <2>1, StatusTakes DEF TaskSave, Forfeits
<1>8. ASSUME \/ \E c \in Cancels, s \in Subs : CancelRead(c, s)
             \/ TaskRead \/ UNCHANGED vars
      PROVE  Quiet
  BY <1>8, PaymentsQuiet, RowsQuiet DEF CancelRead, TaskRead, vars, Quiet, MoneyStays
<1> QED
  BY <1>1, <1>2, <1>3, <1>4, <1>5, <1>6, <1>7, <1>8, PayCaptures, DiesMoves, SettleSpends,
     DetachedMoves, TickElapses
  DEF Next, PaymentStep, TaskStep, MoneyMoves

-----------------------------------------------------------------------------
(* A step of any kind keeps what was paid ahead of what is used and left.   *)
LEMMA PaidTyped ==
  ASSUME NEW s \in Subs
  PROVE  Cardinality(PaidFor(s)) \in Nat
<1>1. PaidFor(s) \subseteq Payments
  BY DEF PaidFor, Settled
<1> QED
  BY <1>1, FS_Subset, FS_CardinalityType, ConstantsAssumption

LEMMA PeriodsCover ==
  ASSUME NEW u \in Nat, NEW l \in Nat, NEW n \in Nat, u + l <= Period * n
  PROVE  /\ u + 0 <= Period * n
         /\ u + l <= Period * (n + 1)
         /\ u + (l + Period) <= Period * (n + 1)
<1>1. Period * n \in Nat /\ Period * (n + 1) = Period * n + Period
  BY PeriodNat
<1> QED
  BY <1>1, PeriodNat

LEMMA CoverStep ==
  TypeOK /\ Covered /\ MoneyMoves => Covered'
<1> SUFFICES ASSUME TypeOK, Covered, MoneyMoves, NEW s \in Subs
             PROVE  used'[s] + Left(s)' <= Period * Cardinality(PaidFor(s)')
  BY DEF Covered
<1>1. PICK u \in Nat : u = used[s]
  BY DEF TypeOK
<1>2. PICK l \in Nat : l = Left(s)
  BY LeftNat
<1>3. PICK n \in Nat : n = Cardinality(PaidFor(s))
  BY PaidTyped
<1>4. u + l <= Period * n
  BY <1>1, <1>2, <1>3 DEF Covered
<1>5. CASE /\ PaidFor(s)' = PaidFor(s)
           /\ TimeStays(s)
  BY <1>1, <1>2, <1>3, <1>4, <1>5 DEF TimeStays
<1>6. ASSUME NEW t \in Subs, Forfeits(t)
      PROVE  used'[s] + Left(s)' <= Period * Cardinality(PaidFor(s)')
  <2>1. used'[s] = u /\ Left(s)' \in {0, l} /\ PaidFor(s)' = PaidFor(s)
    BY <1>1, <1>2, <1>6 DEF Forfeits, MoneyStays
  <2> QED
    BY <1>1, <1>2, <1>3, <1>4, <2>1, PeriodsCover
<1>7. ASSUME NEW p \in Payments, NEW q \in Payments, NEW t \in Subs, Spends(p, q, t)
      PROVE  used'[s] + Left(s)' <= Period * Cardinality(PaidFor(s)')
  <2>1. CASE t = s
    <3>1. used'[s] = u /\ Left(s)' \in {l, l + Period} /\ Cardinality(PaidFor(s)') = n + 1
      BY <1>1, <1>2, <1>3, <1>7, <2>1 DEF Spends
    <3> QED
      BY <1>1, <1>2, <1>3, <1>4, <3>1, PeriodsCover
  <2>2. CASE t # s
    BY <1>5, <1>7, <2>2 DEF Spends
  <2> QED
    BY <2>1, <2>2
<1>8. CASE Elapses
  <2>1. PaidFor(s)' = PaidFor(s)
    BY <1>8 DEF Elapses, MoneyStays
  <2>2. CASE Left(s) = 0
    BY <1>5, <1>8, <2>1, <2>2 DEF Elapses
  <2>3. CASE Left(s) # 0
    <3>1. used'[s] = u + 1 /\ Left(s)' = l - 1 /\ l # 0
      BY <1>1, <1>2, <1>8, <2>3 DEF Elapses
    <3> QED
      BY <1>3, <1>4, <2>1, <3>1
  <2> QED
    BY <2>2, <2>3
<1>9. CASE Quiet
  BY <1>5, <1>9 DEF Quiet, MoneyStays
<1>10. ASSUME NEW p \in Payments, Captures(p)
       PROVE  used'[s] + Left(s)' <= Period * Cardinality(PaidFor(s)')
  BY <1>5, <1>10 DEF Captures
<1> QED
  BY <1>6, <1>7, <1>8, <1>9, <1>10 DEF MoneyMoves

LEMMA InitSound == Init => IInv
<1> SUFFICES ASSUME Init PROVE IInv
  OBVIOUS
<1>1. TypeOK
  BY TypeInit
<1>2. Links
  BY DEF Init, NoRow, NotAsked, Links, PointsAtOwn, LinkMade, PaidByCaptured
<1>3. ASSUME NEW s \in Subs
      PROVE  used[s] + Left(s) <= Period * Cardinality(PaidFor(s))
  <2>1. used[s] = 0 /\ Left(s) = 0
    BY DEF Init, NoRow, Left, Entitled
  <2>2. PaidFor(s) = {}
    BY DEF Init, NotAsked, PaidFor, Settled
  <2>3. Cardinality(PaidFor(s)) = 0
    BY <2>2, FS_EmptySet
  <2> QED
    BY <2>1, <2>3, PeriodNat
<1> QED
  BY <1>1, <1>2, <1>3 DEF IInv, Covered

LEMMA Invariance == Spec => []IInv
<1>1. IInv /\ [Next]_vars => IInv'
  BY TypeStep, LinksStep, MoneyStep, CoverStep DEF IInv
<1> QED
  BY InitSound, <1>1, PTL DEF Spec

(* Types: every reachable state is well typed.                              *)
THEOREM TypeCorrect == Spec => []TypeOK
<1>1. IInv => TypeOK
  BY DEF IInv
<1> QED
  BY Invariance, <1>1, PTL

(* A settlement that stays is one by money of its own, or a misapplied one. *)
LEMMA MoneyCounted ==
  ASSUME IInv, NEW s \in Subs
  PROVE  /\ Cardinality(PaidFor(s)) <= Cardinality(CapturedFor(s)) + Cardinality(Misapplied(s))
         /\ Cardinality(CapturedFor(s)) \in Nat /\ Cardinality(Misapplied(s)) \in Nat
<1> DEFINE both == CapturedFor(s) \cup Misapplied(s)
<1>1. IsFiniteSet(CapturedFor(s)) /\ IsFiniteSet(Misapplied(s)) /\ IsFiniteSet(both)
  <2>1. CapturedFor(s) \subseteq Payments /\ Misapplied(s) \subseteq Payments
    BY DEF IInv, TypeOK, CapturedFor, Misapplied, PaidFor, Settled
  <2> QED
    BY <2>1, FS_Subset, ConstantsAssumption
<1>2. PaidFor(s) \subseteq both
  BY DEF IInv, Links, PaidByCaptured, PaidFor, Settled, CapturedFor, Misapplied
<1>3. Cardinality(PaidFor(s)) <= Cardinality(both)
  BY <1>1, <1>2, FS_Subset
<1>4. Cardinality(both)
        = Cardinality(CapturedFor(s)) + Cardinality(Misapplied(s))
          - Cardinality(CapturedFor(s) \cap Misapplied(s))
  BY <1>1, FS_Union
<1>5. IsFiniteSet(CapturedFor(s) \cap Misapplied(s))
  BY <1>1, FS_Intersection
<1>6. /\ Cardinality(CapturedFor(s)) \in Nat /\ Cardinality(Misapplied(s)) \in Nat
      /\ Cardinality(both) \in Nat /\ Cardinality(CapturedFor(s) \cap Misapplied(s)) \in Nat
      /\ Cardinality(PaidFor(s)) \in Nat
  BY <1>1, <1>5, PaidTyped, FS_CardinalityType
<1> HIDE DEF both
<1> QED
  BY <1>3, <1>4, <1>6

LEMMA InPeriods ==
  ASSUME NEW n \in Nat, NEW m \in Nat, n <= m, NEW t \in Nat, t <= Period * n
  PROVE  t <= Period * m
<1>1. PICK k \in Nat : m = n + k
  <2>1. m - n \in Nat /\ m = n + (m - n)
    OBVIOUS
  <2> QED
    BY <2>1
<1>2. Period * (n + k) = Period * n + Period * k /\ Period * k \in Nat /\ Period * n \in Nat
  BY PeriodNat
<1> QED
  BY <1>1, <1>2

(* Entitled time is always covered by money the gateway took for it, or by  *)
(* a settlement with another payment's: no interleaving of renewals,        *)
(* openings, settlements, cancels and the task gives time away.             *)
THEOREM NeverUnpaid == Spec => []NoUnpaidTime
<1>1. IInv => NoUnpaidTime
  <2> SUFFICES ASSUME IInv, NEW s \in Subs
               PROVE  used[s] + Left(s)
                        <= Period * (Cardinality(CapturedFor(s)) + Cardinality(Misapplied(s)))
    BY DEF NoUnpaidTime
  <2>1. used[s] + Left(s) <= Period * Cardinality(PaidFor(s)) /\ used[s] + Left(s) \in Nat
    BY LeftNat DEF IInv, Covered, TypeOK
  <2>2. Cardinality(CapturedFor(s)) + Cardinality(Misapplied(s)) \in Nat
    BY MoneyCounted
  <2> QED
    BY <2>1, <2>2, MoneyCounted, PaidTyped, InPeriods
<1> QED
  BY Invariance, <1>1, PTL

(* What matching a callback with its payment would give.                    *)
OwnCheckouts == \A p \in Payments : payment[p].by \in {None, p}

(* Were every payment settled by the checkout opened for it, "a forged      *)
(* callback can't grant a free plan" would be true: all entitled time would *)
(* be paid for.                                                             *)
THEOREM OwnCheckoutsPay == Spec /\ []OwnCheckouts => []PlansArePaid
<1>1. IInv /\ OwnCheckouts => PlansArePaid
  <2> SUFFICES ASSUME IInv, OwnCheckouts, NEW s \in Subs
               PROVE  used[s] + Left(s) <= Period * Cardinality(CapturedFor(s))
    BY DEF PlansArePaid
  <2>1. used[s] + Left(s) <= Period * Cardinality(PaidFor(s)) /\ used[s] + Left(s) \in Nat
    BY LeftNat DEF IInv, Covered, TypeOK
  <2>2. None \notin captured
    BY ConstantsAssumption DEF IInv, TypeOK
  <2>3. Misapplied(s) = {}
    BY <2>2 DEF IInv, Links, PaidByCaptured, OwnCheckouts, Misapplied, PaidFor, Settled
  <2>4. Cardinality(Misapplied(s)) = 0
    BY <2>3, FS_EmptySet
  <2>5. Cardinality(PaidFor(s)) <= Cardinality(CapturedFor(s)) /\ Cardinality(CapturedFor(s)) \in Nat
    BY <2>4, MoneyCounted
  <2> QED
    BY <2>1, <2>5, PaidTyped, InPeriods
<1> QED
  BY Invariance, <1>1, PTL

(* A payer with an address pays for their subscription, or was overtaken by *)
(* another payment for the same subscription.                               *)
THEOREM PayersAttached == Spec => []DetachedByAnother
<1>1. IInv => DetachedByAnother
  <2> SUFFICES ASSUME IInv, NEW p \in Payments, payment[p].request = "linked"
               PROVE  LET s == payment[p].sub
                          q == sub[s].payment IN
                      q # p => q # None /\ payment[q].sub = s
    BY DEF DetachedByAnother
  <2>1. payment[p].sub \in Subs
    BY Requested DEF IInv, NotAsked
  <2>2. sub[payment[p].sub].payment # None
    BY DEF IInv, Links, LinkMade
  <2> QED
    BY <2>1, <2>2 DEF IInv, Links, PointsAtOwn
<1> QED
  BY Invariance, <1>1, PTL

-----------------------------------------------------------------------------
(* The refinement: each kind of step is a step of prepaid time.             *)
LEMMA InitMaps == Init => Prepay!Init
<1> SUFFICES ASSUME Init PROVE Prepay!Init
  OBVIOUS
<1>1. \A s \in Subs : Left(s) = 0
  BY DEF Init, NoRow, Left, Entitled
<1>2. Settled = {} /\ captured = {}
  BY DEF Init, NotAsked, Settled
<1> QED
  BY <1>1, <1>2 DEF Prepay!Init

LEMMA StepMaps == TypeOK /\ Links /\ [Next]_vars => [Prepay!Next]_Prepay!vars
<1> SUFFICES ASSUME TypeOK, MoneyMoves PROVE [Prepay!Next]_Prepay!vars
  BY MoneyStep
<1> DEFINE balance == [s \in Subs |-> Left(s)]
<1>1. CASE Quiet
  <2>1. balance' = balance /\ captured' = captured /\ Settled' = Settled
    BY <1>1 DEF Quiet, MoneyStays, TimeStays
  <2> QED
    BY <2>1 DEF Prepay!vars
<1>2. CASE Elapses
  <2>1. captured' = captured /\ Settled' = Settled
    BY <1>2 DEF Elapses, MoneyStays
  <2>2. balance' = [s \in Subs |-> IF balance[s] = 0 THEN 0 ELSE balance[s] - 1]
    BY <1>2 DEF Elapses, TimeStays
  <2> QED
    BY <2>1, <2>2 DEF Prepay!Next, Prepay!Elapse
<1>3. ASSUME NEW s \in Subs, Forfeits(s) PROVE Prepay!Forfeit(s)
  <2>1. captured' = captured /\ Settled' = Settled
    BY <1>3 DEF Forfeits, MoneyStays
  <2>2. balance' = [balance EXCEPT ![s] = 0]
    BY <1>3 DEF Forfeits
  <2> QED
    BY <2>1, <2>2 DEF Prepay!Forfeit
<1>4. ASSUME NEW p \in Payments, Captures(p) PROVE Prepay!Capture(p)
  <2>1. balance' = balance
    BY <1>4 DEF Captures, TimeStays
  <2> QED
    BY <1>4, <2>1 DEF Captures, Prepay!Capture
<1>5. ASSUME NEW p \in Payments, NEW q \in Payments, NEW s \in Subs, Spends(p, q, s)
      PROVE  Prepay!Spend(p, q)
  <2>1. balance' = balance \/ balance' = [balance EXCEPT ![s] = @ + Period]
    BY <1>5 DEF Spends, TimeStays
  <2> QED
    BY <1>5, <2>1 DEF Spends, Prepay!Spend
<1> QED
  BY <1>1, <1>2, <1>3, <1>4, <1>5 DEF MoneyMoves, Prepay!Next

(* Subscriptions implement prepaid time: a payment buys at most one period, *)
(* once, with money the gateway took, and no step adds entitlement without. *)
THEOREM Refinement == Spec => PrepaidTime
<1>1. IInv /\ [Next]_vars => [Prepay!Next]_Prepay!vars
  BY StepMaps DEF IInv
<1> QED
  BY InitMaps, Invariance, <1>1, PTL DEF Spec, PrepaidTime, Prepay!Spec

-----------------------------------------------------------------------------
(* What locks would give: a row that was read and is about to be written    *)
(* still is what was read, by the task, by a cancel request and by a        *)
(* checkout that takes its subscription back.                               *)
TaskFresh == \A s \in due : Overdue(s)
RequestsFresh ==
  /\ \A c \in Cancels : cancel[c].seen = "pending" => sub[cancel[c].sub].status = "pending"
  /\ \A p \in Payments :
       payment[p].request = "withdrawing" => sub[payment[p].sub].status = "pending"

(* Who may overwrite a status, and all that happens to a row.               *)
Overwritten(s) ==
  \/ sub[s].status = "none"
  \/ \E c \in Cancels : cancel[c].seen = "pending" /\ cancel[c].sub = s
  \/ \E p \in Payments : payment[p].request = "withdrawing" /\ payment[p].sub = s
RowMoves(s) ==
  \/ sub'[s].status = sub[s].status /\ sub'[s].end = sub[s].end
  \/ Overwritten(s) /\ sub'[s].status \in {"pending", "canceled"} /\ now' = now
  \/ s \in due /\ sub'[s].status = "expired" /\ sub'[s].end = sub[s].end /\ now' = now
  \/ sub'[s] = Activated(sub[s]) /\ now' = now

LEMMA StatusMoves ==
  ASSUME TypeOK, NEW s \in Subs, NEW status, SetStatus(s, status)
  PROVE  /\ sub'[s].status = status /\ sub'[s].end = sub[s].end
         /\ \A t \in Subs \ {s} : sub'[t] = sub[t]
<1>1. sub[s] \in Row
  BY DEF TypeOK
<1>2. PICK row : row = [sub[s] EXCEPT !.status = status]
  OBVIOUS
<1>3. row.status = status /\ row.end = sub[s].end
  BY <1>1, <1>2 DEF Row
<1>4. sub' = [sub EXCEPT ![s] = row]
  BY <1>2 DEF SetStatus
<1> QED
  BY <1>3, <1>4 DEF TypeOK

LEMMA RowStep ==
  ASSUME TypeOK, [Next]_vars
  PROVE  /\ \A s \in Subs : RowMoves(s)
         /\ now' \in Nat /\ now <= now'
<1>1. now' \in Nat /\ now \in Nat /\ now <= now'
  <2>1. now' = now \/ now' = now + 1
    BY DEF Next, PaymentStep, TaskStep, Checkout, Renew, GatewayOpens, Link, GatewayRefuses,
           Withdraw, Dies, Pay, Fails, Settle, SettleDetached, CancelSave, CancelRead, TaskRead,
           TaskSave, Tick, vars
  <2>2. now \in Nat
    BY DEF TypeOK
  <2> QED
    BY <2>1, <2>2
<1>2. ASSUME NEW p \in Payments, NEW t \in Subs, Checkout(p, t) PROVE \A s \in Subs : RowMoves(s)
  BY <1>2, StatusMoves DEF Checkout, RowMoves, Overwritten
<1>3. ASSUME NEW p \in Payments, Link(p) PROVE \A s \in Subs : RowMoves(s)
  <2>1. \A s \in Subs : sub'[s].status = sub[s].status /\ sub'[s].end = sub[s].end
    BY <1>3 DEF Link, TypeOK, Row
  <2> QED
    BY <2>1 DEF RowMoves
<1>4. ASSUME NEW p \in Payments, Withdraw(p) PROVE \A s \in Subs : RowMoves(s)
  <2>1. payment[p].sub \in Subs
    BY <1>4, Requested DEF Withdraw, NotAsked
  <2> QED
    BY <1>4, <2>1, StatusMoves DEF Withdraw, RowMoves, Overwritten
<1>5. ASSUME NEW p \in Payments, NEW q \in Payments, Settle(p, q) PROVE \A s \in Subs : RowMoves(s)
  <2>1. payment[p].sub \in Subs
    BY <1>5, Requested DEF Settle, Open, NotAsked
  <2>2. \A s \in Subs : sub'[s] = IF s = payment[p].sub THEN Activated(sub[s]) ELSE sub[s]
    BY <1>5, <2>1 DEF Settle, TypeOK
  <2> QED
    BY <1>5, <2>2 DEF Settle, RowMoves
<1>6. ASSUME NEW c \in Cancels, CancelSave(c) PROVE \A s \in Subs : RowMoves(s)
  <2>1. cancel[c].sub \in Subs
    BY <1>6 DEF CancelSave, TypeOK
  <2>2. CASE cancel[c].seen = "pending"
    BY <1>6, <2>1, <2>2, StatusMoves DEF CancelSave, RowMoves, Overwritten
  <2>3. CASE cancel[c].seen # "pending"
    <3>1. \A s \in Subs : sub'[s].status = sub[s].status /\ sub'[s].end = sub[s].end
      BY <1>6, <2>3 DEF CancelSave, TypeOK, Row
    <3> QED
      BY <3>1 DEF RowMoves
  <2> QED
    BY <2>2, <2>3
<1>7. ASSUME NEW t \in Subs, TaskSave(t) PROVE \A s \in Subs : RowMoves(s)
  BY <1>7, StatusMoves DEF TaskSave, RowMoves
<1>8. ASSUME sub' = sub PROVE \A s \in Subs : RowMoves(s)
  BY <1>8 DEF RowMoves
<1> QED
  BY <1>1, <1>2, <1>3, <1>4, <1>5, <1>6, <1>7, <1>8
  DEF Next, PaymentStep, TaskStep, Renew, GatewayOpens, GatewayRefuses, Dies, Pay, Fails,
      SettleDetached, CancelRead, TaskRead, Tick, vars

(* Were the task to expire only what is still overdue when it saves, as a   *)
(* filtered UPDATE would, a renewal could not be expired: "it would no      *)
(* longer match", however cancels, checkouts and settlements interleave.    *)
THEOREM ExpiresOnlyWhatIsOver == Spec /\ []TaskFresh => []ExpiredIsOver
<1>1. Init => ExpiredIsOver
  BY DEF Init, ExpiredIsOver, NoRow
<1>2. ASSUME TypeOK, TaskFresh, ExpiredIsOver, [Next]_vars
      PROVE  ExpiredIsOver'
  <2> SUFFICES ASSUME NEW s \in Subs, sub'[s].status = "expired"
               PROVE  sub'[s].end <= now'
    BY DEF ExpiredIsOver
  <2>1. now \in Nat /\ now' \in Nat /\ now <= now' /\ sub[s].end \in Nat /\ RowMoves(s)
    BY <1>2, RowStep DEF TypeOK, Row
  <2>2. sub'[s].end = sub[s].end /\ (sub[s].status = "expired" \/ s \in due)
    <3>1. Activated(sub[s]).status = "active"
      BY <1>2 DEF Activated, TypeOK, Row
    <3> QED
      BY <2>1, <3>1 DEF RowMoves
  <2>3. sub[s].end <= now
    BY <1>2, <2>2 DEF ExpiredIsOver, TaskFresh, Overdue
  <2> QED
    BY <2>1, <2>2, <2>3
<1> QED
  BY <1>1, <1>2, TypeCorrect, PTL DEF Spec

(* With fresh copies everywhere nobody loses entitled time: what ends it is *)
(* the clock alone.                                                         *)
THEOREM TimeIsKeptWhenFresh == Spec /\ []TaskFresh /\ []RequestsFresh => PaidTimeKept
<1> DEFINE Kept == \A s \in Subs : Entitled(s) /\ now' = now => Entitled(s)'
<1>1. ASSUME TypeOK, TaskFresh, RequestsFresh, [Next]_vars
      PROVE  Kept
  <2> SUFFICES ASSUME NEW s \in Subs, Entitled(s), now' = now
               PROVE  Entitled(s)'
    OBVIOUS
  <2>1. /\ sub[s].status = "active" /\ sub[s].end > now
        /\ now \in Nat /\ sub[s] \in Row /\ sub[s].end \in Nat /\ RowMoves(s)
    BY <1>1, RowStep DEF Entitled, TypeOK, Row
  <2>2. ~Overwritten(s) /\ s \notin due
    BY <1>1, <2>1 DEF Overwritten, RequestsFresh, TaskFresh, Overdue
  <2>3. CASE sub'[s].status = sub[s].status /\ sub'[s].end = sub[s].end
    BY <2>1, <2>3 DEF Entitled
  <2>4. CASE sub'[s] = Activated(sub[s])
    <3>1. sub'[s] = [sub[s] EXCEPT !.end = @ + Period]
      BY <2>1, <2>4 DEF Activated
    <3>2. sub'[s].status = "active" /\ sub'[s].end = sub[s].end + Period
      BY <2>1, <3>1 DEF Row
    <3>3. sub[s].end + Period > now
      BY <2>1, PeriodNat
    <3> QED
      BY <3>2, <3>3 DEF Entitled
  <2> QED
    BY <2>1, <2>2, <2>3, <2>4 DEF RowMoves
<1> HIDE DEF Kept
<1>2. TypeOK /\ TaskFresh /\ RequestsFresh /\ [Next]_vars => Kept
  BY <1>1
<1>3. Spec /\ []TaskFresh /\ []RequestsFresh => [][Kept]_vars
  BY <1>2, TypeCorrect, PTL DEF Spec
<1> QED
  BY <1>3 DEF Kept, PaidTimeKept
=============================================================================
