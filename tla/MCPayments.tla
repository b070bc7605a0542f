----------------------------- MODULE MCPayments -----------------------------
(* Small instances of Payments for TLC: one booking, and payments that      *)
(* differ in gateway and purpose.                                           *)
EXTENDS Payments, TLC

CONSTANTS p1, p2, p3, b1, h1

MCBookingOf == [p \in Payments |-> b1]
AllBkash    == [p \in Payments |-> "bkash"]
AllSsl      == [p \in Payments |-> "sslcommerz"]
MixedMethod == [p \in Payments |-> IF p = p1 THEN "sslcommerz" ELSE "bkash"]
AllRent     == [p \in Payments |-> "rent"]
MixedKind   == [p \in Payments |-> IF p = p3 THEN "rent" ELSE "deposit"]

OneAmount   == [p \in Payments |-> 1]

HandlerSymmetry == Permutations(Handlers)

(* A payment alone meets two requests, faults and any reported amount.      *)
(* Beside a second payment, or a PATCH or a dispute of the booking, one     *)
(* request is served and nothing is lost; and two payments are checked      *)
(* without those, by gateways that report what the checkout was opened for. *)
Small ==
  LET both == \A p \in Payments : status[p] # "none"
      edited == decided # {} \/ \E b \in Bookings : copies[b] # {} IN
  /\ both \/ edited => faults = 0 /\ \A h \in Handlers \ {h1} : handler[h] = Idle
  /\ both => ~edited /\ \A p \in Payments :
       gateway[p] \in {"paid", "executed"} => sum[p] = Amount[p]

SmallSpec ==
  /\ Init /\ [][Next /\ Small']_vars
  /\ \A h \in Handlers : SF_vars(CallbackStep(h) \/ RefundStep(h))
=============================================================================
