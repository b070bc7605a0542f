------------------------------- MODULE Prepaid -------------------------------
(***************************************************************************)
(* What paid subscriptions promise: entitlement is bought ahead in whole    *)
(* periods, at most one for a payment and only with money the gateway took, *)
(* and runs down with time.                                                 *)
(***************************************************************************)
EXTENDS Naturals

CONSTANTS Subs, Payments, Period

VARIABLES
  balance,   \* days of entitlement each subscription has left
  captured,  \* payments whose money is in
  spent      \* payments that bought what they could

vars == <<balance, captured, spent>>

Init ==
  /\ balance = [s \in Subs |-> 0]
  /\ captured = {}
  /\ spent = {}

Capture(p) ==
  /\ p \notin captured
  /\ captured' = captured \cup {p}
  /\ UNCHANGED <<balance, spent>>

(* A payment buys one period for one subscription, or is wasted; the money  *)
(* is its own or, as no callback is matched with its payment, another's.    *)
Spend(p, q) ==
  /\ p \notin spent /\ q \in captured
  /\ spent' = spent \cup {p}
  /\ captured' = captured
  /\ \/ balance' = balance
     \/ \E s \in Subs : balance' = [balance EXCEPT ![s] = @ + Period]

Elapse ==
  /\ balance' = [s \in Subs |-> IF balance[s] = 0 THEN 0 ELSE balance[s] - 1]
  /\ UNCHANGED <<captured, spent>>

(* What is left may be lost, all of it.                                     *)
Forfeit(s) ==
  /\ balance' = [balance EXCEPT ![s] = 0]
  /\ UNCHANGED <<captured, spent>>

Next ==
  \/ \E p \in Payments : Capture(p) \/ \E q \in Payments : Spend(p, q)
  \/ Elapse
  \/ \E s \in Subs : Forfeit(s)

Spec == Init /\ [][Next]_vars

(* The stricter promise, that a payment buys with its own money.            *)
OwnNext ==
  \/ \E p \in Payments : Capture(p) \/ Spend(p, p)
  \/ Elapse
  \/ \E s \in Subs : Forfeit(s)

OwnSpec == Init /\ [][OwnNext]_vars
=============================================================================
