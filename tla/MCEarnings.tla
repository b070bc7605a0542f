------------------------------ MODULE MCEarnings ------------------------------
(* Earnings of a booking, an order and a policy, on which a change of rate  *)
(* shows and a share falls between two poisha.                              *)
EXTENDS Earnings

MCGross == [d \in Deals |-> IF d \in Bookings THEN 1050 ELSE 900]
MCDefaultRate == [s \in Scopes |-> 1500]
=============================================================================
