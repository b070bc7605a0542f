----------------------------- MODULE MCBookings -----------------------------
(* Small instances of Bookings for TLC.                                     *)
EXTENDS Bookings, TLC

(* A one-month stay, a stay whose first day is the other's last, and an     *)
(* open-ended one (check_out null becomes the largest date).                *)
MCMaxDate == 9
MCSpans == {[in |-> 1, out |-> 3], [in |-> 3, out |-> MCMaxDate]}
MCInverted == {[in |-> 1, out |-> 3], [in |-> 4, out |-> 2]}
MCOneSpan == {[in |-> 1, out |-> 3]}

MCSymmetry == Permutations(Ids) \cup Permutations(Creators) \cup Permutations(Patchers)
=============================================================================
