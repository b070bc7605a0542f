------------------------------- MODULE MCLeases -------------------------------
(* Leases that begin in 2024 (a leap year) or 2025, on days that some       *)
(* months do not have, and end in the months after or not at all.           *)
EXTENDS Leases

January == 2024 * 12
MCDates(months) == {d \in [month: months, day: {1, 28, 29, 30, 31}] : d \in Dates}
MCCheckIns == MCDates(January .. January + 13)
MCCheckOuts == MCDates(January .. January + 16) \cup {NoCheckOut}
=============================================================================
