------------------------------- MODULE MCOffices -------------------------------
(* Offices with the leases of MCLeases and the deals of MCEarnings.         *)
EXTENDS Offices, MCLeases, MCEarnings

(* The renewal of a listing is proposed alone.                              *)
RenewalAlone ==
  \A j, k \in Weeks \X Types :
    j[2] = "LISTING_RENEWAL" /\ advice[j] # NoAdvice /\ advice[k] # NoAdvice => j = k

SmallOfficesSpec ==
  OfficesInit /\ [][OfficesNext /\ RenewalAlone']_officesVars /\ OfficesFairness
=============================================================================
