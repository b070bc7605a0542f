---------------------------- MODULE MCProposals ----------------------------
(* A small instance of Proposals: a deal to accept, with the ceiling of     *)
(* high-risk tools, and two bookmarks of one room; owners may consent.      *)
EXTENDS Proposals, TLC

CONSTANTS deal, mark1, mark2

MCApproval == [p \in Proposals |-> IF p = deal THEN "admin" ELSE "any_staff"]
MCSiblings == (deal :> {} @@ mark1 :> {mark2} @@ mark2 :> {mark1})
=============================================================================
