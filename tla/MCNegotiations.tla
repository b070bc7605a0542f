---------------------------- MODULE MCNegotiations ----------------------------
(* A small instance of Negotiations: two offers, two requests under way.    *)
EXTENDS Negotiations, TLC
=============================================================================
