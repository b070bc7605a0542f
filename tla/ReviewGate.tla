----------------------------- MODULE ReviewGate -----------------------------
(***************************************************************************)
(* What a human-review gate promises of the actions an agent asks for: each *)
(* is granted by somebody entitled to, is carried out at most once, only    *)
(* while it is granted, and a refusal is for good.                          *)
(***************************************************************************)
EXTENDS Naturals

CONSTANTS
  Actions,  \* what agents may ask for
  Roles,    \* kinds of people
  Entitled  \* action -> the roles that may grant it

VARIABLES
  gate,     \* "unasked", "asked", "granted", "refused" or "done"
  grantor,  \* the role that granted it
  carried   \* how often it was carried out

vars == <<gate, grantor, carried>>

Init == /\ gate = [a \in Actions |-> "unasked"]
        /\ grantor = [a \in Actions |-> "nobody"]
        /\ carried = [a \in Actions |-> 0]

(* An agent asks for one action, or for several at once.                    *)
Ask(S) ==
  /\ \A a \in S : gate[a] = "unasked"
  /\ gate' = [a \in Actions |-> IF a \in S THEN "asked" ELSE gate[a]]
  /\ UNCHANGED <<grantor, carried>>

Grant(a, role) ==
  /\ gate[a] = "asked"
  /\ role \in Entitled[a]
  /\ gate' = [gate EXCEPT ![a] = "granted"]
  /\ grantor' = [grantor EXCEPT ![a] = role]
  /\ UNCHANGED carried

(* Actions are refused, or their grants lapse before they are carried out.  *)
Refuse(S) ==
  /\ \A a \in S : gate[a] \in {"asked", "granted"}
  /\ gate' = [a \in Actions |-> IF a \in S THEN "refused" ELSE gate[a]]
  /\ UNCHANGED <<grantor, carried>>

(* Carrying out may fail, before or after it had its effect.                *)
Perform(a) ==
  /\ gate[a] = "granted"
  /\ gate' = [gate EXCEPT ![a] = "done"]
  /\ carried' \in {carried, [carried EXCEPT ![a] = @ + 1]}
  /\ UNCHANGED grantor

(* Granted and carried out in one go.                                       *)
GrantAndPerform(a, role) ==
  /\ gate[a] = "asked"
  /\ role \in Entitled[a]
  /\ gate' = [gate EXCEPT ![a] = "done"]
  /\ grantor' = [grantor EXCEPT ![a] = role]
  /\ carried' \in {carried, [carried EXCEPT ![a] = @ + 1]}

Next ==
  \/ \E a \in Actions :
       Perform(a) \/ \E role \in Roles : Grant(a, role) \/ GrantAndPerform(a, role)
  \/ \E S \in SUBSET Actions : Ask(S) \/ Refuse(S)

Spec == Init /\ [][Next]_vars
=============================================================================
