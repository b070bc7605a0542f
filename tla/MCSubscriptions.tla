--------------------------- MODULE MCSubscriptions ---------------------------
(* Small instances of Subscriptions for TLC.                                *)
EXTENDS Subscriptions

CONSTANTS u

MCUserOf == [s \in Subs |-> u]

(* Payments and subscriptions are numbers, in the order in which they were  *)
(* asked for: which of them is which makes no difference.                   *)
InOrder ==
  /\ \A p, q \in Payments : p < q /\ payment[q] # NotAsked => payment[p] # NotAsked
  /\ \A s, t \in Subs : s < t /\ sub[t] # NoRow => sub[s] # NoRow

(* Beside a third payment there are no cancel requests, and callbacks name  *)
(* the payment's own checkout.                                              *)
Small ==
  (\A p \in Payments : payment[p] # NotAsked) =>
    /\ \A c \in Cancels : cancel[c] = Idle
    /\ \A p \in Payments : payment[p].by \in {None, p}

SmallSpec ==
  /\ Init /\ [][Next /\ InOrder' /\ Small']_vars
  /\ WF_vars(TaskRead) /\ \A s \in Subs : WF_vars(TaskSave(s))
=============================================================================
