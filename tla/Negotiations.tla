----------------------------- MODULE Negotiations -----------------------------
(***************************************************************************)
(* One rent negotiation of a tenant and a landlord (negotiation_agent/).    *)
(* Every operation first loads the negotiation without locking it; most     *)
(* lock only the offer they are about, so they decide on a copy of the      *)
(* negotiation that may be out of date, and overwrite its status blindly.   *)
(***************************************************************************)
EXTENDS Naturals, FiniteSets

CONSTANTS
  Offers,        \* rows of NegotiationOffer, at most
  Requests,      \* requests and tool calls under way at the same time
  MaxOpenOffers, \* NEGOTIATION_AGENT_MAX_OPEN_OFFERS, of each party
  None

ASSUME NegotiationsAssumption ==
  /\ MaxOpenOffers \in Nat \ {0}
  /\ None \notin Offers

VARIABLES
  negotiation, \* Negotiation.status
  late,        \* the negotiation's expires_at has passed
  status,      \* NegotiationOffer.status; "none" before the row exists
  sender,      \* NegotiationOffer.sender
  kind,        \* NegotiationOffer.kind
  due,         \* sent offers whose expires_at has passed
  posted,      \* chat messages posted with the offer
  request      \* what each request has read and has yet to write

offerVars == <<status, sender, kind, due, posted>>
vars == <<negotiation, late, offerVars, request>>

Parties == {"tenant", "landlord"}
OpenStates == {"initiated", "active", "offer_pending", "counter_offer_pending"}
TerminalStates == {"accepted", "rejected", "expired", "cancelled", "closed"}
Decided == {"accepted", "rejected", "expired", "withdrawn"}

(* TRANSITIONS, for the targets the services ask for.                       *)
Legal(s, t) == s \in OpenStates \/ (s = "accepted" /\ t = "closed")

(* transition_negotiation, asked of a copy: a move that is legal from the   *)
(* copy's status is saved over whatever status the row has by now.          *)
After(copy, t) == IF copy # t /\ Legal(copy, t) THEN t ELSE negotiation

Idle == [step |-> "idle"]
Loaded(copy) == [step |-> "loaded", copy |-> copy]
Drafting(u) == [step |-> "drafting", party |-> u]
Rejecting(o, outcome, reopens) ==
  [step |-> "rejecting", offer |-> o, outcome |-> outcome, reopens |-> reopens]

(* Offers whose row a rejection under way has locked.                       *)
Locked(o) == \E q \in Requests :
  request[q].step = "rejecting" /\ request[q].offer = o

(* A request that finished, one way or the other.                           *)
Done(q) == request' = [request EXCEPT ![q] = Idle]

Init ==
  /\ negotiation = "initiated"
  /\ late = FALSE
  /\ status = [o \in Offers |-> "none"]
  /\ sender = [o \in Offers |-> None]
  /\ kind = [o \in Offers |-> None]
  /\ due = {}
  /\ posted = [o \in Offers |-> 0]
  /\ request = [q \in Requests |-> Idle]

-----------------------------------------------------------------------------
(* resolve_negotiation.                                                     *)
Load(q) ==
  /\ request[q] = Idle
  /\ request' = [request EXCEPT ![q] = Loaded(negotiation)]
  /\ UNCHANGED <<negotiation, late, offerVars>>

(* The request's transaction is rolled back or never begun: it was refused, *)
(* or its worker died.                                                      *)
GiveUp(q) ==
  /\ request[q] # Idle
  /\ Done(q)
  /\ UNCHANGED <<negotiation, late, offerVars>>

(* What a request may still see of the negotiation: its own copy.           *)
Sees(q, states) == request[q].step = "loaded" /\ request[q].copy \in states

OpenOffers(u) ==
  {o \in Offers : sender[o] = u /\ status[o] \in {"draft", "sent"}}

(* draft_offer counts the party's open offers ...                           *)
DraftCheck(q, u) ==
  /\ Sees(q, OpenStates)
  /\ Cardinality(OpenOffers(u)) < MaxOpenOffers
  /\ request' = [request EXCEPT ![q] = Drafting(u)]
  /\ UNCHANGED <<negotiation, late, offerVars>>

(* ... and creates one more; a draft of the same amount would be returned.  *)
DraftInsert(q, o, k) ==
  /\ request[q].step = "drafting"
  /\ status[o] = "none"
  /\ status' = [status EXCEPT ![o] = "draft"]
  /\ sender' = [sender EXCEPT ![o] = request[q].party]
  /\ kind' = [kind EXCEPT ![o] = k]
  /\ Done(q)
  /\ UNCHANGED <<negotiation, late, due, posted>>

(* send_offer locks the offer and, by its join, the negotiation: it reads   *)
(* both afresh.  A second send of the offer is answered, without effect.    *)
Bug_SendAgain(q, o) == \* anything but a decided offer is sent
  /\ request[q].step = "loaded"
  /\ ~Locked(o)
  /\ negotiation \in OpenStates /\ ~late
  /\ status[o] \in {"draft", "sent"}
  /\ posted' = [posted EXCEPT ![o] = @ + 1]
  /\ status' = [status EXCEPT ![o] = "sent"]
  /\ negotiation' = After(negotiation,
       IF kind[o] = "counter" THEN "counter_offer_pending" ELSE "offer_pending")
  /\ Done(q)
  /\ UNCHANGED <<late, sender, kind, due>>
Send(q, o) ==
  /\ request[q].step = "loaded"
  /\ ~Locked(o)
  /\ negotiation \in OpenStates /\ ~late
  /\ status[o] = "draft"
  /\ posted' = [posted EXCEPT ![o] = @ + 1]
  /\ status' = [status EXCEPT ![o] = "sent"]
  /\ negotiation' = After(negotiation,
       IF kind[o] = "counter" THEN "counter_offer_pending" ELSE "offer_pending")
  /\ Done(q)
  /\ UNCHANGED <<late, sender, kind, due>>

(* reject_offer locks the offer, marks it, and looks for other offers that  *)
(* are still out, as committed: they may be on their way to a decision too. *)
Bug_RejectUnlocked(q, o, u) == \* get() instead of select_for_update().get()
  LET others == {x \in Offers \ {o} : status[x] = "sent"} IN
  /\ Sees(q, OpenStates) /\ ~late
  /\ status[o] = "sent"
  /\ request' = [request EXCEPT ![q] = Rejecting(o,
       IF sender[o] = u THEN "withdrawn" ELSE "rejected",
       others = {} /\ request[q].copy # "active")]
  /\ UNCHANGED <<negotiation, late, offerVars>>
RejectOffer(q, o, u) ==
  LET others == {x \in Offers \ {o} : status[x] = "sent"} IN
  /\ Sees(q, OpenStates) /\ ~late
  /\ ~Locked(o)
  /\ status[o] = "sent"
  /\ request' = [request EXCEPT ![q] = Rejecting(o,
       IF sender[o] = u THEN "withdrawn" ELSE "rejected",
       others = {} /\ request[q].copy # "active")]
  /\ UNCHANGED <<negotiation, late, offerVars>>

(* The commit: with no offer out, the negotiation falls back to active.     *)
RejectCommit(q) ==
  /\ request[q].step = "rejecting"
  /\ status' = [status EXCEPT ![request[q].offer] = request[q].outcome]
  /\ negotiation' = IF request[q].reopens THEN "active" ELSE negotiation
  /\ Done(q)
  /\ UNCHANGED <<late, sender, kind, due, posted>>

(* accept_offer, by the counterparty, of an offer that is out and in time.  *)
AcceptOffer(q, o, u) ==
  /\ Sees(q, OpenStates)
  /\ ~Locked(o)
  /\ sender[o] # u
  /\ status[o] = "sent" /\ o \notin due
  /\ status' = [status EXCEPT ![o] = "accepted"]
  /\ negotiation' = After(request[q].copy, "accepted")
  /\ Done(q)
  /\ UNCHANGED <<late, sender, kind, due, posted>>

(* finalize_negotiation.  Closing a closed one again has no effect.         *)
Bug_FinalizeOpen(q) == \* only a terminal negotiation is refused
  /\ Sees(q, OpenStates \cup {"accepted"})
  /\ negotiation' = After(request[q].copy, "closed")
  /\ Done(q)
  /\ UNCHANGED <<late, offerVars>>
Finalize(q) ==
  /\ Sees(q, {"accepted"})
  /\ negotiation' = After(request[q].copy, "closed")
  /\ Done(q)
  /\ UNCHANGED <<late, offerVars>>

(* reject_negotiation and cancel_negotiation.                               *)
End(q, outcome) ==
  /\ Sees(q, OpenStates)
  /\ negotiation' = After(request[q].copy, outcome)
  /\ Done(q)
  /\ UNCHANGED <<late, offerVars>>

-----------------------------------------------------------------------------
(* NEGOTIATION_AGENT_NEGOTIATION_TTL_DAYS, and an offer's shorter time, go  *)
(* by.                                                                      *)
Deadline ==
  /\ ~late
  /\ late' = TRUE
  /\ UNCHANGED <<negotiation, offerVars, request>>
OfferDeadline(o) ==
  /\ status[o] = "sent" /\ o \notin due
  /\ due' = due \cup {o}
  /\ UNCHANGED <<negotiation, late, status, sender, kind, posted, request>>

(* expire_negotiations, the task: one transaction over every row it locks.  *)
DueOffers == {o \in due : status[o] = "sent"}
Bug_ExpireOffersOnly == \* the second loop is forgotten
  /\ DueOffers # {}
  /\ \A o \in DueOffers : ~Locked(o)
  /\ status' = [o \in Offers |-> IF o \in DueOffers THEN "expired" ELSE status[o]]
  /\ UNCHANGED <<negotiation, late, sender, kind, due, posted, request>>
Expire ==
  /\ DueOffers # {} \/ (late /\ negotiation \in OpenStates)
  /\ \A o \in DueOffers : ~Locked(o)
  /\ status' = [o \in Offers |-> IF o \in DueOffers THEN "expired" ELSE status[o]]
  /\ negotiation' = IF late THEN After(negotiation, "expired") ELSE negotiation
  /\ UNCHANGED <<late, sender, kind, due, posted, request>>

-----------------------------------------------------------------------------
Next ==
  \/ \E q \in Requests :
       \/ Load(q) \/ GiveUp(q) \/ RejectCommit(q) \/ Finalize(q)
       \/ \E outcome \in {"rejected", "cancelled"} : End(q, outcome)
       \/ \E u \in Parties : DraftCheck(q, u)
       \/ \E o \in Offers :
            \/ Send(q, o)
            \/ \E k \in {"offer", "counter"} : DraftInsert(q, o, k)
            \/ \E u \in Parties : RejectOffer(q, o, u) \/ AcceptOffer(q, o, u)
  \/ \E o \in Offers : OfferDeadline(o)
  \/ Deadline
  \/ Expire

Spec == Init /\ [][Next]_vars

(* Time passes, a transaction that was begun ends, and the beat schedule    *)
(* keeps running its task.                                                  *)
FairSpec ==
  /\ Spec
  /\ WF_vars(Deadline) /\ \A o \in Offers : WF_vars(OfferDeadline(o))
  /\ \A q \in Requests : WF_vars(request[q].step = "rejecting" /\ (RejectCommit(q) \/ GiveUp(q)))
  /\ WF_vars(Expire)

-----------------------------------------------------------------------------
(* Every variable holds a value of its kind.                                *)
TypeOK ==
  /\ negotiation \in OpenStates \cup TerminalStates
  /\ late \in BOOLEAN
  /\ status \in [Offers -> {"none", "draft", "sent"} \cup Decided]
  /\ sender \in [Offers -> Parties \cup {None}]
  /\ kind \in [Offers -> {"offer", "counter", None}]
  /\ due \subseteq Offers
  /\ posted \in [Offers -> Nat]
  /\ request \in [Requests ->
       {Idle} \cup {Loaded(c) : c \in OpenStates \cup TerminalStates}
         \cup {Drafting(u) : u \in Parties}
         \cup {Rejecting(o, t, b) : o \in Offers,
                 t \in {"rejected", "withdrawn"}, b \in BOOLEAN}]

(* Two requests, or a request and the expiry task, never decide one offer   *)
(* twice: whatever copies they hold, an accepted, rejected, withdrawn or    *)
(* expired offer keeps its outcome.                                         *)
DecidedOnce ==
  [][\A o \in Offers : status[o] \in Decided => status'[o] = status[o]]_vars

(* However stale the copies the statuses are written from, a negotiation is *)
(* accepted or closed only over an offer that really was accepted.          *)
DealHasOffer ==
  negotiation \in {"accepted", "closed"} =>
    \E o \in Offers : status[o] = "accepted"

(* "replay/stale application can never double-send": an offer is in the     *)
(* chat once if it was ever sent, and not before.                           *)
PostedOnce ==
  \A o \in Offers : posted[o] = IF status[o] \in {"none", "draft"} THEN 0 ELSE 1

(* "so a negotiation can never hang forever": past its deadline it ends and *)
(* stays ended, though a rejection under way may reopen it in between, and  *)
(* an offer that is out gets decided.                                       *)
NothingHangs ==
  /\ <>[](negotiation \in TerminalStates)
  /\ \A o \in Offers : status[o] = "sent" ~> status[o] \in Decided

(* Not true: a terminal negotiation stays as it ended (tests.py:277).       *)
TerminalStays ==
  [][(negotiation \in TerminalStates) =>
       negotiation' \in {negotiation, "closed"}]_vars

(* Not true: at most one offer of the negotiation is accepted.              *)
OneDeal == \A o, x \in Offers :
  status[o] = "accepted" /\ status[x] = "accepted" => o = x

(* Not true: a party's open offers stay within the limit.                   *)
LimitHolds == \A u \in Parties : Cardinality(OpenOffers(u)) <= MaxOpenOffers
=============================================================================
