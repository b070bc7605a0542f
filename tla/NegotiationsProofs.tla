-------------------------- MODULE NegotiationsProofs --------------------------
(***************************************************************************)
(* Proofs about Negotiations, for any offers, requests and limit.  What the *)
(* stale copies cannot break follows from two facts about the requests: a   *)
(* rejection under way holds an offer that is still out, alone, and a copy  *)
(* that says "accepted" was read when an offer already was.                 *)
(***************************************************************************)
EXTENDS Negotiations, FiniteSetTheorems, TLAPS

SomeAccepted == \E o \in Offers : status[o] = "accepted"

LocksHeld == \A q \in Requests : request[q].step = "rejecting" =>
  /\ status[request[q].offer] = "sent"
  /\ \A r \in Requests \ {q} :
       request[r].step = "rejecting" => request[r].offer # request[q].offer

CopiesHonest == \A q \in Requests :
  Sees(q, {"accepted", "closed"}) => SomeAccepted

IInv == TypeOK /\ LocksHeld /\ CopiesHonest /\ DealHasOffer /\ PostedOnce

-----------------------------------------------------------------------------
(* What each kind of request carries.                                       *)
LEMMA RequestFacts ==
  ASSUME TypeOK, NEW q \in Requests
  PROVE  /\ request[q].step \in {"idle", "loaded", "drafting", "rejecting"}
         /\ request[q].step = "loaded" =>
              request[q].copy \in OpenStates \cup TerminalStates
         /\ request[q].step = "drafting" => request[q].party \in Parties
         /\ request[q].step = "rejecting" =>
              /\ request[q].offer \in Offers
              /\ request[q].outcome \in {"rejected", "withdrawn"}
              /\ request[q].reopens \in BOOLEAN
BY DEF TypeOK, Idle, Loaded, Drafting, Rejecting

(* An offer's status only ever moves forward.                               *)
Forward(s, t) ==
  \/ s = t
  \/ s = "none" /\ t = "draft"
  \/ s = "draft" /\ t = "sent"
  \/ s = "sent" /\ t \in Decided

LEMMA AfterType ==
  ASSUME TypeOK, NEW c, NEW t \in OpenStates \cup TerminalStates
  PROVE  After(c, t) \in OpenStates \cup TerminalStates
BY DEF After, TypeOK

(* A rejection locks an offer that is out and that nobody else has locked.  *)
LEMMA RejectionBegun ==
  ASSUME NEW q \in Requests, NEW o \in Offers, NEW u \in Parties, RejectOffer(q, o, u)
  PROVE  \E t \in {"rejected", "withdrawn"}, b \in BOOLEAN :
           request' = [request EXCEPT ![q] = Rejecting(o, t, b)]
<1>1. PICK t \in {"rejected", "withdrawn"} :
        t = IF sender[o] = u THEN "withdrawn" ELSE "rejected"
  OBVIOUS
<1>2. PICK b \in BOOLEAN :
        b = ({x \in Offers \ {o} : status[x] = "sent"} = {} /\ request[q].copy # "active")
  OBVIOUS
<1>3. request' = [request EXCEPT ![q] = Rejecting(o, t, b)]
  BY <1>1, <1>2 DEF RejectOffer
<1> QED BY <1>3

LEMMA TypeStep ==
  ASSUME TypeOK, [Next]_vars
  PROVE  TypeOK'
<1> USE DEF TypeOK, offerVars, Done
<1>1. ASSUME NEW q \in Requests, Load(q) \/ GiveUp(q) PROVE TypeOK'
  BY <1>1 DEF Load, GiveUp
<1>2. ASSUME NEW q \in Requests, NEW u \in Parties, DraftCheck(q, u) PROVE TypeOK'
  BY <1>2 DEF DraftCheck
<1>3. ASSUME NEW q \in Requests, NEW o \in Offers, NEW k \in {"offer", "counter"},
             DraftInsert(q, o, k)
      PROVE  TypeOK'
  BY <1>3, RequestFacts DEF DraftInsert
<1>4. ASSUME NEW q \in Requests, NEW o \in Offers, Send(q, o) PROVE TypeOK'
  <2>1. negotiation' \in OpenStates \cup TerminalStates
    BY <1>4, AfterType DEF Send, OpenStates
  <2> QED BY <1>4, <2>1 DEF Send
<1>5. ASSUME NEW q \in Requests, NEW o \in Offers, NEW u \in Parties, RejectOffer(q, o, u)
      PROVE  TypeOK'
  <2>1. PICK t \in {"rejected", "withdrawn"}, b \in BOOLEAN :
          request' = [request EXCEPT ![q] = Rejecting(o, t, b)]
    BY <1>5, RejectionBegun
  <2>2. UNCHANGED <<negotiation, late, offerVars>>
    BY <1>5 DEF RejectOffer
  <2> QED BY <2>1, <2>2
<1>6. ASSUME NEW q \in Requests, RejectCommit(q) PROVE TypeOK'
  BY <1>6, RequestFacts DEF RejectCommit, OpenStates, Decided
<1>7. ASSUME NEW q \in Requests, NEW o \in Offers, NEW u \in Parties, AcceptOffer(q, o, u)
      PROVE  TypeOK'
  <2>1. negotiation' \in OpenStates \cup TerminalStates
    BY <1>7, AfterType DEF AcceptOffer, TerminalStates
  <2> QED BY <1>7, <2>1 DEF AcceptOffer, Decided
<1>8. ASSUME NEW q \in Requests, Finalize(q) PROVE TypeOK'
  <2>1. negotiation' \in OpenStates \cup TerminalStates
    BY <1>8, AfterType DEF Finalize, TerminalStates
  <2> QED BY <1>8, <2>1 DEF Finalize
<1>9. ASSUME NEW q \in Requests, NEW e \in {"rejected", "cancelled"}, End(q, e) PROVE TypeOK'
  <2>1. negotiation' \in OpenStates \cup TerminalStates
    BY <1>9, AfterType DEF End, TerminalStates
  <2> QED BY <1>9, <2>1 DEF End
<1>10. ASSUME NEW o \in Offers, OfferDeadline(o) PROVE TypeOK'
  BY <1>10 DEF OfferDeadline
<1>11. CASE Deadline
  BY <1>11 DEF Deadline
<1>12. CASE Expire
  <2>1. negotiation' \in OpenStates \cup TerminalStates
    BY <1>12, AfterType DEF Expire, TerminalStates
  <2> QED BY <1>12, <2>1 DEF Expire, Decided
<1>13. CASE UNCHANGED vars
  BY <1>13 DEF vars
<1> HIDE DEF TypeOK, offerVars, Done
<1> QED
  BY <1>1, <1>2, <1>3, <1>4, <1>5, <1>6, <1>7, <1>8, <1>9, <1>10, <1>11, <1>12, <1>13 DEF Next

LEMMA ForwardStep ==
  ASSUME TypeOK, LocksHeld, [Next]_vars, NEW x \in Offers
  PROVE  Forward(status[x], status'[x])
<1> USE DEF TypeOK, Forward, offerVars
<1>1. ASSUME NEW q \in Requests, NEW o \in Offers, NEW k \in {"offer", "counter"},
             DraftInsert(q, o, k)
      PROVE  Forward(status[x], status'[x])
  BY <1>1 DEF DraftInsert
<1>2. ASSUME NEW q \in Requests, NEW o \in Offers, Send(q, o)
      PROVE  Forward(status[x], status'[x])
  BY <1>2 DEF Send
<1>3. ASSUME NEW q \in Requests, RejectCommit(q) PROVE Forward(status[x], status'[x])
  BY <1>3, RequestFacts DEF RejectCommit, LocksHeld, Decided
<1>4. ASSUME NEW q \in Requests, NEW o \in Offers, NEW u \in Parties, AcceptOffer(q, o, u)
      PROVE  Forward(status[x], status'[x])
  BY <1>4 DEF AcceptOffer, Decided
<1>5. CASE Expire
  BY <1>5 DEF Expire, DueOffers, Decided
<1>6. CASE UNCHANGED status
  BY <1>6
<1> QED
  BY <1>1, <1>2, <1>3, <1>4, <1>5, <1>6
  DEF Next, vars, Load, GiveUp, Finalize, End, DraftCheck, RejectOffer, OfferDeadline, Deadline

LEMMA LocksStep ==
  ASSUME TypeOK, LocksHeld, [Next]_vars
  PROVE  LocksHeld'
<1> USE DEF TypeOK, offerVars, LocksHeld, Done
<1>1. ASSUME NEW q \in Requests, Load(q) \/ GiveUp(q) \/ Finalize(q) PROVE LocksHeld'
  BY <1>1 DEF Load, GiveUp, Finalize, Idle, Loaded
<1>2. ASSUME NEW q \in Requests, NEW e \in {"rejected", "cancelled"}, End(q, e) PROVE LocksHeld'
  BY <1>2 DEF End, Idle
<1>3. ASSUME NEW q \in Requests, NEW u \in Parties, DraftCheck(q, u) PROVE LocksHeld'
  BY <1>3 DEF DraftCheck, Drafting
<1>4. ASSUME NEW q \in Requests, NEW o \in Offers, NEW k \in {"offer", "counter"},
             DraftInsert(q, o, k)
      PROVE  LocksHeld'
  BY <1>4, RequestFacts DEF DraftInsert, Idle
<1>5. ASSUME NEW q \in Requests, NEW o \in Offers, Send(q, o) PROVE LocksHeld'
  BY <1>5, RequestFacts DEF Send, Idle, Locked
<1>6. ASSUME NEW q \in Requests, NEW o \in Offers, NEW u \in Parties, RejectOffer(q, o, u)
      PROVE  LocksHeld'
  <2>1. PICK t \in {"rejected", "withdrawn"}, b \in BOOLEAN :
          request' = [request EXCEPT ![q] = Rejecting(o, t, b)]
    BY <1>6, RejectionBegun
  <2> QED BY <1>6, <2>1, RequestFacts DEF RejectOffer, Locked, Rejecting
<1>7. ASSUME NEW q \in Requests, RejectCommit(q) PROVE LocksHeld'
  BY <1>7, RequestFacts DEF RejectCommit, Idle
<1>8. ASSUME NEW q \in Requests, NEW o \in Offers, NEW u \in Parties, AcceptOffer(q, o, u)
      PROVE  LocksHeld'
  BY <1>8, RequestFacts DEF AcceptOffer, Idle, Locked
<1>9. CASE Expire
  BY <1>9, RequestFacts DEF Expire, DueOffers, Locked
<1>10. CASE UNCHANGED <<status, request>>
  BY <1>10
<1> QED
  BY <1>1, <1>2, <1>3, <1>4, <1>5, <1>6, <1>7, <1>8, <1>9, <1>10
  DEF Next, vars, OfferDeadline, Deadline

LEMMA PostedStep ==
  ASSUME TypeOK, LocksHeld, PostedOnce, [Next]_vars
  PROVE  PostedOnce'
<1> USE DEF TypeOK, offerVars, PostedOnce
<1>1. ASSUME NEW q \in Requests, NEW o \in Offers, NEW k \in {"offer", "counter"},
             DraftInsert(q, o, k)
      PROVE  PostedOnce'
  BY <1>1 DEF DraftInsert
<1>2. ASSUME NEW q \in Requests, NEW o \in Offers, Send(q, o) PROVE PostedOnce'
  BY <1>2 DEF Send
<1>3. ASSUME NEW q \in Requests, RejectCommit(q) PROVE PostedOnce'
  BY <1>3, RequestFacts DEF RejectCommit, LocksHeld
<1>4. ASSUME NEW q \in Requests, NEW o \in Offers, NEW u \in Parties, AcceptOffer(q, o, u)
      PROVE  PostedOnce'
  BY <1>4 DEF AcceptOffer
<1>5. CASE Expire
  BY <1>5 DEF Expire, DueOffers
<1>6. CASE UNCHANGED <<status, posted>>
  BY <1>6
<1> QED
  BY <1>1, <1>2, <1>3, <1>4, <1>5, <1>6
  DEF Next, vars, Load, GiveUp, Finalize, End, DraftCheck, RejectOffer, OfferDeadline, Deadline

(* Once an offer was accepted, one always is.                               *)
LEMMA AcceptedStays ==
  ASSUME TypeOK, LocksHeld, [Next]_vars, SomeAccepted
  PROVE  SomeAccepted'
<1>1. PICK o \in Offers : status[o] = "accepted" BY DEF SomeAccepted
<1>2. status'[o] = "accepted" BY <1>1, ForwardStep DEF Forward
<1> QED BY <1>2 DEF SomeAccepted

LEMMA DealStep ==
  ASSUME TypeOK, LocksHeld, CopiesHonest, DealHasOffer, [Next]_vars
  PROVE  DealHasOffer'
<1> DEFINE Over == {"accepted", "closed"}
<1>1. DealHasOffer <=> (negotiation \in Over => SomeAccepted)
  BY DEF DealHasOffer, SomeAccepted
<1>2. DealHasOffer' <=> (negotiation' \in Over => SomeAccepted')
  BY DEF DealHasOffer, SomeAccepted
<1>3. negotiation' \in Over => negotiation \in Over \/ SomeAccepted \/ SomeAccepted'
  <2> SUFFICES ASSUME negotiation' \in Over, negotiation \notin Over
               PROVE  SomeAccepted \/ SomeAccepted'
    OBVIOUS
  <2> USE DEF TypeOK, offerVars, After
  <2>1. ASSUME NEW q \in Requests, NEW o \in Offers, NEW u \in Parties, AcceptOffer(q, o, u)
        PROVE  SomeAccepted'
    BY <2>1 DEF AcceptOffer, SomeAccepted
  <2>2. ASSUME NEW q \in Requests, Finalize(q) PROVE SomeAccepted
    BY <2>2 DEF Finalize, CopiesHonest, Sees
  <2>3. ASSUME NEW q \in Requests, NEW e \in {"rejected", "cancelled"}, End(q, e) PROVE FALSE
    BY <2>3 DEF End
  <2>4. ASSUME NEW q \in Requests, NEW o \in Offers, Send(q, o) PROVE FALSE
    BY <2>4 DEF Send
  <2>5. ASSUME NEW q \in Requests, RejectCommit(q) PROVE FALSE
    BY <2>5 DEF RejectCommit
  <2>6. CASE Expire
    BY <2>6 DEF Expire
  <2>7. CASE UNCHANGED negotiation
    BY <2>7
  <2> QED
    BY <2>1, <2>2, <2>3, <2>4, <2>5, <2>6, <2>7
    DEF Next, vars, Load, GiveUp, DraftCheck, DraftInsert, RejectOffer, OfferDeadline, Deadline
<1> QED BY <1>1, <1>2, <1>3, AcceptedStays

LEMMA CopiesStep ==
  ASSUME TypeOK, LocksHeld, CopiesHonest, DealHasOffer, [Next]_vars
  PROVE  CopiesHonest'
<1> SUFFICES ASSUME NEW r \in Requests, Sees(r, {"accepted", "closed"})'
             PROVE  SomeAccepted'
  BY DEF CopiesHonest
<1>1. CASE request'[r] = request[r]
  BY <1>1, AcceptedStays DEF CopiesHonest, Sees
<1>2. CASE Load(r)
  BY <1>2, AcceptedStays DEF Load, Loaded, Sees, DealHasOffer, SomeAccepted, TypeOK
<1>3. ASSUME request'[r] # request[r], ~Load(r) PROVE FALSE
  <2> USE <1>3 DEF TypeOK, Sees, offerVars, Done
  <2>1. ASSUME NEW q \in Requests, Load(q) \/ GiveUp(q) \/ Finalize(q) \/ RejectCommit(q)
        PROVE FALSE
    BY <2>1 DEF Load, GiveUp, Finalize, RejectCommit, Idle
  <2>2. ASSUME NEW q \in Requests, NEW e \in {"rejected", "cancelled"}, End(q, e) PROVE FALSE
    BY <2>2 DEF End, Idle
  <2>3. ASSUME NEW q \in Requests, NEW u \in Parties, DraftCheck(q, u) PROVE FALSE
    BY <2>3 DEF DraftCheck, Drafting
  <2>4. ASSUME NEW q \in Requests, NEW o \in Offers, NEW k \in {"offer", "counter"},
               DraftInsert(q, o, k)
        PROVE FALSE
    BY <2>4 DEF DraftInsert, Idle
  <2>5. ASSUME NEW q \in Requests, NEW o \in Offers, Send(q, o) PROVE FALSE
    BY <2>5 DEF Send, Idle
  <2>6. ASSUME NEW q \in Requests, NEW o \in Offers, NEW u \in Parties, RejectOffer(q, o, u)
        PROVE FALSE
    <3>1. PICK t \in {"rejected", "withdrawn"}, b \in BOOLEAN :
            request' = [request EXCEPT ![q] = Rejecting(o, t, b)]
      BY <2>6, RejectionBegun
    <3> QED BY <3>1 DEF Rejecting
  <2>7. ASSUME NEW q \in Requests, NEW o \in Offers, NEW u \in Parties, AcceptOffer(q, o, u)
        PROVE FALSE
    BY <2>7 DEF AcceptOffer, Idle
  <2> QED
    BY <2>1, <2>2, <2>3, <2>4, <2>5, <2>6, <2>7
    DEF Next, vars, OfferDeadline, Deadline, Expire
<1> QED BY <1>1, <1>2, <1>3

-----------------------------------------------------------------------------
THEOREM Invariance == Spec => []IInv
<1>1. Init => IInv
  <2> USE DEF Init
  <2>1. Init => TypeOK
    <3> SUFFICES ASSUME Init PROVE TypeOK OBVIOUS
    <3>1. negotiation \in OpenStates \cup TerminalStates /\ late \in BOOLEAN
      BY DEF OpenStates
    <3>2. /\ status \in [Offers -> {"none", "draft", "sent"} \cup Decided]
          /\ posted \in [Offers -> Nat]
      OBVIOUS
    <3>3. /\ sender \in [Offers -> Parties \cup {None}]
          /\ kind \in [Offers -> {"offer", "counter", None}]
          /\ due \subseteq Offers
      OBVIOUS
    <3> QED BY <3>1, <3>2, <3>3 DEF TypeOK
  <2>2. Init => LocksHeld /\ CopiesHonest BY DEF LocksHeld, CopiesHonest, Sees, Idle
  <2>3. Init => DealHasOffer /\ PostedOnce BY DEF DealHasOffer, PostedOnce
  <2> QED BY <2>1, <2>2, <2>3 DEF IInv
<1>2. IInv /\ [Next]_vars => IInv'
  BY TypeStep, LocksStep, CopiesStep, DealStep, PostedStep DEF IInv
<1> QED BY <1>1, <1>2, PTL DEF Spec

(* Every reachable state is well typed.                                     *)
THEOREM TypeCorrect == Spec => []TypeOK
BY Invariance, PTL DEF IInv

(* An accepted or closed negotiation rests on an accepted offer.            *)
THEOREM DealsAreReal == Spec => []DealHasOffer
BY Invariance, PTL DEF IInv

(* An offer is in the chat once if it was ever sent, and not before.        *)
THEOREM NeverDoubleSent == Spec => []PostedOnce
BY Invariance, PTL DEF IInv

(* An offer that was decided keeps its outcome.                             *)
THEOREM OutcomesKeep == Spec => DecidedOnce
<1>1. IInv /\ [Next]_vars =>
        [\A o \in Offers : status[o] \in Decided => status'[o] = status[o]]_vars
  BY ForwardStep DEF IInv, Forward, Decided
<1> QED BY <1>1, Invariance, PTL DEF Spec, DecidedOnce
-----------------------------------------------------------------------------
(* What a lock on the negotiation, from the first read of it, would give:   *)
(* nobody decides on an open copy of a negotiation that has ended.          *)
CopiesOpen == \A q \in Requests :
  Sees(q, OpenStates) \/ (request[q].step = "rejecting" /\ request[q].reopens)
    => negotiation \in OpenStates

(* A deal is the end of the bargaining: then there is only one.             *)
DealEnds == (SomeAccepted => negotiation \in {"accepted", "closed"}) /\ OneDeal

(* What a step may do to the negotiation when copies are fresh.             *)
LEMMA FreshStep ==
  ASSUME IInv, CopiesOpen, [Next]_vars
  PROVE  \/ negotiation' = negotiation
         \/ negotiation \in OpenStates
         \/ negotiation = "accepted" /\ negotiation' = "closed"
         \/ negotiation' = "closed" /\ SomeAccepted
<1> USE DEF IInv, TypeOK, offerVars, After
<1>1. ASSUME NEW q \in Requests, NEW o \in Offers, NEW u \in Parties, AcceptOffer(q, o, u)
      PROVE  negotiation \in OpenStates
  BY <1>1 DEF AcceptOffer, CopiesOpen
<1>2. ASSUME NEW q \in Requests, Finalize(q) PROVE negotiation' = "closed" /\ SomeAccepted
  BY <1>2 DEF Finalize, CopiesHonest, Sees, Legal
<1>3. ASSUME NEW q \in Requests, NEW e \in {"rejected", "cancelled"}, End(q, e)
      PROVE  negotiation \in OpenStates
  BY <1>3 DEF End, CopiesOpen
<1>4. ASSUME NEW q \in Requests, NEW o \in Offers, Send(q, o) PROVE negotiation \in OpenStates
  BY <1>4 DEF Send
<1>5. ASSUME NEW q \in Requests, RejectCommit(q)
      PROVE  negotiation' = negotiation \/ negotiation \in OpenStates
  BY <1>5 DEF RejectCommit, CopiesOpen
<1>6. CASE Expire
  BY <1>6 DEF Expire, Legal
<1>7. CASE UNCHANGED negotiation
  BY <1>7
<1> QED
  BY <1>1, <1>2, <1>3, <1>4, <1>5, <1>6, <1>7
  DEF Next, vars, Load, GiveUp, DraftCheck, DraftInsert, RejectOffer, OfferDeadline, Deadline

(* An offer is accepted on an open copy, and the negotiation with it.       *)
LEMMA AcceptanceStep ==
  ASSUME IInv, CopiesOpen, [Next]_vars, NEW x \in Offers,
         status[x] # "accepted", status'[x] = "accepted"
  PROVE  /\ negotiation \in OpenStates /\ negotiation' = "accepted"
         /\ \A o \in Offers \ {x} : status'[o] = status[o]
<1> USE DEF IInv, TypeOK, offerVars
<1>1. ASSUME NEW q \in Requests, NEW o \in Offers, NEW u \in Parties, AcceptOffer(q, o, u)
      PROVE  /\ negotiation \in OpenStates /\ negotiation' = "accepted"
             /\ \A y \in Offers \ {x} : status'[y] = status[y]
  BY <1>1 DEF AcceptOffer, CopiesOpen, Sees, After, Legal, OpenStates
<1>2. ASSUME NEW q \in Requests, RejectCommit(q) PROVE FALSE
  BY <1>2, RequestFacts DEF RejectCommit
<1>3. ASSUME NEW q \in Requests, NEW o \in Offers, NEW k \in {"offer", "counter"},
             DraftInsert(q, o, k)
      PROVE  FALSE
  BY <1>3 DEF DraftInsert
<1>4. ASSUME NEW q \in Requests, NEW o \in Offers, Send(q, o) PROVE FALSE
  BY <1>4 DEF Send
<1>5. CASE Expire
  BY <1>5 DEF Expire
<1>6. status' # status
  OBVIOUS
<1> QED
  BY <1>1, <1>2, <1>3, <1>4, <1>5, <1>6
  DEF Next, vars, Load, GiveUp, Finalize, End, DraftCheck, RejectOffer, OfferDeadline, Deadline

LEMMA DealEndsStep ==
  ASSUME IInv, CopiesOpen, DealEnds, [Next]_vars
  PROVE  DealEnds'
<1>1. CASE \A x \in Offers : status'[x] = "accepted" => status[x] = "accepted"
  <2>1. SomeAccepted' => SomeAccepted /\ negotiation \in {"accepted", "closed"}
    BY <1>1 DEF DealEnds, SomeAccepted
  <2>2. SomeAccepted' => negotiation' \in {"accepted", "closed"}
    BY <2>1, FreshStep DEF OpenStates
  <2>3. OneDeal'
    BY <1>1 DEF DealEnds, OneDeal
  <2> QED BY <2>2, <2>3 DEF DealEnds
<1>2. CASE \E x \in Offers : status'[x] = "accepted" /\ status[x] # "accepted"
  <2>1. PICK x \in Offers : status'[x] = "accepted" /\ status[x] # "accepted"
    BY <1>2
  <2>2. /\ negotiation \in OpenStates /\ negotiation' = "accepted"
        /\ \A o \in Offers \ {x} : status'[o] = status[o]
    BY <2>1, AcceptanceStep
  <2>3. ~SomeAccepted
    BY <2>2 DEF DealEnds, OpenStates
  <2>4. OneDeal'
    BY <2>2, <2>3 DEF OneDeal, SomeAccepted
  <2> QED BY <2>2, <2>4 DEF DealEnds
<1> QED BY <1>1, <1>2

(* Were copies fresh, a negotiation would close at most one deal ...        *)
THEOREM OneDealWhenFresh == Spec /\ []CopiesOpen => []OneDeal
<1>1. Init => DealEnds
  BY DEF Init, DealEnds, SomeAccepted, OneDeal
<1>2. IInv /\ CopiesOpen /\ DealEnds /\ [Next]_vars => DealEnds'
  BY DealEndsStep
<1>3. DealEnds => OneDeal
  BY DEF DealEnds
<1> QED BY <1>1, <1>2, <1>3, Invariance, PTL DEF Spec

(* ... and would stay as it ended, but for a deal that is closed.           *)
THEOREM EndsForGoodWhenFresh == Spec /\ []CopiesOpen => TerminalStays
<1> DEFINE Stays == negotiation \in TerminalStates => negotiation' \in {negotiation, "closed"}
<1>1. IInv /\ CopiesOpen /\ [Next]_vars => Stays
  BY FreshStep DEF OpenStates, TerminalStates
<1> HIDE DEF Stays
<1>2. Spec /\ []CopiesOpen => [][Stays]_vars
  BY <1>1, Invariance, PTL DEF Spec
<1> QED BY <1>2 DEF Stays, TerminalStays
-----------------------------------------------------------------------------
(* What a lock over draft_offer would give: between the count of a party's  *)
(* open offers and the new draft, no other draft of that party.             *)
Drafts(q, u) == request[q].step = "drafting" /\ request[q].party = u
OneDrafts == \A q, r \in Requests, u \in Parties : Drafts(q, u) /\ Drafts(r, u) => q = r

(* There is still room for the draft that was counted.                      *)
RoomToDraft == \A q \in Requests, u \in Parties :
  Drafts(q, u) => Cardinality(OpenOffers(u)) < MaxOpenOffers

LEMMA OpenCounted ==
  ASSUME IsFiniteSet(Offers), NEW u
  PROVE  /\ IsFiniteSet(OpenOffers(u)) /\ Cardinality(OpenOffers(u)) \in Nat
         /\ IsFiniteSet(OpenOffers(u)') /\ Cardinality(OpenOffers(u)') \in Nat
<1>1. IsFiniteSet(OpenOffers(u)) /\ IsFiniteSet(OpenOffers(u)')
  BY FS_Subset DEF OpenOffers
<1> QED BY <1>1, FS_CardinalityType

(* No step but the insert of a draft opens an offer.                        *)
LEMMA OpenOffersShrink ==
  ASSUME TypeOK, LocksHeld, [Next]_vars, NEW u \in Parties,
         \A q \in Requests, o \in Offers, k \in {"offer", "counter"} : ~DraftInsert(q, o, k)
  PROVE  OpenOffers(u)' \subseteq OpenOffers(u)
<1>1. sender' = sender
  BY DEF Next, vars, offerVars, Load, GiveUp, RejectCommit, Finalize, End, DraftCheck, Send,
         RejectOffer, AcceptOffer, OfferDeadline, Deadline, Expire
<1>2. ASSUME NEW x \in Offers, status[x] = "none" PROVE status'[x] = "none"
  <2> USE <1>2 DEF TypeOK, offerVars
  <2>1. ASSUME NEW q \in Requests, NEW o \in Offers, Send(q, o) PROVE status'[x] = "none"
    BY <2>1 DEF Send
  <2>2. ASSUME NEW q \in Requests, RejectCommit(q) PROVE status'[x] = "none"
    BY <2>2, RequestFacts DEF RejectCommit, LocksHeld
  <2>3. ASSUME NEW q \in Requests, NEW o \in Offers, NEW v \in Parties, AcceptOffer(q, o, v)
        PROVE  status'[x] = "none"
    BY <2>3 DEF AcceptOffer
  <2>4. CASE Expire
    BY <2>4 DEF Expire, DueOffers
  <2>5. CASE UNCHANGED status
    BY <2>5
  <2> QED
    BY <2>1, <2>2, <2>3, <2>4, <2>5
    DEF Next, vars, Load, GiveUp, Finalize, End, DraftCheck, RejectOffer, OfferDeadline, Deadline
<1> QED BY <1>1, <1>2, ForwardStep DEF OpenOffers, Forward, Decided

(* A step that opens no offer, for a party that has not begun a draft.      *)
LEMMA NoneOpened ==
  ASSUME IsFiniteSet(Offers), RoomToDraft, LimitHolds, NEW u \in Parties,
         OpenOffers(u)' \subseteq OpenOffers(u)
  PROVE  /\ Cardinality(OpenOffers(u)') <= MaxOpenOffers
         /\ (\E q \in Requests : Drafts(q, u)) => Cardinality(OpenOffers(u)') < MaxOpenOffers
<1>1. Cardinality(OpenOffers(u)') <= Cardinality(OpenOffers(u))
  BY OpenCounted, FS_Subset
<1>2. /\ Cardinality(OpenOffers(u)) <= MaxOpenOffers
      /\ (\E q \in Requests : Drafts(q, u)) => Cardinality(OpenOffers(u)) < MaxOpenOffers
  BY DEF LimitHolds, RoomToDraft
<1> DEFINE before == Cardinality(OpenOffers(u))
           after == Cardinality(OpenOffers(u)')
<1>3. before \in Nat /\ after \in Nat /\ MaxOpenOffers \in Nat
  BY OpenCounted, NegotiationsAssumption
<1> HIDE DEF before, after
<1> QED BY <1>1, <1>2, <1>3 DEF before, after

(* A request that is drafting has been, or has just counted.                *)
LEMMA DraftBegins ==
  ASSUME TypeOK, [Next]_vars, NEW r \in Requests, NEW u \in Parties, Drafts(r, u)'
  PROVE  Drafts(r, u) \/ DraftCheck(r, u)
<1> USE DEF TypeOK, offerVars, Drafts, Done
<1>1. ASSUME NEW q \in Requests, Load(q) \/ GiveUp(q) \/ RejectCommit(q) \/ Finalize(q)
      PROVE  Drafts(r, u)
  BY <1>1 DEF Load, GiveUp, RejectCommit, Finalize, Idle, Loaded
<1>2. ASSUME NEW q \in Requests, NEW e \in {"rejected", "cancelled"}, End(q, e)
      PROVE  Drafts(r, u)
  BY <1>2 DEF End, Idle
<1>3. ASSUME NEW q \in Requests, NEW v \in Parties, DraftCheck(q, v)
      PROVE  Drafts(r, u) \/ DraftCheck(r, u)
  <2>1. request' = [request EXCEPT ![q] = Drafting(v)]
    BY <1>3 DEF DraftCheck
  <2>2. CASE q = r
    <3>1. u = v
      BY <2>1, <2>2 DEF Drafting
    <3> QED BY <1>3, <2>2, <3>1
  <2>3. CASE q # r
    BY <2>1, <2>3
  <2> QED BY <2>2, <2>3
<1>4. ASSUME NEW q \in Requests, NEW o \in Offers, NEW k \in {"offer", "counter"},
             DraftInsert(q, o, k)
      PROVE  Drafts(r, u)
  BY <1>4 DEF DraftInsert, Idle
<1>5. ASSUME NEW q \in Requests, NEW o \in Offers, Send(q, o) PROVE Drafts(r, u)
  BY <1>5 DEF Send, Idle
<1>6. ASSUME NEW q \in Requests, NEW o \in Offers, NEW v \in Parties, RejectOffer(q, o, v)
      PROVE  Drafts(r, u)
  <2>1. PICK t \in {"rejected", "withdrawn"}, b \in BOOLEAN :
          request' = [request EXCEPT ![q] = Rejecting(o, t, b)]
    BY <1>6, RejectionBegun
  <2> QED BY <2>1 DEF Rejecting
<1>7. ASSUME NEW q \in Requests, NEW o \in Offers, NEW v \in Parties, AcceptOffer(q, o, v)
      PROVE  Drafts(r, u)
  BY <1>7 DEF AcceptOffer, Idle
<1>8. CASE UNCHANGED request
  BY <1>8
<1> HIDE DEF TypeOK, offerVars, Drafts, Done
<1> QED
  BY <1>1, <1>2, <1>3, <1>4, <1>5, <1>6, <1>7, <1>8
  DEF Next, vars, OfferDeadline, Deadline, Expire

LEMMA RoomStep ==
  ASSUME IsFiniteSet(Offers), IInv, OneDrafts, RoomToDraft, LimitHolds, [Next]_vars
  PROVE  RoomToDraft' /\ LimitHolds'
<1> USE DEF IInv
<1>1. CASE \E q \in Requests, o \in Offers, k \in {"offer", "counter"} : DraftInsert(q, o, k)
  <2>1. PICK q \in Requests, o \in Offers, k \in {"offer", "counter"} : DraftInsert(q, o, k)
    BY <1>1
  <2>2. PICK w \in Parties : Drafts(q, w)
    BY <2>1, RequestFacts DEF DraftInsert, Drafts
  <2>3. /\ request' = [request EXCEPT ![q] = Idle]
        /\ status' = [status EXCEPT ![o] = "draft"] /\ sender' = [sender EXCEPT ![o] = w]
    BY <2>1, <2>2 DEF DraftInsert, Done, Drafts
  <2>4. OpenOffers(w)' \subseteq OpenOffers(w) \cup {o}
    BY <2>3 DEF OpenOffers, TypeOK
  <2>5. ASSUME NEW u \in Parties \ {w} PROVE OpenOffers(u)' \subseteq OpenOffers(u)
    BY <2>3 DEF OpenOffers, TypeOK
  <2>6. Cardinality(OpenOffers(w)') <= MaxOpenOffers
    <3>1. Cardinality(OpenOffers(w) \cup {o}) <= Cardinality(OpenOffers(w)) + 1
          /\ IsFiniteSet(OpenOffers(w) \cup {o})
      <4> DEFINE n == Cardinality(OpenOffers(w))
      <4>1. /\ IsFiniteSet(OpenOffers(w) \cup {o})
            /\ Cardinality(OpenOffers(w) \cup {o}) \in {n, n + 1}
        BY OpenCounted, FS_AddElement
      <4>2. n \in Nat
        BY OpenCounted
      <4> HIDE DEF n
      <4>3. Cardinality(OpenOffers(w) \cup {o}) <= n + 1
        BY <4>1, <4>2
      <4> QED BY <4>1, <4>3 DEF n
    <3>2. Cardinality(OpenOffers(w)') <= Cardinality(OpenOffers(w) \cup {o})
      BY <2>4, <3>1, FS_Subset
    <3>3. Cardinality(OpenOffers(w)) < MaxOpenOffers
      BY <2>2 DEF RoomToDraft
    <3> DEFINE before == Cardinality(OpenOffers(w))
               added == Cardinality(OpenOffers(w) \cup {o})
               after == Cardinality(OpenOffers(w)')
    <3>4. before \in Nat /\ added \in Nat /\ after \in Nat /\ MaxOpenOffers \in Nat
      BY <3>1, OpenCounted, FS_CardinalityType, NegotiationsAssumption
    <3> HIDE DEF before, added, after
    <3> QED BY <3>1, <3>2, <3>3, <3>4 DEF before, added, after
  <2>7. \A r \in Requests, u \in Parties : Drafts(r, u)' => Drafts(r, u) /\ u # w
    BY <2>2, <2>3 DEF Drafts, OneDrafts, Idle, TypeOK
  <2>8. LimitHolds'
    BY <2>5, <2>6, NoneOpened DEF LimitHolds
  <2>9. RoomToDraft'
    BY <2>5, <2>7, NoneOpened DEF RoomToDraft
  <2> QED BY <2>8, <2>9
<1>2. CASE \A q \in Requests, o \in Offers, k \in {"offer", "counter"} : ~DraftInsert(q, o, k)
  <2>1. \A u \in Parties : OpenOffers(u)' \subseteq OpenOffers(u)
    BY <1>2, OpenOffersShrink
  <2>2. LimitHolds'
    BY <2>1, NoneOpened DEF LimitHolds
  <2>3. ASSUME NEW r \in Requests, NEW u \in Parties, Drafts(r, u)'
        PROVE  Drafts(r, u) \/ DraftCheck(r, u)
    BY <2>3, DraftBegins
  <2>4. ASSUME NEW r \in Requests, NEW u \in Parties, DraftCheck(r, u)
        PROVE  Cardinality(OpenOffers(u)') < MaxOpenOffers
    <3>1. OpenOffers(u)' = OpenOffers(u) /\ Cardinality(OpenOffers(u)) < MaxOpenOffers
      BY <2>4 DEF DraftCheck, OpenOffers, offerVars
    <3> QED BY <3>1
  <2> QED BY <2>1, <2>2, <2>3, <2>4, NoneOpened DEF RoomToDraft
<1> QED BY <1>1, <1>2

(* NEGOTIATION_AGENT_MAX_OPEN_OFFERS would hold if a party's drafts were    *)
(* counted and inserted one after the other.                                *)
THEOREM LimitHoldsOneByOne ==
  ASSUME IsFiniteSet(Offers) PROVE Spec /\ []OneDrafts => []LimitHolds
<1>1. Init => RoomToDraft /\ LimitHolds
  <2> SUFFICES ASSUME Init PROVE RoomToDraft /\ LimitHolds OBVIOUS
  <2>1. \A u \in Parties : OpenOffers(u) = {}
    BY DEF Init, OpenOffers
  <2>2. LimitHolds
    BY <2>1, FS_EmptySet, NegotiationsAssumption DEF LimitHolds
  <2> QED BY <2>2 DEF Init, RoomToDraft, Drafts, Idle
<1>2. IInv /\ OneDrafts /\ RoomToDraft /\ LimitHolds /\ [Next]_vars => RoomToDraft' /\ LimitHolds'
  BY RoomStep
<1> QED BY <1>1, <1>2, Invariance, PTL DEF Spec
=============================================================================
