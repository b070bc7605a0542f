--------------------------- MODULE ProposalsProofs ---------------------------
(***************************************************************************)
(* Proofs about Proposals: consent, at most one effect, finality, and that  *)
(* the workflow implements ReviewGate, for any proposals and workers.       *)
(***************************************************************************)
EXTENDS Proposals, TLAPS

(* The row locks: a row is held by one transaction at most.                 *)
Holds(w, p) == applying[w] = p \/ p \in expiring[w]
RowsHeldAlone ==
  \A v, w \in Workers, p \in Proposals : Holds(v, p) /\ Holds(w, p) => v = w

(* Who applies a proposal does so on an approval, or on the owner's consent;*)
(* the siblings it expires had been proposed, and belong to that proposal.  *)
AppliersHold ==
  \A w \in Workers :
    /\ applying[w] = None => stale[w] = {} /\ expiring[w] = {}
    /\ applying[w] # None =>
         \/ status[applying[w]] = "approved"
         \/ status[applying[w]] = "pending" /\ applying[w] \in Consented
    /\ \A s \in stale[w] \cup expiring[w] :
         s \in Siblings[applying[w]] /\ status[s] # "none"

(* The reviewer on record is the one whose decision the status shows.       *)
ReviewOnRecord ==
  \A p \in Proposals :
    /\ status[p] \in {"none", "pending"} => reviewer[p] = "nobody"
    /\ status[p] \in {"approved", "applied", "failed"} => reviewer[p] \in Entitlement[p]

(* Effects come with the end of an application, one at the most.            *)
EffectsAccounted ==
  \A p \in Proposals :
    /\ effects[p] \in {0, 1}
    /\ effects[p] = 1 => status[p] \in Closed /\ reviewer[p] \in Entitlement[p]

IInv == /\ TypeOK /\ RowsHeldAlone /\ AppliersHold
        /\ ReviewOnRecord /\ EffectsAccounted /\ LedgersAgree

(* What may change of one proposal in a step: the lifecycle of its status,  *)
(* with its reviewer and its effects.                                       *)
Life(p) ==
  \/ UNCHANGED <<status[p], reviewer[p], effects[p]>>
  \/ /\ status[p] = "none" /\ status'[p] = "pending"
     /\ UNCHANGED <<reviewer[p], effects[p]>>
  \/ /\ status[p] = "pending" /\ status'[p] \in {"approved", "rejected"}
     /\ reviewer'[p] \in Entitlement[p] /\ UNCHANGED effects[p]
  \/ /\ status[p] # "none" /\ status'[p] = "expired"
     /\ p \in Only => status[p] \in Open
     /\ UNCHANGED <<reviewer[p], effects[p]>>
  \/ /\ status[p] \in Open /\ status'[p] \in {"applied", "failed"}
     /\ IF status[p] = "pending" THEN reviewer'[p] = "owner" /\ p \in Consented
                                 ELSE UNCHANGED reviewer[p]
     /\ effects'[p] \in {effects[p], effects[p] + 1}

LEMMA EntitlementIsCeiling ==
  ASSUME NEW p \in Proposals
  PROVE  /\ \A role \in MayReview(p) : role \in Roles /\ role \in Entitlement[p]
         /\ p \in Consented => "owner" \in Entitlement[p]
  BY DEF MayReview, Entitlement, Roles

-----------------------------------------------------------------------------
LEMMA InitSound == Init => IInv
<1> SUFFICES ASSUME Init PROVE IInv
  OBVIOUS
<1> USE DEF Init
<1>1. TypeOK
  BY DEF TypeOK, Roles, Open, Closed
<1>2. RowsHeldAlone /\ AppliersHold
  BY ConstantsAssumption DEF RowsHeldAlone, Holds, AppliersHold
<1>3. ReviewOnRecord /\ EffectsAccounted /\ LedgersAgree
  BY DEF ReviewOnRecord, EffectsAccounted, LedgersAgree, Only
<1> QED
  BY <1>1, <1>2, <1>3 DEF IInv

(* What the end of a transaction leaves of the locks.                       *)
LEMMA LocksFreed ==
  ASSUME NEW w \in Workers, TypeOK, RowsHeldAlone, EndTransaction(w)
  PROVE  RowsHeldAlone'
  BY ConstantsAssumption DEF TypeOK, RowsHeldAlone, Holds, EndTransaction

LEMMA StepSound ==
  ASSUME IInv, [Next]_vars
  PROVE  IInv' /\ \A p \in Proposals : Life(p)
<1> USE ConstantsAssumption
<1> USE DEF IInv, TypeOK, RowsHeldAlone, Holds, AppliersHold, ReviewOnRecord,
            EffectsAccounted, LedgersAgree, Life, Open, Closed, txns
<1>1. ASSUME NEW p \in Proposals, Create(p)
      PROVE  IInv' /\ \A q \in Proposals : Life(q)
  BY <1>1 DEF Create
<1>2. ASSUME NEW p \in Proposals, Deadline(p)
      PROVE  IInv' /\ \A q \in Proposals : Life(q)
  BY <1>2 DEF Deadline
<1>3. ASSUME NEW p \in Proposals, NEW role \in Roles, Approve(p, role)
      PROVE  IInv' /\ \A q \in Proposals : Life(q)
  BY <1>3, EntitlementIsCeiling DEF Approve, Locked
<1>4. ASSUME NEW p \in Proposals, NEW role \in Roles, Reject(p, role)
      PROVE  IInv' /\ \A q \in Proposals : Life(q)
  BY <1>4, EntitlementIsCeiling DEF Reject, Locked
<1>5. ASSUME NEW p \in Proposals, OwnerRejects(p)
      PROVE  IInv' /\ \A q \in Proposals : Life(q)
  BY <1>5, EntitlementIsCeiling DEF OwnerRejects, Locked
<1>6. ASSUME NEW w \in Workers, NEW p \in Proposals, ApplyBegin(w, p)
      PROVE  IInv' /\ \A q \in Proposals : Life(q)
  BY <1>6 DEF ApplyBegin, Locked
<1>7. ASSUME NEW w \in Workers, NEW p \in Proposals, OwnerConsents(w, p)
      PROVE  IInv' /\ \A q \in Proposals : Life(q)
  BY <1>7 DEF OwnerConsents, Locked
<1>8. ASSUME NEW w \in Workers, ExpireSibling(w)
      PROVE  IInv' /\ \A q \in Proposals : Life(q)
  BY <1>8 DEF ExpireSibling, Locked
<1>9. ASSUME NEW w \in Workers, ApplyFinish(w)
      PROVE  IInv' /\ \A q \in Proposals : Life(q)
  <2>0. PICK p \in Proposals : p = applying[w]
    BY <1>9 DEF ApplyFinish
  <2>1. PICK s \in {"applied", "failed"} :
          /\ status' = [q \in Proposals |->
               IF q \in expiring[w] THEN "expired" ELSE IF q # p THEN status[q] ELSE s]
          /\ toolcall' = [toolcall EXCEPT ![p] = IF s = "applied" THEN "executed" ELSE "failed"]
          /\ effects' \in {effects, [effects EXCEPT ![p] = @ + 1]}
          /\ s = "applied" => effects' = [effects EXCEPT ![p] = @ + 1]
    <3> HIDE DEF IInv, TypeOK
    <3> QED
      BY <1>9, <2>0 DEF ApplyFinish
  <2>2. /\ reviewer' = IF status[p] = "pending" THEN [reviewer EXCEPT ![p] = "owner"]
                                               ELSE reviewer
        /\ EndTransaction(w) /\ UNCHANGED overdue
    BY <1>9, <2>0 DEF ApplyFinish
  <2>3. p \notin expiring[w] /\ \A q \in expiring[w] : q \notin Only /\ status[q] # "none"
    BY <2>0, <2>1 DEF Only
  <2>4. \/ status[p] = "approved"
        \/ status[p] = "pending" /\ p \in Consented /\ "owner" \in Entitlement[p]
    BY <2>0, <2>1, EntitlementIsCeiling
  <2>5. \A q \in Proposals : Life(q)
    BY <2>0, <2>1, <2>2, <2>3, <2>4
  <2>6. TypeOK'
    BY SMTT(30), <2>0, <2>1, <2>2 DEF EndTransaction
  <2>7. RowsHeldAlone'
    BY <2>2, LocksFreed
  <2>8. AppliersHold'
    BY <2>0, <2>1, <2>2 DEF EndTransaction
  <2>9. ReviewOnRecord' /\ EffectsAccounted'
    BY <2>0, <2>1, <2>2, <2>3, <2>4
  <2>10. LedgersAgree'
    BY <2>0, <2>1, <2>3, <2>4 DEF Only
  <2> QED
    BY <2>5, <2>6, <2>7, <2>8, <2>9, <2>10
<1>10. ASSUME NEW w \in Workers, ApplyRollback(w)
       PROVE  IInv' /\ \A q \in Proposals : Life(q)
  BY <1>10, LocksFreed DEF ApplyRollback, EndTransaction
<1>11. ASSUME Expire
       PROVE  IInv' /\ \A q \in Proposals : Life(q)
  <2>1. PICK S \in SUBSET Proposals : S = {p \in overdue : status[p] \in Open}
    OBVIOUS
  <2>2. /\ \A p \in S : ~Locked(p) /\ status[p] \in Open
        /\ status' = [p \in Proposals |-> IF p \in S THEN "expired" ELSE status[p]]
        /\ UNCHANGED <<overdue, reviewer, toolcall, effects, txns>>
    BY <1>11, <2>1 DEF Expire
  <2>3. \A q \in Proposals : Life(q)
    BY <2>2
  <2>4. TypeOK' /\ RowsHeldAlone'
    BY <2>2
  <2>5. AppliersHold'
    BY <2>2 DEF Locked
  <2>6. ReviewOnRecord' /\ EffectsAccounted'
    BY <2>2
  <2>7. LedgersAgree'
    BY <2>2 DEF Only
  <2> QED
    BY <2>3, <2>4, <2>5, <2>6, <2>7
<1>12. ASSUME UNCHANGED vars
       PROVE  IInv' /\ \A q \in Proposals : Life(q)
  BY <1>12 DEF vars
<1> QED
  BY <1>1, <1>2, <1>3, <1>4, <1>5, <1>6, <1>7, <1>8, <1>9, <1>10, <1>11, <1>12 DEF Next

-----------------------------------------------------------------------------
LEMMA Invariance == Spec => []IInv
<1>1. IInv /\ [Next]_vars => IInv'
  BY StepSound
<1> QED
  BY InitSound, <1>1, PTL DEF Spec

(* Every variable of every reachable state holds a value of its kind.       *)
THEOREM TypeCorrect == Spec => []TypeOK
<1>1. IInv => TypeOK
  BY DEF IInv
<1> QED
  BY Invariance, <1>1, PTL

(* No tool call has an effect unless somebody with the role its proposal    *)
(* asks for approved it, or the conversation's owner consented.             *)
THEOREM Consent == Spec => []ConsentBeforeEffect
<1>1. IInv => ConsentBeforeEffect
  BY DEF IInv, TypeOK, ReviewOnRecord, EffectsAccounted, ConsentBeforeEffect
<1> QED
  BY Invariance, <1>1, PTL

(* However often and however concurrently a proposal is applied, with       *)
(* workers dying in between, its effects are committed at most once.        *)
THEOREM AppliedOnce == Spec => []EffectAtMostOnce
<1>1. IInv => EffectAtMostOnce
  BY DEF IInv, EffectsAccounted, EffectAtMostOnce
<1> QED
  BY Invariance, <1>1, PTL

(* The proposal, its tool call's log entry and its effects always agree.    *)
THEOREM LogsAgree == Spec => []LedgersAgree
<1>1. IInv => LedgersAgree
  BY DEF IInv
<1> QED
  BY Invariance, <1>1, PTL

(* A rejected, expired, applied or failed proposal stays closed, and without*)
(* siblings never moves again.                                              *)
THEOREM ClosedStays == Spec => ClosedForGood
<1>1. ASSUME IInv, [Next]_vars
      PROVE  [\A p \in Proposals : status[p] \in Closed =>
                /\ status'[p] \in Closed /\ effects'[p] = effects[p]
                /\ p \in Only => status'[p] = status[p]]_vars
  <2>1. \A p \in Proposals : Life(p)
    BY <1>1, StepSound
  <2> QED
    BY <2>1 DEF Life, Open, Closed
<1> QED
  BY Invariance, <1>1, PTL DEF Spec, ClosedForGood

-----------------------------------------------------------------------------
(* The refinement: the initial states map to the gate's initial state, and  *)
(* every step to a step of the gate or a stutter.                           *)
GateMap == [p \in Only |-> GateState(status[p])]
GrantorMap == [p \in Only |-> IF status[p] = "rejected" THEN "nobody" ELSE reviewer[p]]
CarriedMap == [p \in Only |-> effects[p]]

LEMMA InitMaps == Init => Gate!Init
  BY DEF Init, Gate!Init, GateState, Only

LEMMA StatusMaps ==
  ASSUME NEW p \in Only, NEW g,
         \A q \in Only : q # p => status'[q] = status[q],
         GateState(status[p])' = g
  PROVE  GateMap' = [GateMap EXCEPT ![p] = g]
<1> HIDE DEF GateState
<1> QED
  BY DEF GateMap

LEMMA StuttersMap ==
  ASSUME \A q \in Only : UNCHANGED <<status[q], reviewer[q], effects[q]>>
  PROVE  UNCHANGED Gate!vars
<1> HIDE DEF GateState
<1> QED
  BY DEF Gate!vars

LEMMA RefuseMaps ==
  ASSUME NEW S \in SUBSET Only,
         \A p \in S : status[p] \in Open,
         \A p \in Only : IF p \in S THEN status'[p] \in {"rejected", "expired"}
                                    ELSE status'[p] = status[p],
         \A p \in Only : reviewer'[p] = reviewer[p] \/ status'[p] = "rejected",
         \A p \in S : status'[p] = "rejected" => reviewer[p] = "nobody",
         effects' = effects
  PROVE  Gate!Refuse(S)
<1>1. \A p \in S : GateState(status[p]) \in {"asked", "granted"}
  BY DEF GateState, Open
<1>2. \A p \in Only :
        GateState(status[p])' = IF p \in S THEN "refused" ELSE GateState(status[p])
  BY DEF GateState
<1>3. GrantorMap' = GrantorMap
  BY DEF GrantorMap, Open
<1> HIDE DEF GateState
<1>4. GateMap' = [p \in Only |-> IF p \in S THEN "refused" ELSE GateMap[p]]
  BY <1>2 DEF GateMap
<1> QED
  BY <1>1, <1>3, <1>4 DEF Gate!Refuse, GateMap, GrantorMap

LEMMA StepMaps ==
  ASSUME IInv, [Next]_vars
  PROVE  [Gate!Next]_Gate!vars
<1> USE ConstantsAssumption
<1> USE DEF IInv, TypeOK, ReviewOnRecord, EffectsAccounted, Open, Closed
<1>a. Only \subseteq Proposals
  BY DEF Only
<1>1. ASSUME NEW p \in Proposals, Create(p)
      PROVE  (Gate!Ask({p}) /\ p \in Only) \/ UNCHANGED Gate!vars
  <2>1. /\ status[p] = "none"
        /\ \A q \in Proposals : status'[q] = IF q = p THEN "pending" ELSE status[q]
        /\ UNCHANGED <<reviewer, effects>>
    BY <1>1 DEF Create
  <2>2. CASE p \notin Only
    BY <1>a, <2>1, <2>2, StuttersMap
  <2>3. CASE p \in Only
    <3>1. GateState(status[p])' = "asked" /\ GateState(status[p]) = "unasked"
      BY <2>1 DEF GateState
    <3>2. \A q \in Only :
            GateState(status[q])' = IF q \in {p} THEN "asked" ELSE GateState(status[q])
      BY <1>a, <2>1, <3>1
    <3>3. GrantorMap' = GrantorMap /\ CarriedMap' = CarriedMap
      BY <1>a, <2>1 DEF GrantorMap, CarriedMap
    <3> HIDE DEF GateState
    <3>4. GateMap' = [q \in Only |-> IF q \in {p} THEN "asked" ELSE GateMap[q]]
      BY <3>2 DEF GateMap
    <3>5. Gate!Ask({p})
      <4>1. \A q \in {p} : GateMap[q] = "unasked"
        BY <2>3, <3>1 DEF GateMap
      <4> QED
        BY <3>3, <3>4, <4>1 DEF Gate!Ask, GateMap, GrantorMap, CarriedMap
    <3> QED
      BY <2>3, <3>5
  <2> QED
    BY <2>2, <2>3
<1>2. ASSUME NEW p \in Proposals, Deadline(p) PROVE UNCHANGED Gate!vars
  <2>1. UNCHANGED <<status, reviewer, effects>>
    BY <1>2 DEF Deadline
  <2> QED
    BY <2>1, StuttersMap
<1>3. ASSUME NEW p \in Proposals, NEW role \in Roles, Approve(p, role)
      PROVE  (Gate!Grant(p, role) /\ p \in Only) \/ UNCHANGED Gate!vars
  <2>1. status[p] = "pending" /\ role \in Entitlement[p]
    BY <1>3, EntitlementIsCeiling DEF Approve
  <2>2. /\ \A q \in Proposals : /\ status'[q] = IF q = p THEN "approved" ELSE status[q]
                                /\ reviewer'[q] = IF q = p THEN role ELSE reviewer[q]
        /\ UNCHANGED effects
    BY <1>3 DEF Approve
  <2>3. CASE p \notin Only
    BY <1>a, <2>2, <2>3, StuttersMap
  <2>4. CASE p \in Only
    <3>1. GateState(status[p])' = "granted" /\ GateState(status[p]) = "asked"
      BY <2>1, <2>2 DEF GateState
    <3>2. GateMap' = [GateMap EXCEPT ![p] = "granted"]
      BY <1>a, <2>2, <2>4, <3>1, StatusMaps
    <3>3. GrantorMap' = [GrantorMap EXCEPT ![p] = role]
      BY ZenonT(40), <1>a, <2>1, <2>2 DEF GrantorMap
    <3>4. CarriedMap' = CarriedMap
      BY <2>2 DEF CarriedMap
    <3> HIDE DEF GateState
    <3> QED
      BY <2>1, <2>4, <3>1, <3>2, <3>3, <3>4 DEF Gate!Grant, GateMap, GrantorMap, CarriedMap
  <2> QED
    BY <2>3, <2>4
<1>4. ASSUME NEW p \in Proposals,
             OwnerRejects(p) \/ \E role \in Roles : Reject(p, role)
      PROVE  (\E S \in SUBSET Only : Gate!Refuse(S)) \/ UNCHANGED Gate!vars
  <2>1. status[p] = "pending" /\ reviewer[p] = "nobody" /\ UNCHANGED effects
    BY <1>4 DEF Reject, OwnerRejects
  <2>2. \A q \in Proposals : /\ status'[q] = IF q = p THEN "rejected" ELSE status[q]
                             /\ q # p => reviewer'[q] = reviewer[q]
    BY <1>4 DEF Reject, OwnerRejects
  <2>3. CASE p \notin Only
    BY <1>a, <2>1, <2>2, <2>3, StuttersMap
  <2>4. CASE p \in Only
    <3>1. PICK S \in SUBSET Only : S = {p}
      BY <2>4
    <3> HIDE DEF IInv, TypeOK
    <3>2. Gate!Refuse(S)
      BY <1>a, <2>1, <2>2, <3>1, RefuseMaps DEF Open
    <3> QED
      BY <3>2
  <2> QED
    BY <2>3, <2>4
<1>5. ASSUME NEW w \in Workers,
             \/ ApplyRollback(w) \/ ExpireSibling(w)
             \/ \E p \in Proposals : ApplyBegin(w, p) \/ OwnerConsents(w, p)
      PROVE  UNCHANGED Gate!vars
  <2>1. UNCHANGED <<status, reviewer, effects>>
    BY <1>5 DEF ApplyRollback, ExpireSibling, ApplyBegin, OwnerConsents
  <2> QED
    BY <2>1, StuttersMap
<1>6. ASSUME NEW w \in Workers, ApplyFinish(w)
      PROVE  \/ UNCHANGED Gate!vars
             \/ \E p \in Only : Gate!Perform(p) \/ Gate!GrantAndPerform(p, "owner")
  <2>1. PICK p \in Proposals : p = applying[w]
    BY <1>6 DEF ApplyFinish
  <2>2. \A q \in Only : q \notin expiring[w]
    BY <2>1 DEF Only, AppliersHold
  <2>3. PICK s \in {"applied", "failed"} :
          \A q \in Only : status'[q] = IF q = p THEN s ELSE status[q]
    BY <1>6, <1>a, <2>1, <2>2 DEF ApplyFinish
  <2>4. \/ status[p] = "approved" /\ reviewer' = reviewer
        \/ /\ status[p] = "pending" /\ p \in Consented
           /\ reviewer' = [reviewer EXCEPT ![p] = "owner"]
    BY <1>6, <2>1 DEF ApplyFinish, AppliersHold
  <2>5. effects' \in {effects, [effects EXCEPT ![p] = @ + 1]}
    BY <1>6, <2>1 DEF ApplyFinish
  <2>6. CASE p \notin Only
    BY <1>a, <2>3, <2>4, <2>5, <2>6, StuttersMap
  <2>7. CASE p \in Only
    <3>1. GateState(status[p])' = "done"
      BY <2>3, <2>7 DEF GateState
    <3>2. GateMap' = [GateMap EXCEPT ![p] = "done"]
      BY <2>3, <2>7, <3>1, StatusMaps
    <3>3. CarriedMap' \in {CarriedMap, [CarriedMap EXCEPT ![p] = @ + 1]}
      BY ZenonT(40), <1>a, <2>5, <2>7 DEF CarriedMap
    <3>4. CASE status[p] = "approved" /\ reviewer' = reviewer
      <4>1. GrantorMap' = GrantorMap
        BY <1>a, <2>3, <3>4 DEF GrantorMap
      <4>2. GateState(status[p]) = "granted"
        BY <3>4 DEF GateState
      <4> HIDE DEF GateState
      <4>3. Gate!Perform(p)
        BY <2>7, <3>1, <3>2, <3>3, <4>1, <4>2 DEF Gate!Perform, GateMap, GrantorMap, CarriedMap
      <4> QED
        BY <2>7, <4>3
    <3>5. CASE /\ status[p] = "pending" /\ p \in Consented
               /\ reviewer' = [reviewer EXCEPT ![p] = "owner"]
      <4>1. GrantorMap' = [GrantorMap EXCEPT ![p] = "owner"]
        BY <1>a, <2>3, <3>5 DEF GrantorMap
      <4>2. GateState(status[p]) = "asked" /\ "owner" \in Entitlement[p]
        BY <3>5, EntitlementIsCeiling DEF GateState
      <4> HIDE DEF GateState
      <4>3. Gate!GrantAndPerform(p, "owner")
        BY <2>7, <3>1, <3>2, <3>3, <4>1, <4>2
        DEF Gate!GrantAndPerform, GateMap, GrantorMap, CarriedMap
      <4> QED
        BY <2>7, <4>3
    <3> QED
      BY <2>4, <3>4, <3>5
  <2> QED
    BY <2>6, <2>7
<1>7. ASSUME Expire PROVE \E S \in SUBSET Only : Gate!Refuse(S)
  <2>1. PICK S \in SUBSET Only : S = {p \in Only : p \in overdue /\ status[p] \in Open}
    OBVIOUS
  <2>2. \A p \in S : status[p] \in Open
    BY <2>1
  <2>3. \A p \in Only : status'[p] = IF p \in S THEN "expired" ELSE status[p]
    BY <1>7, <1>a, <2>1 DEF Expire
  <2>4. UNCHANGED <<reviewer, effects>>
    BY <1>7 DEF Expire
  <2> HIDE DEF IInv, TypeOK, Open
  <2>5. Gate!Refuse(S)
    BY <2>2, <2>3, <2>4, RefuseMaps
  <2> QED
    BY <2>5
<1>8. ASSUME UNCHANGED vars PROVE UNCHANGED Gate!vars
  BY <1>8, StuttersMap DEF vars
<1> HIDE DEF IInv, TypeOK, ReviewOnRecord, EffectsAccounted, Open, Closed
<1>9. CASE \E p \in Proposals :
             \/ Create(p) \/ Deadline(p) \/ OwnerRejects(p)
             \/ \E role \in Roles : Approve(p, role) \/ Reject(p, role)
  <2>1. \A p \in Only : {p} \in SUBSET Only
    OBVIOUS
  <2> QED
    BY <1>1, <1>2, <1>3, <1>4, <1>9, <2>1 DEF Gate!Next
<1>10. CASE \E w \in Workers :
              \/ ExpireSibling(w) \/ ApplyFinish(w) \/ ApplyRollback(w)
              \/ \E p \in Proposals : ApplyBegin(w, p) \/ OwnerConsents(w, p)
  <2>1. "owner" \in Roles \cup {"owner"}
    OBVIOUS
  <2> QED
    BY <1>5, <1>6, <1>10, <2>1 DEF Gate!Next
<1>11. CASE Expire
  BY <1>7, <1>11 DEF Gate!Next
<1> QED
  BY <1>8, <1>9, <1>10, <1>11 DEF Next

(* The proposal workflow implements the review gate.                        *)
THEOREM Refinement == Spec => ImplementsGate
<1>1. IInv /\ [Next]_vars => [Gate!Next]_Gate!vars
  BY StepMaps
<1> QED
  BY InitMaps, Invariance, <1>1, PTL DEF Spec, ImplementsGate, Gate!Spec
=============================================================================
