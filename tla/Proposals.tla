------------------------------ MODULE Proposals ------------------------------
(***************************************************************************)
(* The human review of the state-changing tool calls of AI agents: by staff *)
(* (agents/services.py), or by the owner of the conversation (rental_agent, *)
(* negotiation_agent, listing_autopilot).  Every operation is a transaction *)
(* that locks the proposal's row; only applying one runs long.              *)
(***************************************************************************)
EXTENDS Naturals, FiniteSets

CONSTANTS
  Proposals, \* rows of agents_agentproposal
  Workers,   \* requests that apply a proposal
  Approval,  \* proposal -> approval_required: "any_staff" | "admin"
  Consented, \* proposals whose tool the conversation's owner may consent to
  Siblings,  \* proposal -> the owner's other bookmark proposals for its room
  None

ASSUME ConstantsAssumption ==
  /\ Approval \in [Proposals -> {"any_staff", "admin"}]
  /\ Consented \subseteq Proposals
  /\ Siblings \in [Proposals -> SUBSET Proposals]
  /\ \A p \in Proposals : p \notin Siblings[p]
  /\ None \notin Proposals

VARIABLES
  status,   \* AgentProposal.status; "none" before the row exists
  overdue,  \* proposals whose expires_at has passed
  reviewer, \* role of AgentProposal.reviewed_by
  toolcall, \* execution_status of the proposal's AgentToolCall
  effects,  \* how often the tool's writes were committed
  applying, \* the proposal each worker is applying, row locked; or None
  stale,    \* siblings each worker read as pending and has yet to expire
  expiring  \* siblings each worker has expired, uncommitted, rows locked

txns == <<applying, stale, expiring>>
vars == <<status, overdue, reviewer, toolcall, effects, txns>>

Open == {"pending", "approved"}
Closed == {"rejected", "expired", "applied", "failed"}
Roles == {"user", "staff", "admin"}

Locked(p) == \E w \in Workers : applying[w] = p \/ p \in expiring[w]

Init ==
  /\ status = [p \in Proposals |-> "none"]
  /\ overdue = {}
  /\ reviewer = [p \in Proposals |-> "nobody"]
  /\ toolcall = [p \in Proposals |-> "none"]
  /\ effects = [p \in Proposals |-> 0]
  /\ applying = [w \in Workers |-> None]
  /\ stale = [w \in Workers |-> {}]
  /\ expiring = [w \in Workers |-> {}]

-----------------------------------------------------------------------------
(* create_proposal: the proposal and its tool call in one transaction.      *)
Bug_CreateQueued(p) == \* a status that is not one of the choices
  /\ status[p] = "none"
  /\ status' = [status EXCEPT ![p] = "queued"]
  /\ toolcall' = [toolcall EXCEPT ![p] = "proposed"]
  /\ UNCHANGED <<overdue, reviewer, effects, txns>>
Create(p) ==
  /\ status[p] = "none"
  /\ status' = [status EXCEPT ![p] = "pending"]
  /\ toolcall' = [toolcall EXCEPT ![p] = "proposed"]
  /\ UNCHANGED <<overdue, reviewer, effects, txns>>

(* AGENTS_PROPOSAL_TTL_SECONDS go by.                                       *)
Deadline(p) ==
  /\ status[p] # "none"
  /\ p \notin overdue
  /\ overdue' = overdue \cup {p}
  /\ UNCHANGED <<status, reviewer, toolcall, effects, txns>>

(* _check_reviewer: the proposal's ceiling.                                 *)
Bug_AnyStaffWillDo(p) == {"staff", "admin"} \* "admin" treated as "any_staff"
MayReview(p) == IF Approval[p] = "admin" THEN {"admin"} ELSE {"staff", "admin"}

Approve(p, role) ==
  /\ ~Locked(p)
  /\ status[p] = "pending"
  /\ p \notin overdue
  /\ role \in MayReview(p)
  /\ status' = [status EXCEPT ![p] = "approved"]
  /\ reviewer' = [reviewer EXCEPT ![p] = role]
  /\ UNCHANGED <<overdue, toolcall, effects, txns>>

Bug_RejectUnlessApplied(p, role) == \* only the "already_applied" check
  /\ ~Locked(p)
  /\ status[p] \notin {"none", "applied"}
  /\ role \in MayReview(p)
  /\ status' = [status EXCEPT ![p] = "rejected"]
  /\ reviewer' = [reviewer EXCEPT ![p] = role]
  /\ UNCHANGED <<overdue, toolcall, effects, txns>>
Reject(p, role) ==
  /\ ~Locked(p)
  /\ status[p] = "pending"
  /\ role \in MayReview(p)
  /\ status' = [status EXCEPT ![p] = "rejected"]
  /\ reviewer' = [reviewer EXCEPT ![p] = role]
  /\ UNCHANGED <<overdue, toolcall, effects, txns>>

(* The owner of the conversation turns a proposal down.                     *)
OwnerRejects(p) ==
  /\ ~Locked(p)
  /\ p \in Consented
  /\ status[p] = "pending"
  /\ p \notin overdue
  /\ status' = [status EXCEPT ![p] = "rejected"]
  /\ reviewer' = [reviewer EXCEPT ![p] = "owner"]
  /\ UNCHANGED <<overdue, toolcall, effects, txns>>

-----------------------------------------------------------------------------
(* apply_proposal, by anybody the endpoint lets in, up to tool.execute ...  *)
Bug_ApplyWithoutLock(w, p) == \* get() instead of select_for_update().get()
  /\ applying[w] = None
  /\ status[p] = "approved"
  /\ p \notin overdue
  /\ applying' = [applying EXCEPT ![w] = p]
  /\ UNCHANGED <<status, overdue, reviewer, toolcall, effects, stale, expiring>>
ApplyBegin(w, p) ==
  /\ applying[w] = None
  /\ ~Locked(p)
  /\ status[p] = "approved"
  /\ p \notin overdue
  /\ applying' = [applying EXCEPT ![w] = p]
  /\ UNCHANGED <<status, overdue, reviewer, toolcall, effects, stale, expiring>>

(* The owner's consent approves and applies in one transaction.  For a      *)
(* bookmark it first reads the pending siblings, without locking them, ...  *)
OwnerConsents(w, p) ==
  /\ applying[w] = None
  /\ ~Locked(p)
  /\ p \in Consented
  /\ status[p] = "pending"
  /\ p \notin overdue
  /\ applying' = [applying EXCEPT ![w] = p]
  /\ stale' = [stale EXCEPT ![w] = {s \in Siblings[p] : status[s] = "pending"}]
  /\ UNCHANGED <<status, overdue, reviewer, toolcall, effects, expiring>>

(* ... and marks each expired, once nobody else holds its row.              *)
ExpireSibling(w) ==
  /\ \E s \in stale[w] :
       /\ ~Locked(s)
       /\ stale' = [stale EXCEPT ![w] = @ \ {s}]
       /\ expiring' = [expiring EXCEPT ![w] = @ \cup {s}]
  /\ UNCHANGED <<status, overdue, reviewer, toolcall, effects, applying>>

EndTransaction(w) ==
  /\ applying' = [applying EXCEPT ![w] = None]
  /\ stale' = [stale EXCEPT ![w] = {}]
  /\ expiring' = [expiring EXCEPT ![w] = {}]

(* The commit.  An executor's exception is caught and only makes the        *)
(* outcome not ok: what it wrote before is committed with it.               *)
Bug_FinishSkipsToolCall(w) == \* the tool call is only updated on success
  LET p == applying[w] IN
  /\ p # None
  /\ stale[w] = {}
  /\ \E ok, wrote \in BOOLEAN :
       /\ ok => wrote
       /\ status' = [q \in Proposals |->
            IF q \in expiring[w] THEN "expired" ELSE
            IF q # p THEN status[q] ELSE IF ok THEN "applied" ELSE "failed"]
       /\ toolcall' = IF ok THEN [toolcall EXCEPT ![p] = "executed"] ELSE toolcall
       /\ effects' = IF wrote THEN [effects EXCEPT ![p] = @ + 1] ELSE effects
  /\ reviewer' = IF status[p] = "pending" THEN [reviewer EXCEPT ![p] = "owner"] ELSE reviewer
  /\ EndTransaction(w)
  /\ UNCHANGED overdue
ApplyFinish(w) ==
  LET p == applying[w] IN
  /\ p # None
  /\ stale[w] = {}
  /\ \E ok, wrote \in BOOLEAN :
       /\ ok => wrote
       /\ status' = [q \in Proposals |->
            IF q \in expiring[w] THEN "expired" ELSE
            IF q # p THEN status[q] ELSE IF ok THEN "applied" ELSE "failed"]
       /\ toolcall' = [toolcall EXCEPT ![p] = IF ok THEN "executed" ELSE "failed"]
       /\ effects' = IF wrote THEN [effects EXCEPT ![p] = @ + 1] ELSE effects
  /\ reviewer' = IF status[p] = "pending" THEN [reviewer EXCEPT ![p] = "owner"] ELSE reviewer
  /\ EndTransaction(w)
  /\ UNCHANGED overdue

(* The worker dies, an executor swallowed a database error, or the database *)
(* breaks a deadlock between two consents: all of it is rolled back.        *)
ApplyRollback(w) ==
  /\ applying[w] # None
  /\ EndTransaction(w)
  /\ UNCHANGED <<status, overdue, reviewer, toolcall, effects>>

(* expire_proposals, the daily task: all that are due, once none is locked. *)
Bug_ExpireWithoutLock == \* the rows are not selected FOR UPDATE
  LET due == {p \in overdue : status[p] \in Open} IN
  /\ due # {}
  /\ status' = [p \in Proposals |-> IF p \in due THEN "expired" ELSE status[p]]
  /\ UNCHANGED <<overdue, reviewer, toolcall, effects, txns>>
Bug_ExpireOnlyPending == \* approved but unapplied proposals are left out
  LET due == {p \in overdue : status[p] = "pending"} IN
  /\ due # {} /\ \A p \in due : ~Locked(p)
  /\ status' = [p \in Proposals |-> IF p \in due THEN "expired" ELSE status[p]]
  /\ UNCHANGED <<overdue, reviewer, toolcall, effects, txns>>
Expire ==
  LET due == {p \in overdue : status[p] \in Open} IN
  /\ due # {} /\ \A p \in due : ~Locked(p)
  /\ status' = [p \in Proposals |-> IF p \in due THEN "expired" ELSE status[p]]
  /\ UNCHANGED <<overdue, reviewer, toolcall, effects, txns>>

-----------------------------------------------------------------------------
Next ==
  \/ \E p \in Proposals :
       \/ Create(p) \/ Deadline(p) \/ OwnerRejects(p)
       \/ \E role \in Roles : Approve(p, role) \/ Reject(p, role)
  \/ \E w \in Workers :
       \/ ExpireSibling(w) \/ ApplyFinish(w) \/ ApplyRollback(w)
       \/ \E p \in Proposals : ApplyBegin(w, p) \/ OwnerConsents(w, p)
  \/ Expire

Spec == Init /\ [][Next]_vars

(* Time passes, the beat schedule keeps running its task, and a tool that   *)
(* was started returns (Celery and the web server bound its time).          *)
FairSpec == /\ Spec
            /\ \A p \in Proposals : WF_vars(Deadline(p))
            /\ \A w \in Workers : WF_vars(ApplyFinish(w) \/ ApplyRollback(w))
            /\ WF_vars(Expire)

-----------------------------------------------------------------------------
(* Every variable holds a value of its kind.                                *)
TypeOK ==
  /\ status \in [Proposals -> {"none"} \cup Open \cup Closed]
  /\ overdue \subseteq Proposals
  /\ reviewer \in [Proposals -> Roles \cup {"owner", "nobody"}]
  /\ toolcall \in [Proposals -> {"none", "proposed", "executed", "failed"}]
  /\ effects \in [Proposals -> Nat]
  /\ applying \in [Workers -> Proposals \cup {None}]
  /\ stale \in [Workers -> SUBSET Proposals]
  /\ expiring \in [Workers -> SUBSET Proposals]

(* Who may have a proposal carried out: the "minimum reviewer role required *)
(* to approve" it, and, for the consented tools, the conversation's owner.  *)
Entitlement == [p \in Proposals |->
  (IF Approval[p] = "admin" THEN {"admin"} ELSE {"staff", "admin"})
    \cup (IF p \in Consented THEN {"owner"} ELSE {})]

(* A tool's writes are committed only for a proposal decided by somebody    *)
(* who may, whichever requests, retries and crashes came between.           *)
ConsentBeforeEffect ==
  \A p \in Proposals : effects[p] > 0 => reviewer[p] \in Entitlement[p]

(* "Only an APPROVED proposal can ever be applied, exactly once": its       *)
(* effects are never committed a second time.                               *)
EffectAtMostOnce == \A p \in Proposals : effects[p] <= 1

(* Nobody expires these as a sibling, behind the back of their own review.  *)
Only == {p \in Proposals : \A q \in Proposals : p \notin Siblings[q]}

(* "A proposal that was rejected/expired can never become actionable again" *)
(* and has no effect afterwards, and a tool that ran stays on record.       *)
ClosedForGood ==
  [][\A p \in Proposals : status[p] \in Closed =>
       /\ status'[p] \in Closed /\ effects'[p] = effects[p]
       /\ p \in Only => status'[p] = status[p]]_vars

(* The proposal, its tool call in the run's log and what was really written *)
(* tell the same story.                                                     *)
LedgersAgree ==
  \A p \in Only :
    /\ toolcall[p] = "executed" <=> status[p] = "applied"
    /\ toolcall[p] = "failed" <=> status[p] = "failed"
    /\ status[p] = "applied" => effects[p] = 1

(* "Sibling PENDING bookmark requests [...] become stale -- expire them": a   *)
(* proposal that was decided and applied is never put down as expired.      *)
ExpiresOpenOnly ==
  [][\A p \in Proposals : status'[p] = "expired" => status[p] \in Open \cup {"expired"}]_vars

(* No proposal stays open for ever, approved ones included.                 *)
EveryProposalCloses ==
  \A p \in Proposals : status[p] \in Open ~> status[p] \in Closed

(* The workflow implements the review gate: no interleaving makes it grant, *)
(* refuse or carry out anything the gate would not.                         *)
GateState(s) ==
  CASE s = "none" -> "unasked"
    [] s = "pending" -> "asked"
    [] s = "approved" -> "granted"
    [] s \in {"rejected", "expired"} -> "refused"
    [] OTHER -> "done"
Gate == INSTANCE ReviewGate WITH
  Actions <- Only, Entitled <- Entitlement, Roles <- Roles \cup {"owner"},
  gate <- [p \in Only |-> GateState(status[p])],
  grantor <- [p \in Only |-> IF status[p] = "rejected" THEN "nobody" ELSE reviewer[p]],
  carried <- [p \in Only |-> effects[p]]
ImplementsGate == Gate!Spec
=============================================================================
