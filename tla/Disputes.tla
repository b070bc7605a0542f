------------------------------ MODULE Disputes ------------------------------
(***************************************************************************)
(* Disputes about one booking (disputes/views.py): a party's requests to    *)
(* open one, evidence for it, and the actions of admins, each saved         *)
(* together with its audit entry (audit/services.py) in a transaction.      *)
(* The row is read before the transaction begins, without a lock; its       *)
(* UPDATE locks it until the transaction ends.                              *)
(***************************************************************************)
EXTENDS Naturals, FiniteSets

CONSTANTS
  Disputes, \* disputes there can be
  Filings,  \* requests of one party to open a dispute
  Exhibits, \* requests to add evidence
  Officers, \* requests of admins
  Targets,  \* statuses an admin may move a dispute to
  Nobody    \* the writer of an entry whose transaction is committed

ASSUME DisputesAssumption ==
  Nobody \notin Officers /\ {"none", "unfiled", "settle", "note", "reject"} \cap Targets = {}

VARIABLES
  dispute,  \* status and decision of each row
  journal,  \* each dispute's status by its latest committed audit entry, "none" yet
  later,    \* for each entry being written, who stamped a later one on its dispute
  returned, \* Booking.security_deposit_refunded
  patches,  \* copies of it that PATCHes of the booking hold
  outdated, \* history: one of them saved back what was no longer so
  filing,   \* how far each request to open a dispute is
  exhibit,  \* each piece of evidence: how far it is, and for which dispute
  officer   \* each admin's request: how far it is, and the row it holds

disputeVars == <<dispute, journal, later, returned, patches, outdated, filing, exhibit, officer>>

Closed == {"resolved", "rejected"}
DisputeStatuses == {"unfiled", "open"} \cup Targets \cup Closed
(* Each of the three decisions but "none" says where the deposit went.      *)
DisputeRow == [status : DisputeStatuses, decision : {"none", "deposit"}]

Filed == {d \in Disputes : dispute[d].status # "unfiled"}
Pending(status) == status \notin {"unfiled"} \cup Closed
NoExhibit == [at |-> "nothing"]
Off == [at |-> "nothing"]

DisputesInit ==
  /\ dispute = [d \in Disputes |-> [status |-> "unfiled", decision |-> "none"]]
  /\ journal = [d \in Disputes |-> "none"]
  /\ later = [g \in Officers |-> {}]
  /\ returned = FALSE /\ patches = {} /\ outdated = FALSE
  /\ filing = [f \in Filings |-> "nothing"]
  /\ exhibit = [x \in Exhibits |-> NoExhibit]
  /\ officer = [g \in Officers |-> Off]

-----------------------------------------------------------------------------
(* DisputeListCreateView.post: a party without an open dispute passes, then *)
(* opens one.                                                               *)
PassFiling(f) ==
  /\ filing[f] = "nothing"
  /\ ~\E d \in Disputes : Pending(dispute[d].status)
  /\ filing' = [filing EXCEPT ![f] = "passed"]
  /\ UNCHANGED <<dispute, journal, later, returned, patches, outdated, exhibit, officer>>

File(f, d) ==
  /\ filing[f] = "passed"
  /\ d \notin Filed
  /\ dispute' = [dispute EXCEPT ![d].status = "open"]
  /\ filing' = [filing EXCEPT ![f] = "nothing"]
  /\ UNCHANGED <<journal, later, returned, patches, outdated, exhibit, officer>>

(* DisputeEvidenceView.post: a dispute that is not closed takes evidence.   *)
PassExhibit(x, d) ==
  /\ exhibit[x] = NoExhibit
  /\ Pending(dispute[d].status)
  /\ exhibit' = [exhibit EXCEPT ![x] = [at |-> "passed", dispute |-> d]]
  /\ UNCHANGED <<dispute, journal, later, returned, patches, outdated, filing, officer>>

AddExhibit(x) ==
  /\ exhibit[x].at = "passed"
  /\ exhibit' = [exhibit EXCEPT ![x].at = "added"]
  /\ UNCHANGED <<dispute, journal, later, returned, patches, outdated, filing, officer>>

-----------------------------------------------------------------------------
(* DisputeAdminActionView.post reads the dispute, whatever its status,      *)
ReadDispute(g, d) ==
  /\ officer[g] = Off
  /\ d \in Filed
  /\ officer' = [officer EXCEPT ![g] = [at |-> "read", dispute |-> d, row |-> dispute[d]]]
  /\ UNCHANGED <<dispute, journal, later, returned, patches, outdated, filing, exhibit>>

(* and begins the transaction.  A transition saves the status alone, the    *)
(* others the whole row that was read; a resolution without a decision has  *)
(* a note.                                                                  *)
RowWritten(action, read, row) ==
  CASE action \in Targets -> [row EXCEPT !.status = action]
    [] action = "reject" -> [read EXCEPT !.status = "rejected"]
    [] action = "settle" -> [status |-> "resolved", decision |-> "deposit"]
    [] action = "note" -> [status |-> "resolved", decision |-> "none"]

(* Requests whose transaction has the row of d locked.                      *)
Bug_Lockers(d) == {} \* each statement commits on its own
Lockers(d) == {g \in Officers : officer[g].at \in {"saved", "logged"} /\ officer[g].dispute = d}

SaveDispute(g, action) ==
  /\ officer[g].at = "read"
  /\ Lockers(officer[g].dispute) = {}
  /\ LET d == officer[g].dispute IN
       officer' = [officer EXCEPT ![g] = [at |-> "saved", dispute |-> d,
         row |-> RowWritten(action, officer[g].row, dispute[d]), settles |-> action = "settle"]]
  /\ UNCHANGED <<dispute, journal, later, returned, patches, outdated, filing, exhibit>>

(* log_action stamps an entry: the latest of its dispute so far,            *)
LogAction(g) ==
  /\ officer[g].at = "saved"
  /\ LET d == officer[g].dispute
         earlier == {k \in Officers : officer[k].at = "logged" /\ officer[k].dispute = d}
     IN  later' = [k \in Officers |-> IF k \in earlier THEN later[k] \cup {g} ELSE later[k]]
  /\ officer' = [officer EXCEPT ![g].at = "logged"]
  /\ UNCHANGED <<dispute, journal, returned, patches, outdated, filing, exhibit>>

(* and the end of the transaction publishes row, deposit and entry, behind  *)
(* the later ones that were published before it.                            *)
Commit(g) ==
  /\ officer[g].at = "logged"
  /\ LET d == officer[g].dispute IN
       /\ dispute' = [dispute EXCEPT ![d] = officer[g].row]
       /\ journal' = [journal EXCEPT ![d] =
                       IF Nobody \in later[g] THEN @ ELSE officer[g].row.status]
  /\ later' = [k \in Officers |->
       IF k = g THEN {}
       ELSE IF g \in later[k] THEN (later[k] \ {g}) \cup {Nobody} ELSE later[k]]
  /\ returned' = (returned \/ officer[g].settles)
  /\ officer' = [officer EXCEPT ![g] = Off]
  /\ UNCHANGED <<patches, outdated, filing, exhibit>>

(* log_action swallows an entry that cannot be written; the transaction is  *)
(* marked for rollback all the same, and ends so without an error.  So does *)
(* one whose worker dies.                                                   *)
RollBack(g) ==
  /\ officer[g].at \in {"saved", "logged"}
  /\ later' = [k \in Officers |-> IF k = g THEN {} ELSE later[k] \ {g}]
  /\ officer' = [officer EXCEPT ![g] = Off]
  /\ UNCHANGED <<dispute, journal, returned, patches, outdated, filing, exhibit>>

(* A PATCH of the booking saves the whole row from a copy it has loaded      *)
(* without a lock (bookings/views.py); any number of them may hold it.      *)
LoadBooking ==
  /\ patches' = patches \cup {returned}
  /\ UNCHANGED <<dispute, journal, later, returned, outdated, filing, exhibit, officer>>

SaveBooking(copy) ==
  /\ copy \in patches
  /\ \A g \in Officers : officer[g].at \in {"saved", "logged"} => ~officer[g].settles
  /\ returned' = copy
  /\ outdated' = (outdated \/ copy # returned)
  /\ UNCHANGED <<dispute, journal, later, patches, filing, exhibit, officer>>

DisputesNext ==
  \/ \E f \in Filings : PassFiling(f) \/ (\E d \in Disputes : File(f, d))
  \/ \E x \in Exhibits : AddExhibit(x) \/ (\E d \in Disputes : PassExhibit(x, d))
  \/ \E g \in Officers :
       \/ \E d \in Disputes : ReadDispute(g, d)
       \/ \E action \in Targets \cup {"settle", "note", "reject"} : SaveDispute(g, action)
       \/ LogAction(g) \/ Commit(g) \/ RollBack(g)
  \/ LoadBooking \/ \E copy \in BOOLEAN : SaveBooking(copy)

DisputesSpec == DisputesInit /\ [][DisputesNext]_disputeVars

(* Every variable holds a value of its kind, and a request under way is     *)
(* about a dispute that was filed.                                          *)
DisputesTypeOK ==
  /\ dispute \in [Disputes -> DisputeRow]
  /\ journal \in [Disputes -> {"none"} \cup DisputeStatuses]
  /\ later \in [Officers -> SUBSET (Officers \cup {Nobody})]
  /\ returned \in BOOLEAN /\ patches \subseteq BOOLEAN /\ outdated \in BOOLEAN
  /\ filing \in [Filings -> {"nothing", "passed"}]
  /\ exhibit \in [Exhibits -> {NoExhibit} \cup [at : {"passed", "added"}, dispute : Filed]]
  /\ officer \in [Officers -> {Off}
       \cup [at : {"read"}, dispute : Filed, row : DisputeRow]
       \cup [at : {"saved", "logged"}, dispute : Filed, row : DisputeRow, settles : BOOLEAN]]

-----------------------------------------------------------------------------
(* The audit trail tells the truth about a dispute (disputes/models.py:11,  *)
(* "Every admin decision is audited"): its last entry names the status the  *)
(* dispute has, and a dispute with no entry has not been touched, whatever  *)
(* admins do at once and whichever writes fail; and the deposit of a        *)
(* dispute that was decided reads as no longer held, unless a PATCH of the  *)
(* booking saved an outdated copy of the flag.                              *)
AuditTellsStatus ==
  \A d \in Filed :
    /\ dispute[d].status = IF journal[d] = "none" THEN "open" ELSE journal[d]
    /\ dispute[d].decision = "deposit" => returned \/ outdated

(* Not true: a decision about the deposit stays recorded on the booking.    *)
DecisionRecorded == \A d \in Disputes : dispute[d].decision = "deposit" => returned

(* Not true: a party has one open dispute per booking (models.py:8; two     *)
(* requests can both find none).                                            *)
OneOpenDispute == Cardinality({d \in Disputes : Pending(dispute[d].status)}) <= 1

(* Not true: a closed dispute stays closed (a transition and a late reject  *)
(* do not look at the status), and a closed dispute takes no evidence.      *)
ClosedStays == [][\A d \in Disputes :
  dispute[d].status \in Closed => dispute'[d] = dispute[d]]_disputeVars
EvidenceInTime == [][\A x \in Exhibits : exhibit[x].at = "passed" /\ exhibit'[x].at = "added"
  => Pending(dispute[exhibit[x].dispute].status)]_disputeVars

(* Not true: "auditing must not take down the action it records"            *)
(* (audit/services.py:24).                                                  *)
ActionsHappen == [][\A g \in Officers :
  officer[g].at = "saved" /\ officer'[g] = Off => officer[g].row = dispute'[officer[g].dispute]
  ]_disputeVars
=============================================================================
