------------------------------ MODULE Autopilot ------------------------------
(***************************************************************************)
(* The weekly recommendations for one listing (listing_autopilot): a run    *)
(* loads the room, analyses it later, and stores proposals with checksums   *)
(* of the fields they would overwrite; the landlord consents to them, or    *)
(* staff approve and apply them, and the tool that applies one locks the    *)
(* room, compares, and writes that field.  Meanwhile the landlord edits the *)
(* listing, whole rows at a time.                                           *)
(***************************************************************************)
EXTENDS FiniteSets

CONSTANTS
  Fields,    \* fields of the listing with one value: its title, ...
  Texts,     \* values of a title, description or price
  Features,  \* amenities
  Types,     \* types of proposal the analysis may make
  Weeks,     \* week_key of the runs
  WeeklyRuns, \* run_weekly_autopilot, as often as it is started
  Consents,  \* requests that apply a proposal
  Editors,   \* requests that edit the listing
  NoText     \* nothing read, nothing written

Overwriting == [TITLE_UPDATE |-> "title", DESCRIPTION_UPDATE |-> "description",
                PRICE_UPDATE |-> "price", AMENITY_UPDATE |-> "amenities"]
Adding == {"AMENITY_UPDATE", "PHOTO_RECOMMENDATION"}
ProposalTypes == DOMAIN Overwriting \cup Adding \cup {"LISTING_RENEWAL"}

ASSUME AutopilotAssumption ==
  /\ Types \subseteq ProposalTypes
  /\ \A type \in Types \cap DOMAIN Overwriting :
       Overwriting[type] \in Fields \cup {"amenities"}
  /\ NoText \notin Texts

VARIABLES
  listing,   \* the row of the room
  loaded,    \* the copy each run works on, and for which week
  analysed,  \* weeks with a ListingAnalysis
  advice,    \* the AgentProposal of each week and type
  consent,   \* the proposal each request is applying, room's row locked
  editing    \* the copy each landlord's edit is about to save

autopilotVars == <<listing, loaded, analysed, advice, consent, editing>>

Listings == [text: [Fields -> Texts], amenities: SUBSET Features, available: BOOLEAN]
Unused == [at |-> "idle"]
NoAdvice == [status |-> "none", reviewer |-> "nobody"]
(* What it said is not read again; who approved it stays in reviewed_by.    *)
Decided(status, reviewer) == [status |-> status, reviewer |-> reviewer]
Undecided(k) == advice[k].status \in {"pending", "approved"}

(* field_grounding of the field a proposal would overwrite; none is kept    *)
(* for a photo recommendation or a renewal.                                 *)
Checked(type) == type \in DOMAIN Overwriting
Grounding(room, type) ==
  IF type = "AMENITY_UPDATE" THEN room.amenities
  ELSE IF Checked(type) THEN room.text[Overwriting[type]] ELSE NoText

(* _resolve_room: the row is locked until the proposal is applied.          *)
Bug_RoomFree == TRUE \* no select_for_update
RoomFree == \A c \in Consents : consent[c] = Unused

(* _existing_unresolved.                                                    *)
Unresolved(type) ==
  \E k \in DOMAIN advice : k[2] = type /\ Undecided(k)

AutopilotInit ==
  /\ \E text \in Texts :
       listing = [text |-> [f \in Fields |-> text], amenities |-> {}, available |-> TRUE]
  /\ loaded = [r \in WeeklyRuns |-> Unused]
  /\ analysed = {}
  /\ advice = [k \in Weeks \X Types |-> NoAdvice]
  /\ consent = [c \in Consents |-> Unused]
  /\ editing = [e \in Editors |-> Unused]

-----------------------------------------------------------------------------
(* The run reads every available room.                                      *)
LoadRooms(r, week) ==
  /\ loaded[r] = Unused
  /\ listing.available
  /\ loaded' = [loaded EXCEPT ![r] = [at |-> "loaded", room |-> listing, week |-> week]]
  /\ UNCHANGED <<listing, analysed, advice, consent, editing>>

(* _emit_proposal: what would be written, and the checksum of the room the  *)
(* run has loaded.                                                          *)
Proposal(type, room, text, adds) ==
  [status |-> "pending", reviewer |-> "nobody",
   text |-> IF type \in Adding \cup {"LISTING_RENEWAL"} THEN NoText ELSE text,
   adds |-> IF type \in Adding THEN adds ELSE {},
   seen |-> Grounding(room, type)]

(* analyze_and_propose, a transaction: one analysis a week, and no second   *)
(* unresolved proposal of a type.                                           *)
Analyze(r) ==
  /\ loaded[r] # Unused
  /\ loaded' = [loaded EXCEPT ![r] = Unused]
  /\ LET week == loaded[r].week
         room == loaded[r].room
     IN  \/ week \in analysed /\ UNCHANGED <<analysed, advice>>
         \/ /\ week \notin analysed
            /\ analysed' = analysed \cup {week}
            /\ \E wanted \in SUBSET Types :
                 LET made == {type \in wanted : ~Unresolved(type)}
                 IN  \E text \in [made -> Texts], adds \in [made -> SUBSET Features] :
                       advice' = [k \in Weeks \X Types |->
                         IF k[1] = week /\ k[2] \in made
                         THEN Proposal(k[2], room, text[k[2]], adds[k[2]])
                         ELSE advice[k]]
  /\ UNCHANGED <<listing, consent, editing>>

-----------------------------------------------------------------------------
(* apply_proposal up to the check of the tool, the proposal and the room    *)
(* locked; a stale one fails.                                               *)
Begin(c, k, reviewer) ==
  /\ consent[c] = Unused /\ RoomFree
  /\ IF Grounding(listing, k[2]) = advice[k].seen
     THEN /\ consent' = [consent EXCEPT ![c] = [at |-> "apply", key |-> k]]
          /\ UNCHANGED advice
     ELSE /\ advice' = [advice EXCEPT ![k] = Decided("failed", reviewer)]
          /\ UNCHANGED consent
  /\ UNCHANGED <<listing, loaded, analysed, editing>>

(* autopilot_approve_and_apply: the landlord approves and applies at once.  *)
Consent(c, k) == advice[k].status = "pending" /\ Begin(c, k, "landlord")

(* ProposalApplyView: staff apply what staff have approved.                 *)
StaffApply(c, k) == advice[k].status = "approved" /\ Begin(c, k, advice[k].reviewer)

(* Both views of the landlord and of staff wait for the proposal's row.     *)
ProposalFree(k) == \A c \in Consents : consent[c] # Unused => consent[c].key # k

(* approve_proposal of the Agent SDK: the autopilot asks for any_staff.     *)
StaffApprove(k) ==
  /\ advice[k].status = "pending" /\ ProposalFree(k)
  /\ advice' = [advice EXCEPT ![k].status = "approved", ![k].reviewer = "staff"]
  /\ UNCHANGED <<listing, loaded, analysed, consent, editing>>

(* The end of a request that applied: the landlord's own approval is saved  *)
(* with it.                                                                 *)
Close(c, k, status) ==
  /\ advice' = [advice EXCEPT ![k] = Decided(status,
                  IF advice[k].status = "pending" THEN "landlord" ELSE advice[k].reviewer)]
  /\ consent' = [consent EXCEPT ![c] = Unused]
  /\ UNCHANGED <<loaded, analysed, editing>>

(* _apply_title, _apply_description, _apply_price: that field is saved.     *)
ApplyText(c) ==
  /\ consent[c] # Unused
  /\ LET k == consent[c].key
     IN  /\ Checked(k[2]) /\ k[2] \notin Adding
         /\ listing' = [listing EXCEPT !.text[Overwriting[k[2]]] = advice[k].text]
         /\ Close(c, k, "applied")

(* _apply_amenities, _apply_photo_recommendation: new amenities are added.  *)
ApplyAmenities(c) ==
  /\ consent[c] # Unused
  /\ LET k == consent[c].key
     IN  /\ k[2] \in Adding
         /\ listing' = [listing EXCEPT !.amenities = @ \cup advice[k].adds]
         /\ Close(c, k, "applied")

(* _apply_listing_renewal.                                                  *)
ApplyRenewal(c) ==
  /\ consent[c] # Unused
  /\ LET k == consent[c].key
     IN  /\ k[2] = "LISTING_RENEWAL"
         /\ listing' = [listing EXCEPT !.available = TRUE]
         /\ Close(c, k, "applied")

(* The request dies and its transaction is rolled back.                     *)
ConsentLost(c) ==
  /\ consent[c] # Unused
  /\ consent' = [consent EXCEPT ![c] = Unused]
  /\ UNCHANGED <<listing, loaded, analysed, advice, editing>>

(* A pending proposal is rejected by the landlord or by staff; one that is  *)
(* pending or approved expires.  Either waits for the proposal's row.       *)
CloseUnapplied(k, status) ==
  /\ Undecided(k) /\ ProposalFree(k)
  /\ status = "rejected" => advice[k].status = "pending"
  /\ advice' = [advice EXCEPT ![k] = Decided(status, advice[k].reviewer)]
  /\ UNCHANGED <<listing, loaded, analysed, consent, editing>>

-----------------------------------------------------------------------------
(* RoomSerializer.update on a copy that is not locked: any of the           *)
(* landlord's changes to it ...                                             *)
Edits(room) ==
  {[room EXCEPT !.text[f] = text] : f \in Fields, text \in Texts}
    \cup {[room EXCEPT !.amenities = a] : a \in SUBSET Features}
    \cup {[room EXCEPT !.available = ~@]}

Edit(e) ==
  /\ editing[e] = Unused
  /\ \E room \in Edits(listing) :
       editing' = [editing EXCEPT ![e] = [at |-> "save", room |-> room]]
  /\ UNCHANGED <<listing, loaded, analysed, advice, consent>>

(* ... are saved with the rest of the row.                                  *)
SaveEdit(e) ==
  /\ editing[e] # Unused /\ RoomFree
  /\ listing' = editing[e].room
  /\ editing' = [editing EXCEPT ![e] = Unused]
  /\ UNCHANGED <<loaded, analysed, advice, consent>>

AutopilotNext ==
  \/ \E r \in WeeklyRuns : Analyze(r) \/ \E week \in Weeks : LoadRooms(r, week)
  \/ \E c \in Consents, k \in Weeks \X Types : Consent(c, k) \/ StaffApply(c, k)
  \/ \E k \in Weeks \X Types : StaffApprove(k)
  \/ \E c \in Consents :
       ApplyText(c) \/ ApplyAmenities(c) \/ ApplyRenewal(c) \/ ConsentLost(c)
  \/ \E k \in Weeks \X Types, status \in {"rejected", "expired"} : CloseUnapplied(k, status)
  \/ \E e \in Editors : Edit(e) \/ SaveEdit(e)

AutopilotSpec == AutopilotInit /\ [][AutopilotNext]_autopilotVars

-----------------------------------------------------------------------------
Decisions == {"applied", "failed", "rejected", "expired"}
Reviewers == {"landlord", "staff", "nobody"}
Seen(type) == IF ~Checked(type) THEN {NoText}
              ELSE IF type \in Adding THEN SUBSET Features ELSE Texts

(* Every variable holds a value of its kind.                                *)
AutopilotTypeOK ==
  /\ listing \in Listings
  /\ loaded \in [WeeklyRuns -> {Unused} \cup [at: {"loaded"}, room: Listings, week: Weeks]]
  /\ analysed \subseteq Weeks
  /\ DOMAIN advice = Weeks \X Types
  /\ \A k \in Weeks \X Types :
       advice[k] \in {NoAdvice} \cup [status: Decisions, reviewer: Reviewers] \cup
         [status: {"pending", "approved"}, reviewer: Reviewers,
          text: Texts \cup {NoText}, adds: SUBSET Features, seen: Seen(k[2])]
  /\ consent \in [Consents -> {Unused} \cup [at: {"apply"}, key: Weeks \X Types]]
  /\ editing \in [Editors -> {Unused} \cup [at: {"save"}, room: Listings]]

(* "Never clobber the landlord's later edits": the value a proposal          *)
(* overwrites is the one it was made from, nothing is taken from the         *)
(* amenities, and no other field moves with it.                             *)
Applied(k) == advice[k].status # "applied" /\ advice'[k].status = "applied"
LaterEditsKept ==
  [][\A k \in Weeks \X Types : Applied(k) =>
       /\ Checked(k[2]) => Grounding(listing, k[2]) = advice[k].seen
       /\ listing.amenities \subseteq listing'.amenities
       /\ \A f \in Fields : listing'.text[f] # listing.text[f] =>
            Checked(k[2]) /\ Overwriting[k[2]] = f]_autopilotVars

(* No type has two proposals pending or approved.                           *)
OneUnresolvedEach ==
  \A j, k \in Weeks \X Types : j[2] = k[2] /\ Undecided(j) /\ Undecided(k) => j = k

(* A landlord's consent grants a proposal and carries it out in one go;     *)
(* staff grant it first and apply it, or let it expire, later.  One whose   *)
(* field has changed fails before its effect.                               *)
AdviceState(status) ==
  CASE status = "none" -> "unasked"
    [] status = "pending" -> "asked"
    [] status = "approved" -> "granted"
    [] status \in {"rejected", "expired"} -> "refused"
    [] OTHER -> "done"
ReviewedAdvice == INSTANCE ReviewGate WITH
  Actions <- Weeks \X Types, Roles <- {"landlord", "staff"},
  Entitled <- [k \in Weeks \X Types |-> {"landlord", "staff"}],
  gate <- [k \in Weeks \X Types |-> AdviceState(advice[k].status)],
  grantor <- [k \in Weeks \X Types |-> advice[k].reviewer],
  carried <- [k \in Weeks \X Types |-> IF advice[k].status = "applied" THEN 1 ELSE 0]

(* The autopilot keeps what a review gate promises.                         *)
AdviceIsReviewed == ReviewedAdvice!Spec

(* Not true: what is applied its landlord approved (services.py:15-16).     *)
LandlordDecides ==
  \A k \in Weeks \X Types :
    advice[k].status = "applied" => advice[k].reviewer = "landlord"

(* Not true: renewing does not change the listing's content.                *)
RenewalChangesNothing ==
  [][\A k \in Weeks \X Types :
       k[2] = "LISTING_RENEWAL" /\ Applied(k) => listing' = listing]_autopilotVars
=============================================================================
