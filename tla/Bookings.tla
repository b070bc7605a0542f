------------------------------ MODULE Bookings ------------------------------
(***************************************************************************)
(* The booking endpoints of bookings/views.py: concurrent HTTP requests     *)
(* that create, patch and delete rows of the bookings table.  Each request  *)
(* is a process whose database statements are separate steps (there is no   *)
(* ATOMIC_REQUESTS); only the create path holds a row lock, on its room.    *)
(***************************************************************************)
EXTENDS Naturals, FiniteSets

CONSTANTS
  Rooms,          \* rooms on offer
  Ids,            \* primary keys the database may hand out
  Spans,          \* [in, out] date ranges clients ask for; out = MaxDate for "open"
  Creators,       \* processes serving POST /bookings/
  Patchers,       \* processes serving PATCH /bookings/{id}/
  DueChoices,     \* whether security_deposit_amount > 0, as clients choose it
  RequireDeposit, \* settings.REQUIRE_SECURITY_DEPOSIT_BEFORE_APPROVAL
  MaxDeletes,     \* bound on DELETE requests
  MaxCrashes,     \* bound on worker crashes
  None            \* SQL NULL / no row / nobody

ASSUME ConstantsAssumption ==
  /\ Spans \subseteq [in: Nat, out: Nat]
  /\ DueChoices \subseteq BOOLEAN
  /\ RequireDeposit \in BOOLEAN
  /\ MaxDeletes \in Nat
  /\ MaxCrashes \in Nat
  /\ None \notin Rooms \cup Ids \cup Spans \cup Creators \cup Patchers
  /\ Creators \cap Patchers = {}

Status == {"pending", "approved", "rejected", "cancelled"}
Blocking == {"pending", "approved"}

Row == [room: Rooms, span: Spans, status: Status, due: BOOLEAN,
        paid: BOOLEAN, signed: BOOLEAN, corp: BOOLEAN]

ASSUME NoneIsNoRow == None \notin Row \cup Status

VARIABLES
  rows,      \* bookings table: row of each id, None if absent
  issued,    \* ids the sequence has handed out
  schedule,  \* payment_schedules: installment batches inserted per booking
  deposit,   \* deposit payment of each booking: "none", "open", "settled"
  granted,   \* bookings whose owner's approval reached the table
  available, \* rooms with is_available = True
  lock,      \* holder of each room's FOR UPDATE lock
  creq,      \* state of each create request
  preq,      \* state of each patch request
  deletes,   \* DELETE requests so far
  crashes    \* worker crashes so far

db    == <<rows, issued, schedule, deposit, granted, available>>
procs == <<lock, creq, preq>>
vars  == <<db, procs, deletes, crashes>>

IdleCreate == [pc |-> "idle", room |-> None, span |-> None, due |-> FALSE]
IdlePatch  == [pc |-> "idle", id |-> None, row |-> None, prev |-> None,
               grants |-> FALSE]

-----------------------------------------------------------------------------
(* Date ranges are closed at both ends; an absent check_out is MaxDate.     *)
Overlaps(s, t) == s.in <= t.out /\ t.in <= s.out

(* _overlap_exists: some row that still blocks its dates overlaps s.        *)
OverlapExists(r, s) ==
  \E i \in Ids : /\ rows[i] # None
                 /\ rows[i].room = r
                 /\ rows[i].status \in Blocking
                 /\ Overlaps(s, rows[i].span)

(* generate_payment_schedule appends at least one installment.              *)
HasInstallments(row) == row.span.in < row.span.out

Bug_NewRowDraft(r, s, due, corp) == \* a status outside the column's choices
  [room |-> r, span |-> s, status |-> "draft", due |-> due,
   paid |-> FALSE, signed |-> FALSE, corp |-> corp]
NewRow(r, s, due, corp) ==
  [room |-> r, span |-> s, status |-> "pending", due |-> due,
   paid |-> FALSE, signed |-> FALSE, corp |-> corp]

Init ==
  /\ rows = [i \in Ids |-> None]
  /\ issued = {}
  /\ schedule = [i \in Ids |-> 0]
  /\ deposit = [i \in Ids |-> "none"]
  /\ granted = {}
  /\ available = Rooms
  /\ lock = [r \in Rooms |-> None]
  /\ creq = [w \in Creators |-> IdleCreate]
  /\ preq = [p \in Patchers |-> IdlePatch]
  /\ deletes = 0
  /\ crashes = 0

-----------------------------------------------------------------------------
(* POST /bookings/: validate, then lock the room, re-check, insert, commit. *)

CreateValidate(w) ==
  /\ creq[w].pc = "idle"
  /\ \E r \in available, s \in Spans, due \in DueChoices :
       /\ ~OverlapExists(r, s)
       /\ creq' = [creq EXCEPT ![w] =
            [pc |-> "validated", room |-> r, span |-> s, due |-> due]]
  /\ UNCHANGED <<db, lock, preq, deletes, crashes>>

Bug_CreateLockNoWait(w) == \* plain get() instead of select_for_update()
  /\ creq[w].pc = "validated"
  /\ lock' = [lock EXCEPT ![creq[w].room] = w]
  /\ creq' = [creq EXCEPT ![w].pc = "locked"]
  /\ UNCHANGED <<db, preq, deletes, crashes>>
CreateLock(w) ==
  LET r == creq[w].room IN
  /\ creq[w].pc = "validated"
  /\ lock[r] = None
  /\ lock' = [lock EXCEPT ![r] = w]
  /\ creq' = [creq EXCEPT ![w].pc = "locked"]
  /\ UNCHANGED <<db, preq, deletes, crashes>>

Bug_CreateNoRecheck(w) == \* the lock without the overlap re-check under it
  /\ creq[w].pc = "locked"
  /\ creq' = [creq EXCEPT ![w].pc = "checked"]
  /\ UNCHANGED <<db, lock, preq, deletes, crashes>>
Bug_CreateLeaksLock(w) == \* a failed re-check leaves the transaction open
  LET fits == ~OverlapExists(creq[w].room, creq[w].span) IN
  /\ creq[w].pc = "locked"
  /\ creq' = [creq EXCEPT ![w] = IF fits THEN [@ EXCEPT !.pc = "checked"] ELSE IdleCreate]
  /\ UNCHANGED <<db, lock, preq, deletes, crashes>>

(* The authoritative re-check; a failure raises and rolls back.             *)
CreateRecheck(w) ==
  LET r == creq[w].room IN
  /\ creq[w].pc = "locked"
  /\ IF r \in available /\ ~OverlapExists(r, creq[w].span)
       THEN /\ creq' = [creq EXCEPT ![w].pc = "checked"]
            /\ lock' = lock
       ELSE /\ creq' = [creq EXCEPT ![w] = IdleCreate]
            /\ lock' = [lock EXCEPT ![r] = None]
  /\ UNCHANGED <<db, preq, deletes, crashes>>

CreateInsert(w) ==
  LET r == creq[w].room IN
  /\ creq[w].pc = "checked"
  /\ \E i \in Ids \ issued :
       /\ issued' = issued \cup {i}
       /\ rows' = [rows EXCEPT ![i] = NewRow(r, creq[w].span, creq[w].due, FALSE)]
  /\ lock' = [lock EXCEPT ![r] = None]
  /\ creq' = [creq EXCEPT ![w] = IdleCreate]
  /\ UNCHANGED <<schedule, deposit, granted, available, preq, deletes, crashes>>

(* The sequence never runs dry; Ids does.  The request then stops here.     *)
CreateOutOfIds(w) ==
  /\ creq[w].pc = "checked"
  /\ Ids \subseteq issued
  /\ lock' = [lock EXCEPT ![creq[w].room] = None]
  /\ creq' = [creq EXCEPT ![w] = IdleCreate]
  /\ UNCHANGED <<db, preq, deletes, crashes>>

(* corporate bulk_create_bookings: one insert per member, with no overlap   *)
(* or availability check.  Its foreign key waits for the room's FOR UPDATE. *)
CorporateInsert ==
  /\ \E i \in Ids \ issued, r \in Rooms, s \in Spans :
       /\ lock[r] = None
       /\ issued' = issued \cup {i}
       /\ rows' = [rows EXCEPT ![i] = NewRow(r, s, FALSE, TRUE)]
  /\ UNCHANGED <<schedule, deposit, granted, available, procs, deletes, crashes>>

-----------------------------------------------------------------------------
(* PATCH /bookings/{id}/: read, validate and edit the copy, save it whole.  *)

Bug_OwnerCannotApprove(status) == IF status = "pending" THEN {"rejected"} ELSE {}
OwnerTargets(status)  == IF status = "pending" THEN {"approved", "rejected"} ELSE {}
Bug_TenantCancelsAny(status) == {"cancelled"} \* no check of the current status
TenantTargets(status) == IF status \in Blocking THEN {"cancelled"} ELSE {}

Bug_AnyPartyWrites(role, row, status) == \* roles not told apart
  status \in {row.status} \cup OwnerTargets(row.status) \cup TenantTargets(row.status)

(* A status the caller may write: unchanged, or a validated transition.     *)
MayWrite(role, row, status) ==
  \/ status = row.status
  \/ /\ status \in IF role = "owner" THEN OwnerTargets(row.status)
                                     ELSE TenantTargets(row.status)
     /\ ~(status = "approved" /\ RequireDeposit /\ row.due /\ ~row.paid)

PatchLoad(p) ==
  /\ preq[p].pc = "idle"
  /\ \E i \in Ids, role \in {"owner", "tenant"}, status \in Status, signed \in BOOLEAN :
       /\ rows[i] # None
       /\ MayWrite(role, rows[i], status)
       /\ signed /\ ~rows[i].signed => rows[i].status = "approved"
       /\ preq' = [preq EXCEPT ![p] =
            [pc |-> "loaded", id |-> i, prev |-> None,
             row |-> [rows[i] EXCEPT !.status = status, !.signed = signed],
             grants |-> status = "approved" /\ rows[i].status # "approved"
                          /\ role = "owner"]]
  /\ UNCHANGED <<db, lock, creq, deletes, crashes>>

Bug_PreSaveStashesNew(p) == \* the instance's status instead of the table's
  /\ preq[p].pc = "loaded"
  /\ preq' = [preq EXCEPT ![p].pc = "presaved", ![p].prev = preq[p].row.status]
  /\ UNCHANGED <<db, lock, creq, deletes, crashes>>

(* pre_save: stash the status the table holds now.                          *)
PatchPreSave(p) ==
  LET now == rows[preq[p].id] IN
  /\ preq[p].pc = "loaded"
  /\ preq' = [preq EXCEPT ![p].pc = "presaved",
                          ![p].prev = IF now = None THEN None ELSE now.status]
  /\ UNCHANGED <<db, lock, creq, deletes, crashes>>

(* instance.save() without update_fields: UPDATE every column, or INSERT    *)
(* when the row is gone, which waits on the room's lock and makes post_save *)
(* see a creation.                                                          *)
PatchSave(p) ==
  LET q == preq[p]
      created == rows[q.id] = None
      announces == ~created /\ q.prev # q.row.status /\ q.row.status = "approved" IN
  /\ q.pc = "presaved"
  /\ created => lock[q.row.room] = None
  /\ rows' = [rows EXCEPT ![q.id] = q.row]
  /\ granted' = IF q.grants THEN granted \cup {q.id} ELSE granted
  /\ preq' = [preq EXCEPT ![p] = IF announces THEN [q EXCEPT !.pc = "saved"]
                                              ELSE IdlePatch]
  /\ UNCHANGED <<issued, schedule, deposit, available, lock, creq, deletes, crashes>>

(* post_save of an approval: generate_payment_schedule's exists() ...       *)
PatchCheckSchedule(p) ==
  LET q == preq[p] IN
  /\ q.pc = "saved"
  /\ preq' = [preq EXCEPT ![p] =
       IF schedule[q.id] = 0 /\ HasInstallments(q.row)
         THEN [q EXCEPT !.pc = "generating"] ELSE IdlePatch]
  /\ UNCHANGED <<db, lock, creq, deletes, crashes>>

(* ... and its bulk_create, which the foreign key rejects without a row.    *)
PatchGenerate(p) ==
  LET i == preq[p].id IN
  /\ preq[p].pc = "generating"
  /\ schedule' = IF rows[i] = None THEN schedule
                 ELSE [schedule EXCEPT ![i] = @ + 1]
  /\ preq' = [preq EXCEPT ![p] = IdlePatch]
  /\ UNCHANGED <<rows, issued, deposit, granted, available, lock, creq, deletes, crashes>>

-----------------------------------------------------------------------------
(* DELETE /bookings/{id}/ cascades to the booking's payments and schedule.  *)
Delete(i) ==
  /\ rows[i] # None
  /\ deletes < MaxDeletes
  /\ deletes' = deletes + 1
  /\ rows' = [rows EXCEPT ![i] = None]
  /\ schedule' = [schedule EXCEPT ![i] = 0]
  /\ deposit' = [deposit EXCEPT ![i] = "none"]
  /\ UNCHANGED <<issued, granted, available, procs, crashes>>

(* A security-deposit payment can be started for an approved booking only.  *)
InitiateDeposit(i) ==
  /\ rows[i] # None
  /\ rows[i].status = "approved"
  /\ deposit[i] = "none"
  /\ deposit' = [deposit EXCEPT ![i] = "open"]
  /\ UNCHANGED <<rows, issued, schedule, granted, available, procs, deletes, crashes>>

(* Its success callback writes the one column security_deposit_paid.        *)
SettleDeposit(i) ==
  /\ rows[i] # None
  /\ deposit[i] = "open"
  /\ deposit' = [deposit EXCEPT ![i] = "settled"]
  /\ rows' = [rows EXCEPT ![i].paid = TRUE]
  /\ UNCHANGED <<issued, schedule, granted, available, procs, deletes, crashes>>

(* The owner edits the listing; the UPDATE waits for the room's lock.       *)
SetAvailable(r, on) ==
  /\ lock[r] = None
  /\ available' = IF on THEN available \cup {r} ELSE available \ {r}
  /\ available' # available
  /\ UNCHANGED <<rows, issued, schedule, deposit, granted, procs, deletes, crashes>>

(* A worker dies: its open transaction rolls back, its request is lost.     *)
Crash ==
  /\ crashes < MaxCrashes
  /\ crashes' = crashes + 1
  /\ \/ \E w \in Creators :
          /\ creq[w].pc # "idle"
          /\ creq' = [creq EXCEPT ![w] = IdleCreate]
          /\ lock' = [r \in Rooms |-> IF lock[r] = w THEN None ELSE lock[r]]
          /\ preq' = preq
     \/ \E p \in Patchers :
          /\ preq[p].pc # "idle"
          /\ preq' = [preq EXCEPT ![p] = IdlePatch]
          /\ UNCHANGED <<lock, creq>>
  /\ UNCHANGED <<db, deletes>>

-----------------------------------------------------------------------------
CreateStep(w) ==
  CreateLock(w) \/ CreateRecheck(w) \/ CreateInsert(w) \/ CreateOutOfIds(w)
PatchStep(p) ==
  PatchPreSave(p) \/ PatchSave(p) \/ PatchCheckSchedule(p) \/ PatchGenerate(p)

Next ==
  \/ \E w \in Creators : CreateValidate(w) \/ CreateStep(w)
  \/ \E p \in Patchers : PatchLoad(p) \/ PatchStep(p)
  \/ CorporateInsert
  \/ \E i \in Ids : Delete(i) \/ InitiateDeposit(i) \/ SettleDeposit(i)
  \/ \E r \in Rooms, on \in BOOLEAN : SetAvailable(r, on)
  \/ Crash

Spec == Init /\ [][Next]_vars

(* A started request keeps executing; the database queues lock waiters, so  *)
(* one that keeps finding the room unlocked gets it in the end.             *)
Fairness == /\ \A w \in Creators : SF_vars(CreateStep(w))
            /\ \A p \in Patchers : SF_vars(PatchStep(p))
FairSpec == Spec /\ Fairness

(* An eager owner approves whenever the endpoint allows it, an eager tenant *)
(* starts the deposit payment whenever that is allowed and the gateway      *)
(* settles it.                                                              *)
Approve(p, i) == /\ PatchLoad(p)
                 /\ preq'[p].id = i /\ preq'[p].grants
EagerSpec == /\ FairSpec
             /\ \A p \in Patchers, i \in Ids : SF_vars(Approve(p, i))
             /\ \A i \in Ids : SF_vars(InitiateDeposit(i)) /\ SF_vars(SettleDeposit(i))

-----------------------------------------------------------------------------
CreateRequest == [pc: {"idle", "validated", "locked", "checked"},
                  room: Rooms \cup {None}, span: Spans \cup {None}, due: BOOLEAN]
PatchRequest == [pc: {"idle", "loaded", "presaved", "saved", "generating"},
                 id: Ids \cup {None}, row: Row \cup {None},
                 prev: Status \cup {None}, grants: BOOLEAN]

(* Every variable holds a value of its kind, and a request that is under    *)
(* way names its room and dates, or its booking.                            *)
TypeOK ==
  /\ rows \in [Ids -> Row \cup {None}]
  /\ issued \subseteq Ids
  /\ schedule \in [Ids -> Nat]
  /\ deposit \in [Ids -> {"none", "open", "settled"}]
  /\ granted \subseteq Ids
  /\ available \subseteq Rooms
  /\ lock \in [Rooms -> Creators \cup {None}]
  /\ creq \in [Creators -> CreateRequest]
  /\ preq \in [Patchers -> PatchRequest]
  /\ deletes \in Nat
  /\ crashes \in Nat
  /\ \A w \in Creators : creq[w].pc # "idle" =>
       creq[w].room \in Rooms /\ creq[w].span \in Spans
  /\ \A p \in Patchers : preq[p].pc # "idle" =>
       preq[p].id \in Ids /\ preq[p].row \in Row

(* Two bookings of one room that both hold their dates never overlap; bulk  *)
(* corporate bookings, which skip the check, are left out on both sides.    *)
NoDoubleBooking ==
  \A i, j \in Ids :
    /\ i # j /\ rows[i] # None /\ rows[j] # None
    /\ ~rows[i].corp /\ ~rows[j].corp
    /\ rows[i].room = rows[j].room
    /\ rows[i].status \in Blocking /\ rows[j].status \in Blocking
    => ~Overlaps(rows[i].span, rows[j].span)

(* The create lock: whoever is between its re-check and its commit holds    *)
(* the room, and nobody else does.                                          *)
RoomLockHeld ==
  \A w \in Creators, r \in Rooms :
    lock[r] = w <=> creq[w].pc \in {"locked", "checked"} /\ creq[w].room = r

(* No approval the owner did not give, and no agreement signed before one:  *)
(* whatever copies are written back, those marks need the owner's PATCH.    *)
OnlyTheOwnerApproves ==
  \A i \in Ids : rows[i] # None =>
    (rows[i].status = "approved" \/ rows[i].signed => i \in granted)

(* The installments of a booking are generated at most once.                *)
ScheduleOnce == \A i \in Ids : schedule[i] <= 1

(* "State transitions are validated": a stored status only ever moves along *)
(* pending -> approved | rejected | cancelled, approved -> cancelled.       *)
StatusEdges == {<<"pending", "approved">>, <<"pending", "rejected">>,
                <<"pending", "cancelled">>, <<"approved", "cancelled">>}
StatusMachine ==
  [][\A i \in Ids : rows[i] # None /\ rows'[i] # None =>
       \/ rows'[i].status = rows[i].status
       \/ <<rows[i].status, rows'[i].status>> \in StatusEdges]_vars

(* A settled deposit stays recorded on the booking.                         *)
DepositRecorded ==
  \A i \in Ids : rows[i] # None /\ deposit[i] = "settled" => rows[i].paid

(* An approved booking gets its payment schedule, unless it leaves that     *)
(* status first or its dates hold no installment.                           *)
ApprovedGetsSchedule ==
  \A i \in Ids :
    (rows[i] # None /\ rows[i].status = "approved" /\ HasInstallments(rows[i]))
      ~> (schedule[i] > 0 \/ rows[i] = None \/ rows[i].status # "approved")

(* "If a deposit is unpaid and required, the booking stays pending until it *)
(* clears": between eager parties it does clear, or the booking moves on.   *)
DepositClears ==
  \A i \in Ids :
    (rows[i] # None /\ rows[i].status = "pending" /\ rows[i].due)
      ~> (rows[i] = None \/ rows[i].status # "pending" \/ rows[i].paid)

(* Every create request is answered: nobody waits for the room for ever.    *)
CreatesAnswered ==
  \A w \in Creators : creq[w].pc # "idle" ~> creq[w].pc = "idle"
=============================================================================
