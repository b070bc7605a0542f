--------------------------- MODULE BookingsProofs ---------------------------
(* Theorems about Bookings, for every set of rooms, ids, spans and          *)
(* requests.                                                                *)
EXTENDS Bookings, TLAPS

(* Field updates keep a row, a create request and a patch request typed.     *)
LEMMA RowPaid ==
  ASSUME NEW row \in Row PROVE [row EXCEPT !.paid = TRUE] \in Row
  BY DEF Row
LEMMA RowPatched ==
  ASSUME NEW row \in Row, NEW status \in Status, NEW signed \in BOOLEAN
  PROVE  /\ [row EXCEPT !.status = status, !.signed = signed] \in Row
         /\ [row EXCEPT !.status = status, !.signed = signed].room = row.room
         /\ [row EXCEPT !.status = status, !.signed = signed].span = row.span
         /\ [row EXCEPT !.status = status, !.signed = signed].corp = row.corp
         /\ [row EXCEPT !.status = status, !.signed = signed].status = status
  BY DEF Row
LEMMA CreateAdvanced ==
  ASSUME NEW q \in CreateRequest, NEW pc \in {"idle", "validated", "locked", "checked"}
  PROVE  /\ [q EXCEPT !.pc = pc] \in CreateRequest
         /\ [q EXCEPT !.pc = pc].pc = pc
         /\ [q EXCEPT !.pc = pc].room = q.room
         /\ [q EXCEPT !.pc = pc].span = q.span
  BY DEF CreateRequest
LEMMA PatchStashed ==
  ASSUME NEW q \in PatchRequest, NEW prev \in Status \cup {None}
  PROVE  /\ [q EXCEPT !.pc = "presaved", !.prev = prev] \in PatchRequest
         /\ [q EXCEPT !.pc = "presaved", !.prev = prev].pc = "presaved"
         /\ [q EXCEPT !.pc = "presaved", !.prev = prev].id = q.id
         /\ [q EXCEPT !.pc = "presaved", !.prev = prev].row = q.row
  BY DEF PatchRequest

(* Type correctness of the booking requests and of the rows they write.     *)
THEOREM TypeCorrect == Spec => []TypeOK
<1>1. Init => TypeOK
  BY ConstantsAssumption DEF Init, TypeOK, IdleCreate, IdlePatch, CreateRequest, PatchRequest
<1>2. TypeOK /\ [Next]_vars => TypeOK'
  <2> SUFFICES ASSUME TypeOK, [Next]_vars PROVE TypeOK'
    OBVIOUS
  <2> USE ConstantsAssumption, NoneIsNoRow
  <2> USE DEF TypeOK
  <2>1. ASSUME NEW w \in Creators, CreateValidate(w) PROVE TypeOK'
    BY <2>1 DEF CreateValidate, CreateRequest, PatchRequest, db
  <2>2. ASSUME NEW w \in Creators, CreateLock(w) PROVE TypeOK'
    BY <2>2 DEF CreateLock, CreateRequest, db
  <2>3. ASSUME NEW w \in Creators, CreateRecheck(w) PROVE TypeOK'
    <3>1. creq[w] \in CreateRequest /\ creq[w].room \in Rooms /\ creq[w].span \in Spans
      BY <2>3 DEF CreateRecheck
    <3>2. CASE creq' = [creq EXCEPT ![w].pc = "checked"] /\ lock' = lock
      <4> DEFINE q == [creq[w] EXCEPT !.pc = "checked"]
      <4>1. creq' = [creq EXCEPT ![w] = q]
        BY <3>2
      <4>2. /\ q \in CreateRequest
            /\ q.room = creq[w].room /\ q.span = creq[w].span
        BY <3>1, CreateAdvanced
      <4> HIDE DEF q
      <4> QED
        BY <2>3, <3>1, <3>2, <4>1, <4>2 DEF CreateRecheck, db
    <3>3. CASE /\ creq' = [creq EXCEPT ![w] = IdleCreate]
               /\ lock' = [lock EXCEPT ![creq[w].room] = None]
      BY <2>3, <3>1, <3>3 DEF CreateRecheck, CreateRequest, IdleCreate, db
    <3> QED
      BY <2>3, <3>2, <3>3 DEF CreateRecheck
  <2>4. ASSUME NEW w \in Creators, CreateInsert(w) PROVE TypeOK'
    BY <2>4 DEF CreateInsert, CreateRequest, IdleCreate, NewRow, Row, Status
  <2>5. ASSUME NEW w \in Creators, CreateOutOfIds(w) PROVE TypeOK'
    BY <2>5 DEF CreateOutOfIds, CreateRequest, IdleCreate, db
  <2>6. ASSUME NEW p \in Patchers, PatchLoad(p) PROVE TypeOK'
    <3>1. PICK i \in Ids, status \in Status, signed \in BOOLEAN, grants \in BOOLEAN :
            /\ rows[i] # None
            /\ preq' = [preq EXCEPT ![p] =
                 [pc |-> "loaded", id |-> i, prev |-> None,
                  row |-> [rows[i] EXCEPT !.status = status, !.signed = signed],
                  grants |-> grants]]
      BY ZenonT(40), <2>6 DEF PatchLoad
    <3> DEFINE copy == [rows[i] EXCEPT !.status = status, !.signed = signed]
    <3>2. copy \in Row
      <4>1. rows[i] \in Row
        BY <3>1
      <4> QED
        BY <4>1, RowPatched
    <3>3. preq' = [preq EXCEPT ![p] = [pc |-> "loaded", id |-> i, prev |-> None,
                                       row |-> copy, grants |-> grants]]
      BY <3>1
    <3> HIDE DEF copy
    <3> QED
      BY <2>6, <3>2, <3>3 DEF PatchLoad, PatchRequest, db
  <2>7. ASSUME NEW p \in Patchers, PatchPreSave(p) PROVE TypeOK'
    <3> DEFINE now == rows[preq[p].id]
               prev == IF now = None THEN None ELSE now.status
    <3>1. /\ preq[p] \in PatchRequest /\ preq[p].id \in Ids /\ preq[p].row \in Row
          /\ prev \in Status \cup {None}
      BY <2>7 DEF PatchPreSave, Row
    <3> DEFINE q == [preq[p] EXCEPT !.pc = "presaved", !.prev = prev]
    <3>2. preq' = [preq EXCEPT ![p] = q]
      BY <2>7 DEF PatchPreSave
    <3> HIDE DEF prev
    <3>3. /\ q \in PatchRequest
          /\ q.id = preq[p].id /\ q.row = preq[p].row
      BY <3>1, PatchStashed
    <3>4. UNCHANGED <<db, lock, creq, deletes, crashes>>
      BY <2>7 DEF PatchPreSave
    <3> HIDE DEF q
    <3> QED
      BY <3>1, <3>2, <3>3, <3>4 DEF db
  <2>8. ASSUME NEW p \in Patchers, PatchSave(p) PROVE TypeOK'
    BY <2>8 DEF PatchSave, PatchRequest, IdlePatch
  <2>9. ASSUME NEW p \in Patchers, PatchCheckSchedule(p) PROVE TypeOK'
    BY <2>9 DEF PatchCheckSchedule, PatchRequest, IdlePatch, db
  <2>10. ASSUME NEW p \in Patchers, PatchGenerate(p) PROVE TypeOK'
    BY <2>10 DEF PatchGenerate, PatchRequest, IdlePatch
  <2>11. CASE CorporateInsert
    BY <2>11 DEF CorporateInsert, NewRow, Row, Status, procs
  <2>12. ASSUME NEW i \in Ids, Delete(i) PROVE TypeOK'
    BY <2>12 DEF Delete, procs
  <2>13. ASSUME NEW i \in Ids, InitiateDeposit(i) PROVE TypeOK'
    BY <2>13 DEF InitiateDeposit, procs
  <2>14. ASSUME NEW i \in Ids, SettleDeposit(i) PROVE TypeOK'
    <3>1. rows' = [rows EXCEPT ![i] = [rows[i] EXCEPT !.paid = TRUE]]
      BY <2>14 DEF SettleDeposit
    <3> QED
      BY <2>14, <3>1, RowPaid DEF SettleDeposit, procs
  <2>15. ASSUME NEW r \in Rooms, NEW on \in BOOLEAN, SetAvailable(r, on) PROVE TypeOK'
    BY <2>15 DEF SetAvailable, procs
  <2>16. CASE Crash
    <3>1. CASE \E w \in Creators :
                 /\ creq' = [creq EXCEPT ![w] = IdleCreate]
                 /\ lock' = [r \in Rooms |-> IF lock[r] = w THEN None ELSE lock[r]]
                 /\ preq' = preq
      BY <2>16, <3>1 DEF Crash, CreateRequest, IdleCreate, db
    <3>2. CASE \E p \in Patchers : /\ preq' = [preq EXCEPT ![p] = IdlePatch]
                                   /\ UNCHANGED <<lock, creq>>
      BY <2>16, <3>2 DEF Crash, PatchRequest, IdlePatch, db
    <3> QED
      BY <2>16, <3>1, <3>2 DEF Crash
  <2>17. CASE UNCHANGED vars
    BY <2>17 DEF vars, db, procs
  <2> QED
    BY <2>1, <2>2, <2>3, <2>4, <2>5, <2>6, <2>7, <2>8, <2>9, <2>10, <2>11,
       <2>12, <2>13, <2>14, <2>15, <2>16, <2>17 DEF Next, CreateStep, PatchStep
<1> QED
  BY <1>1, <1>2, PTL DEF Spec

-----------------------------------------------------------------------------
(* The create lock protects a room's dates as long as the table is only     *)
(* changed by creates and by one PATCH at a time: a second PATCH, or a PATCH *)
(* of a deleted row, may write back a status that blocks again.             *)
SerialWrites == MaxDeletes = 0 /\ \A p, q \in Patchers : p = q

(* Only ids handed out by the sequence have rows.                           *)
RowsIssued == \A i \in Ids : rows[i] # None => i \in issued

(* Between re-check and commit, nothing blocks the requested dates.         *)
CheckedFits ==
  \A w \in Creators :
    creq[w].pc = "checked" => ~OverlapExists(creq[w].room, creq[w].span)

(* The copy a PATCH carries is of the stored row, in the same place, and     *)
(* blocks its dates only if the stored row still does.                      *)
CopyFresh ==
  \A p \in Patchers : preq[p].pc \in {"loaded", "presaved"} =>
    LET old == rows[preq[p].id]
        new == preq[p].row IN
    /\ old # None
    /\ new.room = old.room /\ new.span = old.span /\ new.corp = old.corp
    /\ new.status \in Blocking => old.status \in Blocking

IInv == TypeOK /\ RoomLockHeld /\ RowsIssued /\ CheckedFits /\ CopyFresh /\ NoDoubleBooking

(* No stored row newly blocks a date.                                       *)
NoNewBlock ==
  \A i \in Ids : rows'[i] # None /\ rows'[i].status \in Blocking =>
    /\ rows[i] # None /\ rows[i].status \in Blocking
    /\ rows'[i].room = rows[i].room /\ rows'[i].span = rows[i].span
    /\ rows'[i].corp = rows[i].corp

(* A step that blocks no new date, and moves no create request to its        *)
(* commit, keeps what the room locks protect.                               *)
LEMMA NoNewBlockSafe ==
  ASSUME TypeOK, NoDoubleBooking, CheckedFits, NoNewBlock,
         \A w \in Creators : creq'[w].pc = "checked" =>
           creq[w].pc = "checked" /\ creq'[w] = creq[w]
  PROVE NoDoubleBooking' /\ CheckedFits'
<1>1. \A r, s : OverlapExists(r, s)' => OverlapExists(r, s)
  BY DEF OverlapExists, NoNewBlock
<1> QED
  BY <1>1 DEF CheckedFits, NoDoubleBooking, NoNewBlock

(* Advancing one create request leaves rooms, spans and the others alone.   *)
LEMMA CreatePcMoved ==
  ASSUME creq \in [Creators -> CreateRequest], NEW w \in Creators,
         NEW pc \in {"idle", "validated", "locked", "checked"},
         creq' = [creq EXCEPT ![w].pc = pc]
  PROVE  \A v \in Creators : /\ creq'[v].pc = IF v = w THEN pc ELSE creq[v].pc
                             /\ creq'[v].room = creq[v].room
                             /\ creq'[v].span = creq[v].span
<1> DEFINE q == [creq[w] EXCEPT !.pc = pc]
<1>1. creq' = [creq EXCEPT ![w] = q]
  OBVIOUS
<1>2. q.pc = pc /\ q.room = creq[w].room /\ q.span = creq[w].span
  BY CreateAdvanced
<1> HIDE DEF q
<1> QED
  BY <1>1, <1>2

(* Every step of a create request keeps the invariant.                      *)
LEMMA CreateKeepsIInv ==
  ASSUME IInv, NEW w \in Creators, CreateValidate(w) \/ CreateStep(w)
  PROVE  RoomLockHeld' /\ RowsIssued' /\ CheckedFits' /\ CopyFresh' /\ NoDoubleBooking'
<1> USE ConstantsAssumption, NoneIsNoRow
<1> USE DEF IInv
<1>1. CASE CreateValidate(w)
  <2>1. UNCHANGED <<rows, issued, lock, preq>>
    BY <1>1 DEF CreateValidate, db
  <2>2. creq[w].pc = "idle" /\ creq'[w].pc = "validated"
        /\ \A v \in Creators \ {w} : creq'[v] = creq[v]
    BY <1>1 DEF CreateValidate, TypeOK
  <2>3. RoomLockHeld'
    BY <2>1, <2>2 DEF RoomLockHeld
  <2>4. CheckedFits'
    BY <2>1, <2>2 DEF CheckedFits, OverlapExists
  <2> QED
    BY <2>1, <2>3, <2>4 DEF RowsIssued, CopyFresh, NoDoubleBooking
<1>2. CASE CreateLock(w)
  <2>1. UNCHANGED <<rows, issued, preq>>
    BY <1>2 DEF CreateLock, db
  <2>2. /\ creq[w].pc = "validated" /\ creq[w].room \in Rooms
        /\ lock[creq[w].room] = None /\ lock' = [lock EXCEPT ![creq[w].room] = w]
    BY <1>2 DEF CreateLock, TypeOK
  <2>3. \A v \in Creators : /\ creq'[v].pc = IF v = w THEN "locked" ELSE creq[v].pc
                            /\ creq'[v].room = creq[v].room
                            /\ creq'[v].span = creq[v].span
    BY <1>2, CreatePcMoved DEF CreateLock, TypeOK
  <2>4. RoomLockHeld'
    BY <2>2, <2>3 DEF RoomLockHeld, TypeOK
  <2>5. CheckedFits'
    BY <2>1, <2>3 DEF CheckedFits, OverlapExists
  <2> QED
    BY <2>1, <2>4, <2>5 DEF RowsIssued, CopyFresh, NoDoubleBooking
<1>3. CASE CreateRecheck(w)
  <2>1. UNCHANGED <<rows, issued, preq>>
    BY <1>3 DEF CreateRecheck, db
  <2>2. creq[w].pc = "locked" /\ creq[w].room \in Rooms /\ lock[creq[w].room] = w
    BY <1>3 DEF CreateRecheck, TypeOK, RoomLockHeld
  <2>3. CASE /\ ~OverlapExists(creq[w].room, creq[w].span)
             /\ creq' = [creq EXCEPT ![w].pc = "checked"] /\ lock' = lock
    <3>1. \A v \in Creators : /\ creq'[v].pc = IF v = w THEN "checked" ELSE creq[v].pc
                              /\ creq'[v].room = creq[v].room
                              /\ creq'[v].span = creq[v].span
      BY <2>3, CreatePcMoved DEF TypeOK
    <3>2. RoomLockHeld'
      BY <2>2, <2>3, <3>1 DEF RoomLockHeld
    <3>3. CheckedFits'
      BY <2>1, <2>3, <3>1 DEF CheckedFits, OverlapExists
    <3> QED
      BY <2>1, <3>2, <3>3 DEF RowsIssued, CopyFresh, NoDoubleBooking
  <2>4. CASE /\ creq' = [creq EXCEPT ![w] = IdleCreate]
             /\ lock' = [lock EXCEPT ![creq[w].room] = None]
    <3>1. creq'[w].pc = "idle" /\ \A v \in Creators \ {w} : creq'[v] = creq[v]
      BY <2>4 DEF TypeOK, IdleCreate
    <3>2. RoomLockHeld'
      BY <2>2, <2>4, <3>1 DEF RoomLockHeld, TypeOK
    <3>3. CheckedFits'
      BY <2>1, <3>1 DEF CheckedFits, OverlapExists
    <3> QED
      BY <2>1, <3>2, <3>3 DEF RowsIssued, CopyFresh, NoDoubleBooking
  <2> QED
    BY <1>3, <2>3, <2>4 DEF CreateRecheck
<1>4. CASE CreateInsert(w)
  <2> DEFINE r == creq[w].room
             s == creq[w].span
  <2>1. PICK i \in Ids \ issued : /\ issued' = issued \cup {i}
                                 /\ rows' = [rows EXCEPT ![i] = NewRow(r, s, creq[w].due, FALSE)]
    BY <1>4 DEF CreateInsert
  <2>2. /\ creq[w].pc = "checked" /\ r \in Rooms /\ lock[r] = w /\ preq' = preq
        /\ lock' = [lock EXCEPT ![r] = None]
        /\ creq'[w].pc = "idle" /\ \A v \in Creators \ {w} : creq'[v] = creq[v]
    BY <1>4 DEF CreateInsert, TypeOK, RoomLockHeld, IdleCreate
  <2>3. rows[i] = None
    BY <2>1 DEF RowsIssued
  <2>4. rows'[i].room = r /\ rows'[i].span = s /\ rows'[i] # None
        /\ \A j \in Ids \ {i} : rows'[j] = rows[j]
    <3>1. r \in Rooms /\ s \in Spans /\ creq[w].due \in BOOLEAN
      BY <2>2 DEF TypeOK, CreateRequest
    <3>2. PICK new : new = NewRow(r, s, creq[w].due, FALSE)
      OBVIOUS
    <3>3. new # None /\ new.room = r /\ new.span = s
      <4>1. new \in Row
        BY <3>1, <3>2 DEF NewRow, Row, Status
      <4> QED
        BY <3>2, <4>1 DEF NewRow
    <3>4. rows'[i] = new /\ \A j \in Ids \ {i} : rows'[j] = rows[j]
      BY <2>1, <3>2 DEF TypeOK
    <3> QED
      BY <3>3, <3>4
  <2>5. ~OverlapExists(r, s)
    BY <2>2 DEF CheckedFits
  <2>6. RoomLockHeld'
    BY <2>2 DEF RoomLockHeld, TypeOK
  <2>7. RowsIssued'
    BY <2>1, <2>4 DEF RowsIssued
  <2>8. CheckedFits'
    <3> SUFFICES ASSUME NEW v \in Creators, creq'[v].pc = "checked"
                 PROVE  ~OverlapExists(creq[v].room, creq[v].span)' /\ creq'[v] = creq[v]
      BY DEF CheckedFits
    <3>1. v # w /\ creq'[v] = creq[v] /\ creq[v].room # r
      BY <2>2 DEF RoomLockHeld
    <3>2. ~OverlapExists(creq[v].room, creq[v].span)
      BY <3>1 DEF CheckedFits
    <3> QED
      BY <2>4, <3>1, <3>2 DEF OverlapExists
  <2>9. CopyFresh'
    BY <2>2, <2>3, <2>4 DEF CopyFresh, TypeOK
  <2>10. NoDoubleBooking'
    BY <2>4, <2>5 DEF NoDoubleBooking, OverlapExists, Overlaps
  <2> QED
    BY <2>6, <2>7, <2>8, <2>9, <2>10
<1>5. CASE CreateOutOfIds(w)
  <2>1. UNCHANGED <<rows, issued, preq>>
    BY <1>5 DEF CreateOutOfIds, db
  <2>2. /\ lock[creq[w].room] = w /\ creq[w].room \in Rooms
        /\ lock' = [lock EXCEPT ![creq[w].room] = None]
        /\ creq'[w].pc = "idle" /\ \A v \in Creators \ {w} : creq'[v] = creq[v]
    BY <1>5 DEF CreateOutOfIds, TypeOK, RoomLockHeld, IdleCreate
  <2>3. RoomLockHeld'
    BY <2>2 DEF RoomLockHeld, TypeOK
  <2>4. CheckedFits'
    BY <2>1, <2>2 DEF CheckedFits, OverlapExists
  <2> QED
    BY <2>1, <2>3, <2>4 DEF RowsIssued, CopyFresh, NoDoubleBooking
<1> QED
  BY <1>1, <1>2, <1>3, <1>4, <1>5 DEF CreateStep

(* The steps of a PATCH, when no other PATCH is under way, block no new date *)
(* and carry a fresh copy.                                                  *)
LEMMA PatchKeepsIInv ==
  ASSUME IInv, SerialWrites, NEW p \in Patchers, PatchLoad(p) \/ PatchStep(p)
  PROVE  NoNewBlock /\ RowsIssued' /\ CopyFresh' /\ UNCHANGED <<lock, creq>>
<1> USE ConstantsAssumption, NoneIsNoRow
<1> USE DEF IInv
<1>1. CASE PatchLoad(p)
  <2>1. UNCHANGED <<rows, issued, lock, creq>>
    BY <1>1 DEF PatchLoad, db
  <2>2. PICK i \in Ids, role \in {"owner", "tenant"}, status \in Status,
             signed \in BOOLEAN :
          /\ rows[i] # None
          /\ MayWrite(role, rows[i], status)
          /\ signed /\ ~rows[i].signed => rows[i].status = "approved"
          /\ preq' = [preq EXCEPT ![p] =
               [pc |-> "loaded", id |-> i, prev |-> None,
                row |-> [rows[i] EXCEPT !.status = status, !.signed = signed],
                grants |-> status = "approved" /\ rows[i].status # "approved"
                             /\ role = "owner"]]
    BY ONLY <1>1 DEF PatchLoad
  <2>3. PICK copy : copy = [rows[i] EXCEPT !.status = status, !.signed = signed]
    OBVIOUS
  <2>4. /\ copy.room = rows[i].room /\ copy.span = rows[i].span
        /\ copy.corp = rows[i].corp /\ copy.status = status
    <3>1. rows[i] \in Row
      BY <2>2 DEF TypeOK
    <3> QED
      BY <2>3, <3>1 DEF Row
  <2>5. status \in Blocking => rows[i].status \in Blocking
    BY <2>2 DEF MayWrite, OwnerTargets, TenantTargets, Blocking
  <2>6. preq'[p].id = i /\ preq'[p].row = copy
    BY <2>2, <2>3 DEF TypeOK
  <2>7. CopyFresh'
    BY <2>1, <2>2, <2>4, <2>5, <2>6 DEF CopyFresh, SerialWrites
  <2> QED
    BY <2>1, <2>7 DEF NoNewBlock, RowsIssued
<1>2. CASE PatchPreSave(p)
  <2>1. UNCHANGED <<rows, issued, lock, creq>> /\ preq[p].pc = "loaded"
    BY <1>2 DEF PatchPreSave, db
  <2>2. PICK prev \in Status \cup {None} :
          preq' = [preq EXCEPT ![p] = [preq[p] EXCEPT !.pc = "presaved", !.prev = prev]]
    <3>1. preq[p].id \in Ids /\ \A row \in Row : row.status \in Status
      BY <2>1 DEF TypeOK, Row
    <3> QED
      BY <1>2, <3>1 DEF PatchPreSave, TypeOK
  <2>3. PICK q : q = [preq[p] EXCEPT !.pc = "presaved", !.prev = prev]
    OBVIOUS
  <2>4. q.id = preq[p].id /\ q.row = preq[p].row
    <3>1. preq[p] \in PatchRequest
      BY DEF TypeOK
    <3> QED
      BY <2>3, <3>1, PatchStashed
  <2>5. preq'[p] = q
    BY <2>2, <2>3 DEF TypeOK
  <2>6. CopyFresh'
    BY <2>1, <2>4, <2>5 DEF CopyFresh, SerialWrites
  <2> QED
    BY <2>1, <2>6 DEF NoNewBlock, RowsIssued
<1>3. CASE PatchSave(p)
  <2> DEFINE i == preq[p].id
  <2>1. /\ preq[p].pc = "presaved" /\ i \in Ids
        /\ rows' = [rows EXCEPT ![i] = preq[p].row]
        /\ UNCHANGED <<issued, lock, creq>>
    BY <1>3 DEF PatchSave, TypeOK
  <2>2. preq'[p].pc \in {"idle", "saved"}
    <3>1. preq[p] \in PatchRequest
      BY DEF TypeOK
    <3>2. [preq[p] EXCEPT !.pc = "saved"].pc = "saved"
      BY <3>1 DEF PatchRequest
    <3> QED
      BY <1>3, <3>2 DEF PatchSave, IdlePatch, TypeOK
  <2>3. \A j \in Ids : rows'[j] = IF j = i THEN preq[p].row ELSE rows[j]
    BY <2>1 DEF TypeOK
  <2>4. NoNewBlock
    BY <2>1, <2>3 DEF NoNewBlock, CopyFresh
  <2>5. RowsIssued'
    BY <2>1, <2>3 DEF RowsIssued, CopyFresh
  <2>6. CopyFresh'
    BY <2>2 DEF CopyFresh, SerialWrites
  <2> QED
    BY <2>1, <2>4, <2>5, <2>6
<1>4. CASE PatchCheckSchedule(p)
  <2>1. UNCHANGED <<rows, issued, lock, creq>>
    BY <1>4 DEF PatchCheckSchedule, db
  <2>2. preq'[p].pc \in {"idle", "generating"}
    <3>1. preq[p] \in PatchRequest
      BY DEF TypeOK
    <3>2. [preq[p] EXCEPT !.pc = "generating"].pc = "generating"
      BY <3>1 DEF PatchRequest
    <3> QED
      BY <1>4, <3>2 DEF PatchCheckSchedule, IdlePatch, TypeOK
  <2>3. CopyFresh'
    BY <2>2 DEF CopyFresh, SerialWrites
  <2> QED
    BY <2>1, <2>3 DEF NoNewBlock, RowsIssued
<1>5. CASE PatchGenerate(p)
  <2>1. UNCHANGED <<rows, issued, lock, creq>> /\ preq'[p].pc = "idle"
    BY <1>5 DEF PatchGenerate, IdlePatch, TypeOK
  <2> QED
    BY <2>1 DEF NoNewBlock, RowsIssued, CopyFresh, SerialWrites
<1> QED
  BY <1>1, <1>2, <1>3, <1>4, <1>5 DEF PatchStep

(* The room lock is enough against any number of concurrent creates: as     *)
(* long as PATCHes do not overlap each other or a DELETE, no two regular     *)
(* bookings that hold their dates overlap (BookingCreateSerializer.create). *)
THEOREM CreatesNeverOverlap == ASSUME SerialWrites PROVE Spec => []NoDoubleBooking
<1> USE ConstantsAssumption, NoneIsNoRow
<1>1. Init => IInv
  <2> SUFFICES ASSUME Init PROVE IInv
    OBVIOUS
  <2>1. TypeOK
    BY DEF Init, TypeOK, IdleCreate, IdlePatch, CreateRequest, PatchRequest
  <2> QED
    BY <2>1 DEF Init, IInv, RoomLockHeld, RowsIssued, CheckedFits, CopyFresh,
                NoDoubleBooking, IdleCreate, IdlePatch
<1>2. IInv /\ TypeOK' /\ [Next]_vars => IInv'
  <2> SUFFICES ASSUME IInv, TypeOK', [Next]_vars PROVE IInv'
    OBVIOUS
  <2> USE DEF IInv
  <2>1. ASSUME NEW w \in Creators, CreateValidate(w) \/ CreateStep(w) PROVE IInv'
    BY <2>1, CreateKeepsIInv
  <2>2. ASSUME NEW p \in Patchers, PatchLoad(p) \/ PatchStep(p) PROVE IInv'
    <3>1. NoNewBlock /\ RowsIssued' /\ CopyFresh' /\ UNCHANGED <<lock, creq>>
      BY <2>2, PatchKeepsIInv
    <3>2. NoDoubleBooking' /\ CheckedFits'
      BY <3>1, NoNewBlockSafe
    <3> QED
      BY <3>1, <3>2 DEF RoomLockHeld
  <2>3. CASE CorporateInsert
    <3>1. PICK i \in Ids \ issued, r \in Rooms, s \in Spans :
            /\ lock[r] = None /\ issued' = issued \cup {i}
            /\ rows' = [rows EXCEPT ![i] = NewRow(r, s, FALSE, TRUE)]
      BY <2>3 DEF CorporateInsert
    <3>2. UNCHANGED <<lock, creq, preq>>
      BY <2>3 DEF CorporateInsert, procs
    <3>3. PICK new : new = NewRow(r, s, FALSE, TRUE)
      OBVIOUS
    <3>4. new.room = r /\ new.corp = TRUE
      BY <3>3 DEF NewRow
    <3>5. rows[i] = None /\ rows'[i] = new /\ \A j \in Ids \ {i} : rows'[j] = rows[j]
      BY <3>1, <3>3 DEF TypeOK, RowsIssued
    <3>6. RowsIssued' /\ CopyFresh' /\ NoDoubleBooking'
      <4>1. RowsIssued'
        BY <3>1, <3>5 DEF RowsIssued
      <4>2. CopyFresh'
        BY <3>2, <3>5 DEF CopyFresh, TypeOK
      <4>3. NoDoubleBooking'
        BY <3>4, <3>5 DEF NoDoubleBooking
      <4> QED
        BY <4>1, <4>2, <4>3
    <3>7. CheckedFits'
      <4> SUFFICES ASSUME NEW w \in Creators, creq[w].pc = "checked"
                   PROVE  ~OverlapExists(creq[w].room, creq[w].span)'
        BY <3>2 DEF CheckedFits
      <4>1. creq[w].room # r
        BY <3>1 DEF RoomLockHeld
      <4>2. ~OverlapExists(creq[w].room, creq[w].span)
        BY DEF CheckedFits
      <4> QED
        BY <3>2, <3>4, <3>5, <4>1, <4>2 DEF OverlapExists
    <3> QED
      BY <3>2, <3>6, <3>7 DEF RoomLockHeld
  <2>4. ASSUME NEW i \in Ids, Delete(i) PROVE IInv'
    BY <2>4 DEF Delete, SerialWrites, TypeOK
  <2>5. ASSUME NEW i \in Ids, SettleDeposit(i) PROVE IInv'
    <3>1. UNCHANGED <<issued, lock, creq, preq>> /\ rows[i] # None
      BY <2>5 DEF SettleDeposit, procs
    <3>2. PICK new : new = [rows[i] EXCEPT !.paid = TRUE]
      OBVIOUS
    <3>3. /\ new \in Row /\ new.room = rows[i].room /\ new.span = rows[i].span
          /\ new.corp = rows[i].corp /\ new.status = rows[i].status
      <4>1. rows[i] \in Row
        BY <3>1 DEF TypeOK
      <4> QED
        BY <3>2, <4>1 DEF Row
    <3>4. rows'[i] = new /\ \A j \in Ids \ {i} : rows'[j] = rows[j]
      BY <2>5, <3>2 DEF SettleDeposit, TypeOK
    <3>5. NoNewBlock
      BY <3>1, <3>3, <3>4 DEF NoNewBlock
    <3>6. NoDoubleBooking' /\ CheckedFits'
      BY <3>1, <3>5, NoNewBlockSafe
    <3>7. RowsIssued' /\ CopyFresh'
      BY <3>1, <3>3, <3>4 DEF RowsIssued, CopyFresh, TypeOK
    <3> QED
      BY <3>1, <3>6, <3>7 DEF RoomLockHeld
  <2>6. CASE Crash
    <3>1. CASE \E w \in Creators :
                 /\ creq' = [creq EXCEPT ![w] = IdleCreate]
                 /\ lock' = [r \in Rooms |-> IF lock[r] = w THEN None ELSE lock[r]]
                 /\ preq' = preq
      <4>1. PICK w \in Creators :
              /\ creq' = [creq EXCEPT ![w] = IdleCreate]
              /\ lock' = [r \in Rooms |-> IF lock[r] = w THEN None ELSE lock[r]]
              /\ preq' = preq
        BY <3>1
      <4>2. UNCHANGED <<rows, issued, preq>>
        BY <2>6, <4>1 DEF Crash, db
      <4>3. creq'[w].pc = "idle" /\ \A v \in Creators \ {w} : creq'[v] = creq[v]
        BY <4>1 DEF TypeOK, IdleCreate
      <4>4. RoomLockHeld'
        BY <4>1, <4>3 DEF RoomLockHeld
      <4>5. CheckedFits'
        BY <4>2, <4>3 DEF CheckedFits, OverlapExists
      <4> QED
        BY <4>2, <4>4, <4>5 DEF RowsIssued, CopyFresh, NoDoubleBooking
    <3>2. CASE \E p \in Patchers : /\ preq' = [preq EXCEPT ![p] = IdlePatch]
                                   /\ UNCHANGED <<lock, creq>>
      <4>1. UNCHANGED <<rows, issued, lock, creq>>
        BY <2>6, <3>2 DEF Crash, db
      <4>2. CopyFresh'
        BY <3>2, <4>1 DEF CopyFresh, TypeOK, IdlePatch
      <4> QED
        BY <4>1, <4>2 DEF RowsIssued, RoomLockHeld, CheckedFits, OverlapExists, NoDoubleBooking
    <3> QED
      BY <2>6, <3>1, <3>2 DEF Crash
  <2>7. CASE UNCHANGED <<rows, issued, lock, creq, preq>>
    BY <2>7 DEF RowsIssued, RoomLockHeld, CheckedFits, CopyFresh, OverlapExists, NoDoubleBooking
  <2> QED
    BY <2>1, <2>2, <2>3, <2>4, <2>5, <2>6, <2>7
       DEF Next, InitiateDeposit, SetAvailable, vars, db, procs
<1>3. IInv => NoDoubleBooking
  BY DEF IInv
<1> QED
  BY <1>1, <1>2, <1>3, TypeCorrect, PTL DEF Spec
-----------------------------------------------------------------------------
(* A copy that is approved or signed is of an approved booking, or is the   *)
(* owner's own approval on its way to the table.                            *)
CopiesApproved ==
  \A p \in Patchers : preq[p].pc \in {"loaded", "presaved"} =>
    (preq[p].row.status = "approved" \/ preq[p].row.signed =>
       preq[p].grants \/ preq[p].id \in granted)

(* The copies stay honest while grants are only added and requests do not   *)
(* move; the table, while its rows gain neither mark.                       *)
LEMMA CopiesKept ==
  ASSUME CopiesApproved, granted \subseteq granted', NEW p \in Patchers,
         preq'[p] = preq[p] \/ preq'[p].pc \notin {"loaded", "presaved"}
  PROVE  preq'[p].pc \in {"loaded", "presaved"} =>
           (preq'[p].row.status = "approved" \/ preq'[p].row.signed =>
              preq'[p].grants \/ preq'[p].id \in granted')
  BY DEF CopiesApproved

LEMMA MarksKept ==
  ASSUME OnlyTheOwnerApproves, granted' = granted, UNCHANGED preq, CopiesApproved,
         \A i \in Ids : rows'[i] # None =>
           \/ rows'[i].status # "approved" /\ ~rows'[i].signed
           \/ /\ rows[i] # None
              /\ rows'[i].status = rows[i].status /\ rows'[i].signed = rows[i].signed
  PROVE  OnlyTheOwnerApproves' /\ CopiesApproved'
  BY DEF OnlyTheOwnerApproves, CopiesApproved

(* The read and edit of one PATCH, its choices made.                        *)
Loads(p, i, role, status, signed) ==
  /\ rows[i] # None
  /\ MayWrite(role, rows[i], status)
  /\ signed /\ ~rows[i].signed => rows[i].status = "approved"
  /\ preq' = [preq EXCEPT ![p] =
       [pc |-> "loaded", id |-> i, prev |-> None,
        row |-> [rows[i] EXCEPT !.status = status, !.signed = signed],
        grants |-> status = "approved" /\ rows[i].status # "approved"
                     /\ role = "owner"]]
LEMMA PatchLoads ==
  ASSUME NEW p \in Patchers, PatchLoad(p)
  PROVE  \E i \in Ids, role \in {"owner", "tenant"}, status \in Status, signed \in BOOLEAN :
           Loads(p, i, role, status, signed)
  BY Zenon DEF PatchLoad, Loads

(* A PATCH marks a copy only as the endpoint allows its caller to.           *)
LEMMA LoadApproved ==
  ASSUME TypeOK, OnlyTheOwnerApproves, CopiesApproved, NEW p \in Patchers, PatchLoad(p)
  PROVE  OnlyTheOwnerApproves' /\ CopiesApproved'
<1>1. PICK i \in Ids, role \in {"owner", "tenant"}, status \in Status, signed \in BOOLEAN :
        Loads(p, i, role, status, signed)
  BY PatchLoads
<1>2. /\ status = "approved" /\ rows[i].status # "approved" => role = "owner"
      /\ rows[i] # None
      /\ signed /\ ~rows[i].signed => rows[i].status = "approved"
  BY <1>1 DEF Loads, MayWrite, TenantTargets
<1>3. UNCHANGED <<rows, granted>>
  BY DEF PatchLoad, db
<1>4. /\ preq \in [Patchers -> PatchRequest] /\ rows[i] \in Row /\ rows[i].signed \in BOOLEAN
  BY <1>2 DEF TypeOK, Row
<1> DEFINE copy == [rows[i] EXCEPT !.status = status, !.signed = signed]
<1>5. copy.status = status /\ copy.signed = signed
  BY <1>4 DEF Row
<1>6. rows[i].status = "approved" \/ rows[i].signed => i \in granted
  BY <1>2 DEF OnlyTheOwnerApproves
<1>7. /\ preq'[p].id = i /\ preq'[p].row = copy
      /\ preq'[p].grants = (status = "approved" /\ rows[i].status # "approved" /\ role = "owner")
      /\ \A o \in Patchers \ {p} : preq'[o] = preq[o]
  BY <1>1, <1>4 DEF Loads
<1> HIDE DEF copy
<1>8. preq'[p].row.status = "approved" \/ preq'[p].row.signed =>
        preq'[p].grants \/ preq'[p].id \in granted'
  <2>1. CASE status = "approved" /\ rows[i].status # "approved"
    <3>1. preq'[p].grants
      BY <1>2, <1>7, <2>1
    <3> QED
      BY <3>1
  <2>2. CASE ~(status = "approved" /\ rows[i].status # "approved")
    <3>1. status = "approved" \/ signed => i \in granted
      BY <1>6, <1>2, <2>2
    <3>2. preq'[p].row.status = status /\ preq'[p].row.signed = signed /\ preq'[p].id = i
      BY <1>5, <1>7
    <3>3. granted' = granted
      BY <1>3
    <3> QED
      BY <3>1, <3>2, <3>3
  <2> QED
    BY <2>1, <2>2
<1>9. CopiesApproved'
  BY <1>3, <1>7, <1>8, CopiesKept DEF CopiesApproved
<1> QED
  BY <1>3, <1>9 DEF OnlyTheOwnerApproves

(* Approval and signature reach the table by the owner's PATCH alone,       *)
(* whatever stale copies are written back and whoever dies on the way.      *)
THEOREM ApprovalIsTheOwners == Spec => []OnlyTheOwnerApproves
<1>1. Init => OnlyTheOwnerApproves /\ CopiesApproved
  BY DEF Init, OnlyTheOwnerApproves, CopiesApproved, IdlePatch
<1>2. TypeOK /\ OnlyTheOwnerApproves /\ CopiesApproved /\ [Next]_vars
        => OnlyTheOwnerApproves' /\ CopiesApproved'
  <2> SUFFICES ASSUME TypeOK, OnlyTheOwnerApproves, CopiesApproved, [Next]_vars
               PROVE  OnlyTheOwnerApproves' /\ CopiesApproved'
    OBVIOUS
  <2>1. ASSUME UNCHANGED <<rows, granted, preq>>
        PROVE  OnlyTheOwnerApproves' /\ CopiesApproved'
    BY <2>1 DEF OnlyTheOwnerApproves, CopiesApproved
  <2>2. ASSUME NEW w \in Creators, CreateValidate(w) \/ CreateLock(w) \/ CreateRecheck(w)
                                   \/ CreateOutOfIds(w)
        PROVE  UNCHANGED <<rows, granted, preq>>
    BY <2>2 DEF CreateValidate, CreateLock, CreateRecheck, CreateOutOfIds, db
  <2>3. ASSUME NEW i \in Ids, InitiateDeposit(i) PROVE UNCHANGED <<rows, granted, preq>>
    BY <2>3 DEF InitiateDeposit, procs
  <2>4. ASSUME NEW r \in Rooms, NEW on \in BOOLEAN, SetAvailable(r, on)
        PROVE  UNCHANGED <<rows, granted, preq>>
    BY <2>4 DEF SetAvailable, procs
  <2>5. ASSUME NEW i \in Ids, NEW r, NEW s, NEW due, NEW corp,
               rows' = [rows EXCEPT ![i] = NewRow(r, s, due, corp)],
               granted' = granted, preq' = preq
        PROVE  OnlyTheOwnerApproves' /\ CopiesApproved'
    <3>1. NewRow(r, s, due, corp).status # "approved" /\ ~NewRow(r, s, due, corp).signed
      BY DEF NewRow
    <3>2. \A j \in Ids : rows'[j] = IF j = i THEN NewRow(r, s, due, corp) ELSE rows[j]
      BY <2>5 DEF TypeOK
    <3> QED
      BY <2>5, <3>1, <3>2, MarksKept
  <2>6. ASSUME NEW w \in Creators, CreateInsert(w) PROVE OnlyTheOwnerApproves' /\ CopiesApproved'
    <3>1. PICK i \in Ids : rows' = [rows EXCEPT ![i] = NewRow(creq[w].room, creq[w].span, creq[w].due, FALSE)]
      BY <2>6 DEF CreateInsert
    <3>2. PICK q : q = creq[w]
      OBVIOUS
    <3>3. rows' = [rows EXCEPT ![i] = NewRow(q.room, q.span, q.due, FALSE)]
      BY <3>1, <3>2
    <3> QED
      BY <2>5, <2>6, <3>3 DEF CreateInsert
  <2>7. CASE CorporateInsert
    BY <2>5, <2>7 DEF CorporateInsert, procs
  <2>8. ASSUME NEW i \in Ids, Delete(i) PROVE OnlyTheOwnerApproves' /\ CopiesApproved'
    BY <2>8, MarksKept DEF Delete, procs, TypeOK
  <2>9. ASSUME NEW i \in Ids, SettleDeposit(i) PROVE OnlyTheOwnerApproves' /\ CopiesApproved'
    <3>1. /\ rows[i] \in Row /\ rows[i] # None
          /\ rows' = [rows EXCEPT ![i] = [rows[i] EXCEPT !.paid = TRUE]]
          /\ granted' = granted /\ preq' = preq
      BY <2>9 DEF SettleDeposit, procs, TypeOK
    <3>2. /\ [rows[i] EXCEPT !.paid = TRUE].status = rows[i].status
          /\ [rows[i] EXCEPT !.paid = TRUE].signed = rows[i].signed
      BY <3>1 DEF Row
    <3>3. \A j \in Ids : rows'[j] = IF j = i THEN [rows[i] EXCEPT !.paid = TRUE] ELSE rows[j]
      BY <3>1 DEF TypeOK
    <3> QED
      BY <3>1, <3>2, <3>3, MarksKept
  <2>10. ASSUME NEW p \in Patchers, PatchLoad(p) PROVE OnlyTheOwnerApproves' /\ CopiesApproved'
    BY <2>10, LoadApproved
  <2>11. ASSUME NEW p \in Patchers, PatchPreSave(p)
         PROVE  OnlyTheOwnerApproves' /\ CopiesApproved'
    <3> DEFINE now == rows[preq[p].id]
               prev == IF now = None THEN None ELSE now.status
               q == [preq[p] EXCEPT !.pc = "presaved", !.prev = prev]
    <3>1. /\ preq[p] \in PatchRequest /\ preq[p].pc = "loaded"
          /\ preq' = [preq EXCEPT ![p] = q]
          /\ UNCHANGED <<rows, granted>>
      BY <2>11 DEF PatchPreSave, TypeOK, db
    <3> HIDE DEF prev
    <3>2. q.id = preq[p].id /\ q.row = preq[p].row /\ q.grants = preq[p].grants
      BY <3>1 DEF PatchRequest
    <3>3. preq'[p] = q /\ \A o \in Patchers \ {p} : preq'[o] = preq[o]
      BY <3>1 DEF TypeOK
    <3> HIDE DEF q
    <3> QED
      BY <3>1, <3>2, <3>3, CopiesKept DEF CopiesApproved, OnlyTheOwnerApproves
  <2>12. ASSUME NEW p \in Patchers, PatchSave(p)
         PROVE  OnlyTheOwnerApproves' /\ CopiesApproved'
    <3>1. /\ preq[p].pc = "presaved" /\ preq[p].id \in Ids
          /\ rows' = [rows EXCEPT ![preq[p].id] = preq[p].row]
          /\ granted' = IF preq[p].grants THEN granted \cup {preq[p].id} ELSE granted
      BY <2>12 DEF PatchSave, TypeOK
    <3>2. preq'[p].pc \in {"saved", "idle"} /\ \A o \in Patchers \ {p} : preq'[o] = preq[o]
      BY <2>12 DEF PatchSave, IdlePatch, TypeOK, PatchRequest
    <3>3. preq[p].row.status = "approved" \/ preq[p].row.signed => preq[p].id \in granted'
      BY <3>1 DEF CopiesApproved
    <3>4. OnlyTheOwnerApproves'
      BY <3>1, <3>3 DEF OnlyTheOwnerApproves, TypeOK
    <3>5. CopiesApproved'
      BY <3>1, <3>2, CopiesKept DEF CopiesApproved
    <3> QED
      BY <3>4, <3>5
  <2>13. ASSUME NEW p \in Patchers, PatchCheckSchedule(p) \/ PatchGenerate(p)
         PROVE  OnlyTheOwnerApproves' /\ CopiesApproved'
    <3>1. UNCHANGED <<rows, granted>>
      BY <2>13 DEF PatchCheckSchedule, PatchGenerate, db
    <3>2. /\ preq'[p].pc \in {"generating", "idle"}
          /\ \A o \in Patchers \ {p} : preq'[o] = preq[o]
      BY <2>13 DEF PatchCheckSchedule, PatchGenerate, IdlePatch, TypeOK, PatchRequest
    <3> QED
      BY <3>1, <3>2, CopiesKept DEF CopiesApproved, OnlyTheOwnerApproves
  <2>14. CASE Crash
    <3>1. UNCHANGED <<rows, granted>>
      BY <2>14 DEF Crash, db
    <3>2. \A o \in Patchers : preq'[o] = preq[o] \/ preq'[o].pc = "idle"
      BY <2>14 DEF Crash, IdlePatch, TypeOK
    <3> QED
      BY <3>1, <3>2, CopiesKept DEF CopiesApproved, OnlyTheOwnerApproves
  <2>15. UNCHANGED vars => UNCHANGED <<rows, granted, preq>>
    BY DEF vars, db, procs
  <2> QED
    BY <2>1, <2>2, <2>3, <2>4, <2>6, <2>7, <2>8, <2>9, <2>10, <2>11, <2>12, <2>13, <2>14, <2>15
       DEF Next, CreateStep, PatchStep
<1> QED
  BY <1>1, <1>2, TypeCorrect, PTL DEF Spec
-----------------------------------------------------------------------------
(* What one PATCH at a time read is still what it would write over: its     *)
(* copy moves the stored status along an edge, or not at all.               *)
Legal(old, new) == new = old \/ <<old, new>> \in StatusEdges
CopyLegal ==
  \A p \in Patchers : preq[p].pc \in {"loaded", "presaved"} =>
    /\ rows[preq[p].id] # None
    /\ Legal(rows[preq[p].id].status, preq[p].row.status)

(* No row goes, and no row's status moves.                                  *)
StatusesKept ==
  \A i \in Ids : rows[i] # None => rows'[i] # None /\ rows'[i].status = rows[i].status
LegalStep ==
  \A i \in Ids : rows[i] # None /\ rows'[i] # None => Legal(rows[i].status, rows'[i].status)

LEMMA StillLegal ==
  ASSUME TypeOK, CopyLegal, StatusesKept,
         \A p \in Patchers : preq'[p] = preq[p] \/ preq'[p].pc \notin {"loaded", "presaved"}
  PROVE  LegalStep /\ CopyLegal'
<1>1. LegalStep
  BY DEF LegalStep, Legal, StatusesKept
<1>2. CopyLegal'
  <2> SUFFICES ASSUME NEW p \in Patchers, preq'[p].pc \in {"loaded", "presaved"}
               PROVE  /\ rows'[preq'[p].id] # None
                      /\ Legal(rows'[preq'[p].id].status, preq'[p].row.status)
    BY DEF CopyLegal
  <2>1. preq'[p] = preq[p] /\ preq[p].id \in Ids
    BY DEF TypeOK
  <2> QED
    BY <2>1 DEF CopyLegal, StatusesKept
<1> QED
  BY <1>1, <1>2

(* A new row takes an id that had none, and leaves the others as they were.  *)
LEMMA NewRowKeeps ==
  ASSUME TypeOK, RowsIssued, NEW i \in Ids \ issued, NEW row \in Row,
         rows' = [rows EXCEPT ![i] = row], issued' = issued \cup {i}
  PROVE  StatusesKept /\ RowsIssued'
  BY DEF TypeOK, RowsIssued, StatusesKept

(* One PATCH at a time, and no row deleted: then a stored status moves along *)
(* the edges the serializer validates, and never otherwise.                 *)
THEOREM StatusesFollowEdges == ASSUME SerialWrites PROVE Spec => StatusMachine
<1> USE ConstantsAssumption, NoneIsNoRow
<1>1. Init => RowsIssued /\ CopyLegal
  BY DEF Init, RowsIssued, CopyLegal, IdlePatch
<1>2. TypeOK /\ TypeOK' /\ RowsIssued /\ CopyLegal /\ [Next]_vars
        => RowsIssued' /\ CopyLegal' /\ LegalStep
  <2> SUFFICES ASSUME TypeOK, TypeOK', RowsIssued, CopyLegal, [Next]_vars
               PROVE  RowsIssued' /\ CopyLegal' /\ LegalStep
    OBVIOUS
  <2>1. ASSUME UNCHANGED <<rows, issued, preq>>
        PROVE  RowsIssued' /\ CopyLegal' /\ LegalStep
    BY <2>1 DEF RowsIssued, CopyLegal, LegalStep, Legal
  <2>2. ASSUME NEW w \in Creators, CreateValidate(w) \/ CreateLock(w) \/ CreateRecheck(w)
                                   \/ CreateOutOfIds(w)
        PROVE  UNCHANGED <<rows, issued, preq>>
    BY <2>2 DEF CreateValidate, CreateLock, CreateRecheck, CreateOutOfIds, db
  <2>3. ASSUME NEW i \in Ids, InitiateDeposit(i) PROVE UNCHANGED <<rows, issued, preq>>
    BY <2>3 DEF InitiateDeposit, procs
  <2>4. ASSUME NEW r \in Rooms, NEW on \in BOOLEAN, SetAvailable(r, on)
        PROVE  UNCHANGED <<rows, issued, preq>>
    BY <2>4 DEF SetAvailable, procs
  <2>5. ASSUME NEW i \in Ids \ issued, issued' = issued \cup {i}, preq' = preq,
               \E row \in Row : rows' = [rows EXCEPT ![i] = row]
        PROVE  RowsIssued' /\ CopyLegal' /\ LegalStep
    <3>1. StatusesKept /\ RowsIssued'
      BY <2>5, NewRowKeeps
    <3> QED
      BY <2>5, <3>1, StillLegal
  <2>6. ASSUME NEW w \in Creators, CreateInsert(w)
        PROVE  RowsIssued' /\ CopyLegal' /\ LegalStep
    <3>1. PICK i \in Ids \ issued :
            /\ issued' = issued \cup {i}
            /\ rows' = [rows EXCEPT ![i] = NewRow(creq[w].room, creq[w].span, creq[w].due, FALSE)]
      BY <2>6 DEF CreateInsert
    <3>2. NewRow(creq[w].room, creq[w].span, creq[w].due, FALSE) \in Row
      <4>1. creq[w] \in CreateRequest /\ creq[w].room \in Rooms /\ creq[w].span \in Spans
        BY <2>6 DEF CreateInsert, TypeOK
      <4> QED
        BY <4>1 DEF NewRow, Row, Status, CreateRequest
    <3> QED
      BY <2>5, <2>6, <3>1, <3>2 DEF CreateInsert
  <2>7. CASE CorporateInsert
    <3>1. PICK i \in Ids \ issued, r \in Rooms, s \in Spans :
            /\ issued' = issued \cup {i}
            /\ rows' = [rows EXCEPT ![i] = NewRow(r, s, FALSE, TRUE)]
      BY <2>7 DEF CorporateInsert
    <3>2. NewRow(r, s, FALSE, TRUE) \in Row
      BY DEF NewRow, Row, Status
    <3> QED
      BY <2>5, <2>7, <3>1, <3>2 DEF CorporateInsert, procs
  <2>8. ASSUME NEW i \in Ids PROVE ~Delete(i)
    BY DEF Delete, SerialWrites, TypeOK
  <2>9. ASSUME NEW i \in Ids, SettleDeposit(i) PROVE RowsIssued' /\ CopyLegal' /\ LegalStep
    <3>1. /\ rows[i] \in Row /\ rows[i] # None
          /\ rows' = [rows EXCEPT ![i] = [rows[i] EXCEPT !.paid = TRUE]]
          /\ issued' = issued /\ preq' = preq
      BY <2>9 DEF SettleDeposit, procs, TypeOK
    <3>2. PICK new : new = [rows[i] EXCEPT !.paid = TRUE]
      OBVIOUS
    <3>3. new \in Row /\ new.status = rows[i].status
      BY <3>1, <3>2 DEF Row
    <3>4. rows'[i] = new /\ \A j \in Ids \ {i} : rows'[j] = rows[j]
      BY <3>1, <3>2 DEF TypeOK
    <3>5. StatusesKept /\ RowsIssued'
      BY <3>1, <3>3, <3>4 DEF StatusesKept, RowsIssued
    <3> QED
      BY <3>1, <3>5, StillLegal
  <2>10. ASSUME NEW p \in Patchers, PatchLoad(p) PROVE RowsIssued' /\ CopyLegal' /\ LegalStep
    <3>1. UNCHANGED <<rows, issued>>
      BY <2>10 DEF PatchLoad, db
    <3>2. PICK i \in Ids, role \in {"owner", "tenant"}, status \in Status, signed \in BOOLEAN :
            Loads(p, i, role, status, signed)
      BY <2>10, PatchLoads
    <3>3. PICK copy : copy = [rows[i] EXCEPT !.status = status, !.signed = signed]
      OBVIOUS
    <3>4. rows[i] # None /\ rows[i] \in Row /\ copy.status = status
      BY <3>2, <3>3 DEF Loads, TypeOK, Row
    <3>5. Legal(rows[i].status, status)
      BY <3>2, <3>4 DEF Loads, MayWrite, OwnerTargets, TenantTargets, Blocking, Legal, StatusEdges, Row, Status
    <3>6. preq'[p].id = i /\ preq'[p].row = copy
      BY <3>2, <3>3 DEF Loads, TypeOK
    <3>7. CopyLegal'
      BY <3>1, <3>4, <3>5, <3>6 DEF CopyLegal, SerialWrites
    <3> QED
      BY <3>1, <3>7 DEF RowsIssued, LegalStep, Legal
  <2>11. ASSUME NEW p \in Patchers, PatchPreSave(p)
         PROVE  RowsIssued' /\ CopyLegal' /\ LegalStep
    <3>1. UNCHANGED <<rows, issued>> /\ preq[p].pc = "loaded" /\ preq[p] \in PatchRequest
      BY <2>11 DEF PatchPreSave, db, TypeOK
    <3>2. PICK prev : preq' = [preq EXCEPT ![p] = [preq[p] EXCEPT !.pc = "presaved", !.prev = prev]]
      BY <2>11 DEF PatchPreSave
    <3>3. PICK q : q = [preq[p] EXCEPT !.pc = "presaved", !.prev = prev]
      OBVIOUS
    <3>4. q.id = preq[p].id /\ q.row = preq[p].row
      BY <3>1, <3>3 DEF PatchRequest
    <3>5. preq'[p] = q
      BY <3>2, <3>3 DEF TypeOK
    <3>6. CopyLegal'
      BY <3>1, <3>4, <3>5 DEF CopyLegal, SerialWrites
    <3> QED
      BY <3>1, <3>6 DEF RowsIssued, LegalStep, Legal
  <2>12. ASSUME NEW p \in Patchers, PatchSave(p) PROVE RowsIssued' /\ CopyLegal' /\ LegalStep
    <3>1. /\ preq[p].pc = "presaved" /\ preq[p].id \in Ids /\ preq[p].row \in Row
          /\ rows' = [rows EXCEPT ![preq[p].id] = preq[p].row]
          /\ issued' = issued
      BY <2>12 DEF PatchSave, TypeOK
    <3>2. rows[preq[p].id] # None /\ Legal(rows[preq[p].id].status, preq[p].row.status)
      BY <3>1 DEF CopyLegal
    <3>3. \A j \in Ids : rows'[j] = IF j = preq[p].id THEN preq[p].row ELSE rows[j]
      BY <3>1 DEF TypeOK
    <3>4. LegalStep /\ RowsIssued'
      BY <3>1, <3>2, <3>3 DEF LegalStep, RowsIssued, Legal
    <3>5. preq'[p].pc \in {"saved", "idle"}
      BY <2>12 DEF PatchSave, IdlePatch, TypeOK, PatchRequest
    <3>6. CopyLegal'
      BY <3>5 DEF CopyLegal, SerialWrites
    <3> QED
      BY <3>4, <3>6
  <2>13. ASSUME NEW p \in Patchers, PatchCheckSchedule(p) \/ PatchGenerate(p)
         PROVE  RowsIssued' /\ CopyLegal' /\ LegalStep
    <3>1. UNCHANGED <<rows, issued>>
      BY <2>13 DEF PatchCheckSchedule, PatchGenerate, db
    <3>2. preq'[p].pc \in {"generating", "idle"}
      BY <2>13 DEF PatchCheckSchedule, PatchGenerate, IdlePatch, TypeOK, PatchRequest
    <3>3. CopyLegal'
      BY <3>2 DEF CopyLegal, SerialWrites
    <3> QED
      BY <3>1, <3>3 DEF RowsIssued, LegalStep, Legal
  <2>14. CASE Crash
    <3>1. UNCHANGED <<rows, issued>>
      BY <2>14 DEF Crash, db
    <3>2. \A p \in Patchers : preq'[p] = preq[p] \/ preq'[p].pc = "idle"
      BY <2>14 DEF Crash, IdlePatch, TypeOK
    <3> QED
      BY <3>1, <3>2, StillLegal DEF RowsIssued, StatusesKept
  <2>15. UNCHANGED vars => UNCHANGED <<rows, issued, preq>>
    BY DEF vars, db, procs
  <2> QED
    BY <2>1, <2>2, <2>3, <2>4, <2>6, <2>7, <2>8, <2>9, <2>10, <2>11, <2>12, <2>13, <2>14, <2>15
       DEF Next, CreateStep, PatchStep
<1> DEFINE OnEdges == \A i \in Ids : rows[i] # None /\ rows'[i] # None =>
                        \/ rows'[i].status = rows[i].status
                        \/ <<rows[i].status, rows'[i].status>> \in StatusEdges
<1>3. LegalStep => OnEdges
  BY DEF LegalStep, Legal
<1> HIDE DEF OnEdges
<1>4. Spec => [][OnEdges]_vars
  BY <1>1, <1>2, <1>3, TypeCorrect, PTL DEF Spec
<1> QED
  BY <1>4 DEF OnEdges, StatusMachine
-----------------------------------------------------------------------------
(* What a lock around generate_payment_schedule would give: its exists()    *)
(* and its bulk_create run for one request at a time on each booking.       *)
OneGenerates ==
  \A p, q \in Patchers :
    /\ preq[p].pc = "generating" /\ preq[q].pc = "generating"
    /\ preq[p].id = preq[q].id
    => p = q

(* Whoever is about to insert installments found none, and none came since. *)
GeneratesFirst ==
  /\ ScheduleOnce
  /\ \A p \in Patchers : preq[p].pc = "generating" => schedule[preq[p].id] = 0

(* Schedules only vanish, and nobody new is about to insert one.            *)
LEMMA NothingGenerated ==
  ASSUME TypeOK, GeneratesFirst,
         \A i \in Ids : schedule'[i] = schedule[i] \/ schedule'[i] = 0,
         \A p \in Patchers : preq'[p] = preq[p] \/ preq'[p].pc # "generating"
  PROVE  GeneratesFirst'
<1>1. ScheduleOnce'
  BY DEF GeneratesFirst, ScheduleOnce
<1>2. ASSUME NEW p \in Patchers, preq'[p].pc = "generating"
      PROVE  schedule'[preq'[p].id] = 0
  <2>1. preq'[p] = preq[p] /\ preq[p].id \in Ids /\ schedule[preq[p].id] = 0
    BY <1>2 DEF GeneratesFirst, TypeOK
  <2> QED
    BY <2>1
<1> QED
  BY <1>1, <1>2 DEF GeneratesFirst

LEMMA GeneratesFirstStep ==
  ASSUME TypeOK, OneGenerates, GeneratesFirst, [Next]_vars
  PROVE  GeneratesFirst'
<1>1. ASSUME UNCHANGED <<schedule, preq>> PROVE GeneratesFirst'
  BY <1>1 DEF GeneratesFirst, ScheduleOnce
<1>2. ASSUME NEW w \in Creators, CreateValidate(w) \/ CreateStep(w)
      PROVE  UNCHANGED <<schedule, preq>>
  BY <1>2 DEF CreateStep, CreateValidate, CreateLock, CreateRecheck, CreateInsert, CreateOutOfIds, db
<1>3. CorporateInsert => UNCHANGED <<schedule, preq>>
  BY DEF CorporateInsert, procs
<1>4. ASSUME NEW i \in Ids, InitiateDeposit(i) \/ SettleDeposit(i)
      PROVE  UNCHANGED <<schedule, preq>>
  BY <1>4 DEF InitiateDeposit, SettleDeposit, procs
<1>5. ASSUME NEW r \in Rooms, NEW on \in BOOLEAN, SetAvailable(r, on)
      PROVE  UNCHANGED <<schedule, preq>>
  BY <1>5 DEF SetAvailable, procs
<1>6. UNCHANGED vars => UNCHANGED <<schedule, preq>>
  BY DEF vars, db, procs
<1>7. ASSUME NEW i \in Ids, Delete(i) PROVE GeneratesFirst'
  BY <1>7, NothingGenerated DEF Delete, procs, TypeOK
<1>8. ASSUME NEW p \in Patchers, PatchLoad(p) \/ PatchPreSave(p) \/ PatchSave(p)
      PROVE  GeneratesFirst'
  <2>1. schedule' = schedule
    BY <1>8 DEF PatchLoad, PatchPreSave, PatchSave, db
  <2>2. \A q \in Patchers : preq'[q] = preq[q] \/ preq'[q].pc # "generating"
    <3>1. CASE PatchLoad(p)
      <4>1. PICK i \in Ids : \E copy, grants :
              preq' = [preq EXCEPT ![p] = [pc |-> "loaded", id |-> i, prev |-> None,
                                           row |-> copy, grants |-> grants]]
        BY ZenonT(40), <3>1 DEF PatchLoad
      <4>2. PICK copy, grants :
              preq' = [preq EXCEPT ![p] = [pc |-> "loaded", id |-> i, prev |-> None,
                                           row |-> copy, grants |-> grants]]
        BY <4>1
      <4> QED
        BY <4>2 DEF TypeOK
    <3>2. CASE PatchPreSave(p)
      <4>1. PICK prev : preq' = [preq EXCEPT ![p] = [preq[p] EXCEPT !.pc = "presaved", !.prev = prev]]
        BY <3>2 DEF PatchPreSave
      <4>2. PICK q : q = [preq[p] EXCEPT !.pc = "presaved", !.prev = prev]
        OBVIOUS
      <4>3. q.pc = "presaved"
        BY <4>2 DEF TypeOK, PatchRequest
      <4> QED
        BY <4>1, <4>2, <4>3 DEF TypeOK
    <3>3. CASE PatchSave(p)
      BY <3>3 DEF PatchSave, IdlePatch, TypeOK, PatchRequest
    <3> QED
      BY <1>8, <3>1, <3>2, <3>3
  <2> QED
    BY <2>1, <2>2, NothingGenerated
<1>9. ASSUME NEW p \in Patchers, PatchCheckSchedule(p) PROVE GeneratesFirst'
  <2>1. schedule' = schedule /\ preq[p] \in PatchRequest
    BY <1>9 DEF PatchCheckSchedule, db, TypeOK
  <2>2. CASE preq' = [preq EXCEPT ![p] = IdlePatch]
    BY <2>1, <2>2, NothingGenerated DEF IdlePatch, TypeOK
  <2>3. CASE schedule[preq[p].id] = 0 /\ preq' = [preq EXCEPT ![p] = [preq[p] EXCEPT !.pc = "generating"]]
    <3>1. preq'[p].id = preq[p].id /\ \A q \in Patchers \ {p} : preq'[q] = preq[q]
      BY <2>1, <2>3 DEF TypeOK, PatchRequest
    <3> QED
      BY <2>1, <2>3, <3>1 DEF GeneratesFirst, ScheduleOnce
  <2> QED
    BY <1>9, <2>2, <2>3 DEF PatchCheckSchedule
<1>10. ASSUME NEW p \in Patchers, PatchGenerate(p) PROVE GeneratesFirst'
  <2>1. /\ preq[p].pc = "generating" /\ preq[p].id \in Ids /\ schedule[preq[p].id] = 0
        /\ preq' = [preq EXCEPT ![p] = IdlePatch]
    BY <1>10 DEF PatchGenerate, GeneratesFirst, TypeOK
  <2>2. CASE schedule' = schedule
    BY <2>1, <2>2, NothingGenerated DEF IdlePatch, TypeOK
  <2>3. CASE schedule' = [schedule EXCEPT ![preq[p].id] = @ + 1]
    <3>1. schedule'[preq[p].id] = 1 /\ \A i \in Ids \ {preq[p].id} : schedule'[i] = schedule[i]
      BY <2>1, <2>3 DEF TypeOK
    <3>2. ScheduleOnce'
      BY <3>1 DEF GeneratesFirst, ScheduleOnce
    <3>3. ASSUME NEW q \in Patchers, preq'[q].pc = "generating"
          PROVE  schedule'[preq'[q].id] = 0
      <4>1. preq'[q] = preq[q] /\ q # p /\ preq[q].id \in Ids
        BY <2>1, <3>3 DEF IdlePatch, TypeOK
      <4>2. preq[q].id # preq[p].id
        BY <2>1, <3>3, <4>1 DEF OneGenerates
      <4> QED
        BY <3>1, <3>3, <4>1, <4>2 DEF GeneratesFirst
    <3> QED
      BY <3>2, <3>3 DEF GeneratesFirst
  <2> QED
    BY <1>10, <2>2, <2>3 DEF PatchGenerate
<1>11. CASE Crash
  BY <1>11, NothingGenerated DEF Crash, db, IdlePatch, TypeOK
<1> QED
  BY <1>1, <1>2, <1>3, <1>4, <1>5, <1>6, <1>7, <1>8, <1>9, <1>10, <1>11 DEF Next, PatchStep

(* generate_payment_schedule is "safe to call any number of times" exactly  *)
(* as far as its calls for one booking do not overlap: then no booking is   *)
(* billed twice, however many PATCHes, DELETEs and crashes there are.       *)
THEOREM BilledOnceAlone == Spec /\ []OneGenerates => []ScheduleOnce
<1>1. Init => GeneratesFirst
  BY DEF Init, GeneratesFirst, ScheduleOnce, IdlePatch
<1>2. TypeOK /\ OneGenerates /\ GeneratesFirst /\ [Next]_vars => GeneratesFirst'
  BY GeneratesFirstStep
<1>3. GeneratesFirst => ScheduleOnce
  BY DEF GeneratesFirst
<1> QED
  BY <1>1, <1>2, <1>3, TypeCorrect, PTL DEF Spec
=============================================================================
