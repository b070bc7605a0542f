--------------------------- MODULE PaymentsProofs ---------------------------
(* Theorems about Payments, for every set of payments, bookings and         *)
(* requests, any schedule length and any number of faults.                  *)
EXTENDS Payments, TLAPS

(* What transition_status leaves behind is typed.                           *)
LEMMA TransitionTyped ==
  ASSUME TypeOK, NEW p \in Payments, NEW new \in Statuses, Transition(p, new)
  PROVE  /\ status' \in [Payments -> Statuses]
         /\ log' \in [Payments -> Seq(Statuses \X Statuses)]
<1>1. status[p] \in Statuses /\ log[p] \in Seq(Statuses \X Statuses)
  BY DEF TypeOK
<1>2. PICK entry \in Statuses \X Statuses : entry = <<status[p], new>>
  BY <1>1
<1>3. Append(log[p], entry) \in Seq(Statuses \X Statuses)
  BY <1>1
<1> QED
  BY <1>2, <1>3 DEF Transition, TypeOK

(* What a request under way remembers is typed.                             *)
LEMMA ServingTyped ==
  ASSUME NEW p \in Payments, NEW q \in Payments \cup {None}, NEW verdict \in BOOLEAN,
         NEW pc \in {"executing", "settling", "calling"}
  PROVE  /\ Idle \in Handler /\ Idle.pc = "idle"
         /\ Serving(pc, p, q, verdict, None) \in Handler
         /\ Serving(pc, p, q, verdict, None).p = p
         /\ Serving(pc, p, q, verdict, None).q = q
         /\ Serving(pc, p, q, verdict, None).pc = pc
  BY DEF Idle, Serving, Handler

(* Marking a booking's deposit keeps its flags typed.                       *)
LEMMA FlagsTyped ==
  ASSUME TypeOK, NEW b \in Bookings
  PROVE  /\ [flags EXCEPT ![b].paid = TRUE] \in [Bookings -> Flags]
         /\ [flags EXCEPT ![b].refunded = TRUE] \in [Bookings -> Flags]
<1> DEFINE x == [flags[b] EXCEPT !.paid = TRUE]
           y == [flags[b] EXCEPT !.refunded = TRUE]
<1>1. flags \in [Bookings -> Flags] /\ flags[b] \in Flags
  BY DEF TypeOK
<1>2. x \in Flags /\ y \in Flags
  BY <1>1 DEF Flags
<1> HIDE DEF x, y
<1>3. [flags EXCEPT ![b] = x] \in [Bookings -> Flags] /\ [flags EXCEPT ![b] = y] \in [Bookings -> Flags]
  BY <1>1, <1>2
<1> QED
  BY <1>3 DEF x, y

(* A request that finishes, or goes on with the payment and the checkout it *)
(* names, stays typed.                                                      *)
HandlerTyped ==
  /\ handler \in [Handlers -> Handler]
  /\ \A h \in Handlers :
       /\ handler[h].pc # "idle" => handler[h].p \in Payments
       /\ handler[h].pc \in {"asking", "executing", "settling", "committing"} =>
            handler[h].q \in Payments
LEMMA RequestTyped ==
  ASSUME HandlerTyped, NEW h \in Handlers, NEW x \in Handler, handler' = [handler EXCEPT ![h] = x],
         /\ x.pc # "idle" => x.p \in Payments
         /\ x.pc \in {"asking", "executing", "settling", "committing"} => x.q \in Payments
  PROVE  HandlerTyped'
  BY DEF HandlerTyped
LEMMA GoingOnTyped ==
  ASSUME HandlerTyped, NEW h \in Handlers, handler[h].pc # "idle",
         \/ Finish(h)
         \/ \E verdict \in BOOLEAN, pc \in {"executing", "settling", "calling", "recording", "committing"},
               e \in (1..Entries) \cup {None} :
              /\ pc \notin {"calling", "recording"} => handler[h].q \in Payments
              /\ Become(h, Serving(pc, handler[h].p, handler[h].q, verdict, e))
  PROVE  HandlerTyped'
<1>1. CASE Finish(h)
  <2>1. Idle \in Handler /\ Idle.pc = "idle"
    BY DEF Idle, Serving, Handler
  <2> QED
    BY <1>1, <2>1, RequestTyped DEF Finish, Become
<1>2. ASSUME NEW verdict \in BOOLEAN, NEW e \in (1..Entries) \cup {None},
             NEW pc \in {"executing", "settling", "calling", "recording", "committing"},
             pc \notin {"calling", "recording"} => handler[h].q \in Payments,
             Become(h, Serving(pc, handler[h].p, handler[h].q, verdict, e))
      PROVE  HandlerTyped'
  <2> DEFINE x == Serving(pc, handler[h].p, handler[h].q, verdict, e)
  <2>1. handler[h] \in Handler /\ handler[h].p \in Payments
    BY DEF HandlerTyped
  <2>2. x \in Handler /\ x.pc = pc /\ x.p = handler[h].p /\ x.q = handler[h].q
    BY <2>1 DEF Serving, Handler
  <2> HIDE DEF x
  <2>3. handler' = [handler EXCEPT ![h] = x]
    BY <1>2 DEF Become, x
  <2> QED
    BY <1>2, <2>1, <2>2, <2>3, RequestTyped
<1> QED
  BY <1>1, <1>2

(* The types of the database and of the gateways, apart from the requests.  *)
RowsTyped ==
  /\ status \in [Payments -> Statuses]
  /\ log \in [Payments -> Seq(Statuses \X Statuses)]
  /\ schedule \in [Bookings -> [1..Entries -> Payments \cup {None}]]
  /\ settledBy \in [Payments -> Payments \cup {None}]
  /\ opening \in [Payments -> Opening]
  /\ raced \subseteq Payments
BookingsTyped ==
  /\ flags \in [Bookings -> Flags]
  /\ copies \in [Bookings -> SUBSET Flags]
  /\ decided \subseteq Bookings
  /\ stale \subseteq Bookings
WorldTyped ==
  /\ gateway \in [Payments -> {"none", "open", "paid", "executed"}]
  /\ sum \in [Payments -> Sums \cup {None}]
  /\ refunds \in [Payments -> Nat]
  /\ lock \in [Payments -> Handlers \cup {None}]
  /\ faults \in Nat
LEMMA TypeParts == TypeOK => RowsTyped /\ BookingsTyped /\ WorldTyped /\ HandlerTyped
  BY DEF TypeOK, RowsTyped, BookingsTyped, WorldTyped, HandlerTyped
LEMMA PartsTyped == RowsTyped' /\ BookingsTyped' /\ WorldTyped' /\ HandlerTyped' => TypeOK'
  BY DEF TypeOK, RowsTyped, BookingsTyped, WorldTyped, HandlerTyped

(* Every step keeps the types.                                              *)
LEMMA TypeStep == TypeOK /\ [Next]_vars => TypeOK'
<1> SUFFICES ASSUME TypeOK, [Next]_vars PROVE TypeOK'
  OBVIOUS
<1> USE ConstantsAssumption
<1>0. RowsTyped /\ BookingsTyped /\ WorldTyped /\ HandlerTyped
  BY TypeParts
<1>1. ASSUME NEW p \in Payments, OpeningStep(p) \/ Pay(p) PROVE TypeOK'
  <2> USE DEF rows, session, booking, world, OpeningAt, Fault
  <2>1. CASE Initiate(p)
    BY <2>1, <1>0, PartsTyped DEF Initiate, RowsTyped, BookingsTyped, WorldTyped, HandlerTyped, Statuses, Opening
  <2>2. CASE GatewayAnswers(p)
    BY <2>2, <1>0, PartsTyped DEF GatewayAnswers, RowsTyped, BookingsTyped, WorldTyped, HandlerTyped, Opening
  <2>3. CASE LogSession(p)
    <3>1. /\ RowsTyped /\ UNCHANGED <<status, schedule, settledBy>>
          /\ opening[p] \in {"pending", "failed"}
          /\ log' = [log EXCEPT ![p] = Append(@, <<"initiated", opening[p]>>)]
          /\ opening' = [opening EXCEPT ![p] = "done"]
          /\ raced' \subseteq raced \cup {p}
      BY <1>0, <2>3 DEF LogSession
    <3>2. log[p] \in Seq(Statuses \X Statuses) /\ <<"initiated", opening[p]>> \in Statuses \X Statuses
      BY <3>1 DEF RowsTyped, Statuses, Terminal
    <3>3. Append(log[p], <<"initiated", opening[p]>>) \in Seq(Statuses \X Statuses)
      BY <3>2
    <3>4. RowsTyped'
      BY <3>1, <3>3 DEF RowsTyped, Opening
    <3>5. BookingsTyped' /\ WorldTyped' /\ HandlerTyped'
      BY <1>0, <2>3 DEF LogSession, BookingsTyped, WorldTyped, HandlerTyped
    <3> QED
      BY <3>4, <3>5, PartsTyped
  <2>4. CASE OpeningDies(p)
    <3>1. RowsTyped'
      BY <2>4, <1>0 DEF OpeningDies, RowsTyped, Opening
    <3>2. WorldTyped'
      BY <2>4, <1>0 DEF OpeningDies, WorldTyped
    <3> QED
      BY <2>4, <1>0, <3>1, <3>2, PartsTyped DEF OpeningDies, BookingsTyped, HandlerTyped
  <2>5. ASSUME NEW new \in {"pending", "failed"}, SaveSession(p, new) PROVE TypeOK'
    <3>1. /\ status' = [status EXCEPT ![p] = new] /\ opening' = [opening EXCEPT ![p] = new]
          /\ raced' \subseteq raced \cup {p} /\ UNCHANGED <<log, schedule, settledBy>>
      BY <2>5 DEF SaveSession
    <3>2. RowsTyped'
      BY <3>1, <1>0 DEF RowsTyped, Opening, Statuses, Terminal
    <3>3. UNCHANGED <<booking, world, lock, handler, faults>>
      BY <2>5 DEF SaveSession
    <3> QED
      BY <3>2, <3>3, <1>0, PartsTyped DEF BookingsTyped, WorldTyped, HandlerTyped
  <2>6. CASE Pay(p)
    BY <2>6, <1>0, PartsTyped DEF Pay, RowsTyped, BookingsTyped, WorldTyped, HandlerTyped
  <2> QED
    BY <1>1, <2>1, <2>2, <2>3, <2>4, <2>5, <2>6 DEF OpeningStep
<1>2. ASSUME NEW b \in Bookings, BookingStep(b) PROVE TypeOK'
  <2>1. BookingsTyped'
    <3>1. CASE LoadBooking(b)
      BY <1>0, <3>1 DEF LoadBooking, BookingsTyped
    <3>2. CASE DecideDeposit(b)
      BY <1>0, <3>2, FlagsTyped DEF DecideDeposit, BookingsTyped
    <3>3. ASSUME NEW copy \in Flags, SaveBooking(b, copy) PROVE BookingsTyped'
      BY <1>0, <3>3 DEF SaveBooking, BookingsTyped
    <3> QED
      BY <1>2, <3>1, <3>2, <3>3 DEF BookingStep
  <2>2. UNCHANGED <<status, log, schedule, settledBy, session, world, lock, handler, faults>>
    BY <1>2 DEF BookingStep, LoadBooking, DecideDeposit, SaveBooking
  <2> QED
    BY <1>0, <2>1, <2>2, PartsTyped DEF RowsTyped, WorldTyped, HandlerTyped, session, world
<1>3. ASSUME NEW p \in Payments, NEW outcome \in {"failed", "cancelled"},
             BrowserReturn(p, outcome)
      PROVE  TypeOK'
  <2>1. outcome \in Statuses
    BY DEF Statuses, Terminal
  <2> QED
    BY <1>0, <1>3, <2>1, TransitionTyped, PartsTyped
       DEF BrowserReturn, RowsTyped, BookingsTyped, WorldTyped, HandlerTyped, session, booking, world
<1>4. ASSUME NEW h \in Handlers, NEW p \in Payments,
             RefundArrives(h, p) \/ \E q \in Payments : CallbackArrives(h, p, q)
      PROVE  TypeOK'
  <2>1. PICK q \in Payments \cup {None}, pc \in {"asking", "refunding"} :
          /\ pc = "asking" => q \in Payments
          /\ Become(h, Serving(pc, p, q, FALSE, None))
    BY <1>4 DEF RefundArrives, CallbackArrives
  <2> DEFINE x == Serving(pc, p, q, FALSE, None)
  <2>2. x \in Handler /\ x.pc = pc /\ x.p = p /\ x.q = q
    BY DEF Serving, Handler
  <2>3. handler' = [handler EXCEPT ![h] = x]
    BY <2>1 DEF Become
  <2> HIDE DEF x
  <2>4. HandlerTyped'
    BY <1>0, <2>1, <2>2, <2>3, RequestTyped
  <2>5. UNCHANGED <<rows, world, lock, faults>>
    BY <1>4 DEF RefundArrives, CallbackArrives
  <2> QED
    BY <1>0, <2>4, <2>5, PartsTyped DEF RowsTyped, BookingsTyped, WorldTyped, rows, session, booking, world
<1>5. ASSUME NEW h \in Handlers,
             CallbackStep(h) \/ RefundStep(h) \/ ExecuteLost(h) \/ RefundLost(h)
      PROVE  TypeOK'
  <2> DEFINE p == handler[h].p
             q == handler[h].q
  <2>0. /\ handler[h].pc # "idle" /\ p \in Payments /\ BookingOf[p] \in Bookings
        /\ handler[h] \in Handler
    BY <1>0, <1>5 DEF HandlerTyped, CallbackStep, RefundStep, Ask, Execute, ExecuteLost, SettleDrops,
         SettleFails, SettleSucceeds, Commit, RefundLock, RefundDone, RefundRefused, RefundLost, RefundRecord
  <2>1. handler[h].pc \in {"asking", "executing", "settling", "committing"} => q \in Payments
    BY <1>0 DEF HandlerTyped
  <2>2. HandlerTyped'
    <3>1. CASE Finish(h)
      BY <1>0, <2>0, <3>1, GoingOnTyped
    <3>2. CASE Ask(h) \/ Execute(h)
      BY <1>0, <2>0, <2>1, <3>2, GoingOnTyped DEF Ask, Execute, Goto, Settling
    <3>3. CASE SettleSucceeds(h)
      BY <1>0, <2>0, <2>1, <3>3, GoingOnTyped DEF SettleSucceeds
    <3>4. CASE RefundLock(h) \/ RefundDone(h)
      BY <1>0, <2>0, <3>4, GoingOnTyped DEF RefundLock, RefundDone, Goto
    <3> QED
      BY <1>5, <3>1, <3>2, <3>3, <3>4 DEF CallbackStep, RefundStep, SettleDrops, SettleFails, Commit,
           RefundRefused, RefundRecord, ExecuteLost, RefundLost
  <2>3. WorldTyped'
    <3>0. None \notin Handlers /\ WorldTyped
      BY <1>0
    <3>1. CASE Ask(h) \/ SettleDrops(h) \/ SettleFails(h)
      BY <3>0, <3>1 DEF Ask, SettleDrops, SettleFails, WorldTyped, world
    <3>2. CASE Execute(h)
      BY <3>0, <2>1, <3>2 DEF Execute, WorldTyped
    <3>3. CASE ExecuteLost(h)
      <4>1. gateway' = gateway \/ gateway' = [gateway EXCEPT ![q] = "executed"]
        BY <3>3 DEF ExecuteLost
      <4>2. UNCHANGED <<sum, refunds, lock>> /\ faults' = faults + 1
        BY <3>3 DEF ExecuteLost, Fault
      <4> QED
        BY <3>0, <4>1, <4>2 DEF WorldTyped
    <3>4. CASE SettleSucceeds(h) \/ Commit(h) \/ RefundRefused(h) \/ RefundRecord(h)
      <4>1. UNCHANGED <<world, faults>>
        BY <3>4 DEF SettleSucceeds, Commit, RefundRefused, RefundRecord
      <4>2. PICK k \in Handlers \cup {None} : lock' = [lock EXCEPT ![p] = k]
        BY <3>4 DEF SettleSucceeds, Commit, RefundRefused, RefundRecord, Release
      <4>3. lock' \in [Payments -> Handlers \cup {None}]
        BY <3>0, <4>2 DEF WorldTyped
      <4> QED
        BY <3>0, <4>1, <4>3 DEF WorldTyped, world
    <3>5. CASE RefundLock(h)
      <4>1. (\E k \in Handlers : lock' = [lock EXCEPT ![p] = k]) \/ lock' = lock
        BY <3>5 DEF RefundLock
      <4>2. UNCHANGED <<world, faults>>
        BY <3>5 DEF RefundLock
      <4> QED
        BY <3>0, <4>1, <4>2 DEF WorldTyped, world
    <3>6. CASE RefundDone(h)
      BY <3>0, <2>0, <3>6 DEF RefundDone, WorldTyped
    <3>7. CASE RefundLost(h)
      BY <3>0, <2>0, <3>7 DEF RefundLost, Release, Fault, WorldTyped
    <3> QED
      BY <1>5, <3>1, <3>2, <3>3, <3>4, <3>5, <3>6, <3>7 DEF CallbackStep, RefundStep
  <2>4. RowsTyped' /\ BookingsTyped'
    <3>1. CASE UNCHANGED rows
      BY <1>0, <3>1 DEF rows, session, booking, RowsTyped, BookingsTyped
    <3>2. CASE SettleFails(h)
      <4>1. Transition(p, "failed") /\ "failed" \in Statuses
        BY <3>2 DEF SettleFails, Statuses, Terminal
      <4> QED
        BY <1>0, <2>0, <3>2, <4>1, TransitionTyped DEF SettleFails, RowsTyped, BookingsTyped, session, booking
    <3>3. CASE Commit(h)
      <4>1. Transition(p, "success") /\ "success" \in Statuses
        BY <3>3 DEF Commit, Statuses, Terminal
      <4>2. schedule' \in [Bookings -> [1..Entries -> Payments \cup {None}]]
        <5>1. handler[h].entry \in (1..Entries) \cup {None} /\ schedule \in [Bookings -> [1..Entries -> Payments \cup {None}]]
          BY <1>0, <2>0 DEF Handler, RowsTyped
        <5> QED
          BY <2>0, <3>3, <5>1 DEF Commit
      <4>3. settledBy' \in [Payments -> Payments \cup {None}]
        BY <1>0, <2>1, <3>3 DEF Commit, RowsTyped
      <4>4. flags' \in [Bookings -> Flags]
        BY <1>0, <2>0, <3>3, FlagsTyped DEF Commit, BookingsTyped
      <4>5. UNCHANGED <<session, copies, decided, stale>>
        BY <3>3 DEF Commit
      <4> QED
        BY <1>0, <2>0, <4>1, <4>2, <4>3, <4>4, <4>5, TransitionTyped DEF RowsTyped, BookingsTyped, session
    <3>4. CASE RefundRecord(h)
      <4>1. Transition(p, "refunded") /\ "refunded" \in Statuses
        BY <3>4 DEF RefundRecord, Statuses, Terminal
      <4>2. flags' \in [Bookings -> Flags]
        BY <1>0, <2>0, <3>4, FlagsTyped DEF RefundRecord, BookingsTyped
      <4>3. UNCHANGED <<schedule, settledBy, session, copies, decided, stale>>
        BY <3>4 DEF RefundRecord
      <4> QED
        BY <1>0, <2>0, <4>1, <4>2, <4>3, TransitionTyped DEF RowsTyped, BookingsTyped, session
    <3> QED
      BY <1>5, <3>1, <3>2, <3>3, <3>4 DEF CallbackStep, RefundStep, Ask, Execute, SettleDrops, SettleSucceeds,
           RefundLock, RefundDone, RefundRefused, ExecuteLost, RefundLost
  <2> QED
    BY <2>2, <2>3, <2>4, PartsTyped
<1>6. ASSUME NEW h \in Handlers, Crash(h) PROVE TypeOK'
  <2>1. HandlerTyped'
    BY <1>0, <1>6, GoingOnTyped DEF Crash
  <2>2. WorldTyped'
    BY <1>0, <1>6 DEF Crash, Fault, WorldTyped, world
  <2> QED
    BY <1>0, <1>6, <2>1, <2>2, PartsTyped DEF Crash, RowsTyped, BookingsTyped, rows, session, booking
<1>7. CASE UNCHANGED vars
  BY <1>7, <1>0, PartsTyped DEF vars, rows, session, booking, world, RowsTyped, BookingsTyped, WorldTyped, HandlerTyped
<1> QED
  BY <1>1, <1>2, <1>3, <1>4, <1>5, <1>6, <1>7 DEF Next

(* Type correctness of the payments and of the requests that settle them.   *)
THEOREM TypeCorrect == Spec => []TypeOK
<1>1. Init => TypeOK
  BY ConstantsAssumption DEF Init, TypeOK, Idle, Serving, Handler, Statuses, Opening, Flags
<1> QED
  BY <1>1, TypeStep, PTL DEF Spec

-----------------------------------------------------------------------------
(* The inductive invariant.  A checkout the gateway knows was opened by a   *)
(* request that is done; a request serves a payment that has begun; its     *)
(* good verdict means money captured at the checkout it asked about; and    *)
(* between taking a payment's lock and letting it go, it finds the payment  *)
(* as it read it.                                                           *)
Begun(p) == status[p] # "none"
OpeningSound ==
  \A p \in Payments :
    /\ Begun(p) <=> opening[p] # "none"
    /\ gateway[p] # "none" => opening[p] = "done"
RequestSound(h) ==
  LET x == handler[h] IN
  /\ x.pc # "idle" => Begun(x.p)
  /\ x.pc = "executing" => gateway[x.q] \in {"paid", "executed"}
  /\ x.pc \in {"settling", "committing"} /\ x.verdict => Captured(x.q)
  /\ x.pc = "committing" =>
       lock[x.p] = h /\ status[x.p] \notin Terminal /\ PaidBy(x.p, x.q)
  /\ x.pc \in {"calling", "recording"} => lock[x.p] = h /\ status[x.p] = "success"
IInv == TypeOK /\ OpeningSound /\ SuccessIsPaid /\ \A h \in Handlers : RequestSound(h)

(* How a step may move a payment: it begins; its opening request saves, or  *)
(* goes on otherwise; a callback fails it or settles it by a checkout that  *)
(* was captured; a refund is recorded.                                      *)
Begins(p) ==
  /\ ~Begun(p) /\ status' = [status EXCEPT ![p] = "initiated"]
  /\ OpeningAt(p, "calling") /\ UNCHANGED <<log, settledBy, raced>>
Saves(p, new) ==
  /\ <<opening[p], new>> \in {<<"opened", "pending">>, <<"refused", "failed">>}
  /\ lock[p] = None
  /\ status' = [status EXCEPT ![p] = new] /\ OpeningAt(p, new)
  /\ raced' = IF status[p] = "initiated" THEN raced ELSE raced \cup {p}
  /\ UNCHANGED <<log, settledBy>>
Opens(p) == GatewayAnswers(p) \/ LogSession(p) \/ OpeningDies(p)
Fails(p, new) ==
  /\ Begun(p) /\ status[p] \notin Terminal /\ new \in {"failed", "cancelled"}
  /\ Transition(p, new) /\ UNCHANGED <<settledBy, opening, raced>>
Settles(p, q) ==
  /\ Begun(p) /\ status[p] \notin Terminal /\ PaidBy(p, q)
  /\ Transition(p, "success")
  /\ settledBy' = [settledBy EXCEPT ![p] = q] /\ UNCHANGED <<opening, raced>>
Refunds(p) ==
  /\ status[p] = "success"
  /\ Transition(p, "refunded") /\ UNCHANGED <<settledBy, opening, raced>>
PaymentStep ==
  \/ UNCHANGED <<status, log, settledBy, opening, raced>>
  \/ \E p \in Payments :
       \/ Begins(p) \/ Opens(p) \/ Refunds(p)
       \/ \E new \in {"pending", "failed"} : Saves(p, new)
       \/ \E new \in {"failed", "cancelled"} : Fails(p, new)
       \/ \E q \in Payments : Settles(p, q)

(* Under the invariant every step is one of these moves.                     *)
LEMMA PaymentMoves == IInv /\ [Next]_vars => PaymentStep
<1> SUFFICES ASSUME IInv, [Next]_vars PROVE PaymentStep
  OBVIOUS
<1>0. /\ TypeOK /\ OpeningSound /\ \A h \in Handlers : RequestSound(h)
      /\ \A h \in Handlers : /\ handler[h].pc # "idle" => handler[h].p \in Payments
                             /\ handler[h].pc \in {"settling", "committing"} => handler[h].q \in Payments
  BY DEF IInv, TypeOK
<1>1. ASSUME NEW p \in Payments, Initiate(p) PROVE PaymentStep
  BY <1>1 DEF Initiate, Begins, Begun, PaymentStep
<1>2. ASSUME NEW p \in Payments, GatewayAnswers(p) \/ LogSession(p) \/ OpeningDies(p)
      PROVE  PaymentStep
  BY <1>2 DEF Opens, PaymentStep
<1>3. ASSUME NEW p \in Payments, NEW new \in {"pending", "failed"}, SaveSession(p, new)
      PROVE  PaymentStep
  BY <1>3 DEF SaveSession, Saves, PaymentStep
<1>4. ASSUME NEW p \in Payments, NEW outcome \in {"failed", "cancelled"},
             BrowserReturn(p, outcome)
      PROVE  PaymentStep
  <2>1. Fails(p, outcome)
    BY <1>4 DEF BrowserReturn, Fails, Begun, session
  <2> QED
    BY <2>1 DEF PaymentStep
<1>5. ASSUME NEW h \in Handlers, SettleFails(h) PROVE PaymentStep
  <2>1. handler[h].p \in Payments /\ Begun(handler[h].p)
    BY <1>0, <1>5 DEF SettleFails, RequestSound
  <2>2. Fails(handler[h].p, "failed")
    BY <1>5, <2>1 DEF SettleFails, Fails, session
  <2> QED
    BY <2>1, <2>2 DEF PaymentStep
<1>6. ASSUME NEW h \in Handlers, Commit(h) PROVE PaymentStep
  <2>1. /\ handler[h].p \in Payments /\ handler[h].q \in Payments /\ Begun(handler[h].p)
        /\ status[handler[h].p] \notin Terminal /\ PaidBy(handler[h].p, handler[h].q)
    BY <1>0, <1>6 DEF Commit, RequestSound
  <2>2. Settles(handler[h].p, handler[h].q)
    BY <1>6, <2>1 DEF Commit, Settles, session
  <2> QED
    BY <2>1, <2>2 DEF PaymentStep
<1>7. ASSUME NEW h \in Handlers, RefundRecord(h) PROVE PaymentStep
  <2>1. handler[h].p \in Payments /\ status[handler[h].p] = "success"
    BY <1>0, <1>7 DEF RefundRecord, RequestSound
  <2>2. Refunds(handler[h].p)
    BY <1>7, <2>1 DEF RefundRecord, Refunds, session
  <2> QED
    BY <2>1, <2>2 DEF PaymentStep
<1>8. CASE UNCHANGED <<status, log, settledBy, session>>
  BY <1>8 DEF PaymentStep, session
<1>9. ASSUME \/ \E p \in Payments : Pay(p) \/ \E h \in Handlers :
                  RefundArrives(h, p) \/ \E q \in Payments : CallbackArrives(h, p, q)
             \/ \E b \in Bookings : BookingStep(b)
      PROVE  UNCHANGED <<status, log, settledBy, session>>
  BY <1>9 DEF Pay, CallbackArrives, RefundArrives, BookingStep, LoadBooking, SaveBooking,
              DecideDeposit, rows
<1>10. ASSUME NEW h \in Handlers,
              \/ Ask(h) \/ Execute(h) \/ SettleDrops(h) \/ SettleSucceeds(h)
              \/ RefundLock(h) \/ RefundDone(h) \/ RefundRefused(h)
              \/ ExecuteLost(h) \/ RefundLost(h) \/ Crash(h)
       PROVE  UNCHANGED <<status, log, settledBy, session>>
  BY <1>10 DEF Ask, Execute, SettleDrops, SettleSucceeds, RefundLock, RefundDone, RefundRefused,
               ExecuteLost, RefundLost, Crash, rows
<1>11. UNCHANGED vars => UNCHANGED <<status, log, settledBy, session>>
  BY DEF vars, rows
<1> QED
  BY <1>1, <1>2, <1>3, <1>4, <1>5, <1>6, <1>7, <1>8, <1>9, <1>10, <1>11
     DEF Next, OpeningStep, CallbackStep, RefundStep

(* A step along these moves leaves a settled payment alone, but for its     *)
(* refund and for the save of the request that opened its session; and a    *)
(* payment that has begun stays so.                                         *)
LEMMA MovesRespectSettled ==
  ASSUME TypeOK, PaymentStep, NEW p \in Payments
  PROVE  /\ Begun(p) => Begun(p)'
         /\ status[p] \in Terminal =>
              \/ status'[p] = status[p]
              \/ status[p] = "success" /\ status'[p] = "refunded"
              \/ opening[p] \in {"opened", "refused"} /\ opening'[p] = status'[p]
<1> USE DEF TypeOK, Begun, OpeningAt, Transition
<1>1. CASE UNCHANGED <<status, log, settledBy, opening, raced>>
  BY <1>1
<1>2. ASSUME NEW r \in Payments, Begins(r) \/ Opens(r) \/ Refunds(r)
      PROVE  /\ Begun(p) => Begun(p)'
             /\ status[p] \in Terminal =>
                  status'[p] = status[p] \/ (status[p] = "success" /\ status'[p] = "refunded")
  <2>1. CASE Begins(r)
    BY <2>1 DEF Begins, Terminal
  <2>2. CASE Opens(r)
    <3>1. status' = status
      BY <2>2 DEF Opens, GatewayAnswers, LogSession, OpeningDies
    <3> QED
      BY <3>1
  <2>3. CASE Refunds(r)
    BY <2>3 DEF Refunds
  <2> QED
    BY <1>2, <2>1, <2>2, <2>3
<1>3. ASSUME NEW r \in Payments, NEW new \in {"pending", "failed"}, Saves(r, new)
      PROVE  /\ Begun(p) => Begun(p)'
             /\ \/ status'[p] = status[p]
                \/ opening[p] \in {"opened", "refused"} /\ opening'[p] = status'[p]
  BY <1>3 DEF Saves
<1>4. ASSUME NEW r \in Payments, NEW new \in {"failed", "cancelled"}, Fails(r, new)
      PROVE  (Begun(p) => Begun(p)') /\ (status[p] \in Terminal => status'[p] = status[p])
  BY <1>4 DEF Fails
<1>5. ASSUME NEW r \in Payments, NEW q \in Payments, Settles(r, q)
      PROVE  (Begun(p) => Begun(p)') /\ (status[p] \in Terminal => status'[p] = status[p])
  BY <1>5 DEF Settles
<1> QED
  BY <1>1, <1>2, <1>3, <1>4, <1>5 DEF PaymentStep

(* What a step does to the opening of a payment and to its settlement.      *)
LEMMA MovesOpening ==
  ASSUME TypeOK, OpeningSound, PaymentStep, NEW p \in Payments
  PROVE  /\ Begun(p)' <=> opening'[p] # "none"
         /\ opening[p] = "done" => opening'[p] = "done"
<1> USE DEF Begun, OpeningAt, Transition
<1>0. /\ status \in [Payments -> Statuses] /\ opening \in [Payments -> Opening]
      /\ Begun(p) <=> opening[p] # "none"
  BY DEF TypeOK, OpeningSound
<1>1. CASE UNCHANGED <<status, log, settledBy, opening, raced>>
  BY <1>0, <1>1
<1>2. ASSUME NEW r \in Payments, Begins(r)
      PROVE  (Begun(p)' <=> opening'[p] # "none") /\ (opening[p] = "done" => opening'[p] = "done")
  BY <1>0, <1>2 DEF Begins
<1>3. ASSUME NEW r \in Payments, Opens(r)
      PROVE  (Begun(p)' <=> opening'[p] # "none") /\ (opening[p] = "done" => opening'[p] = "done")
  <2>1. status' = status /\ opening[r] \notin {"none", "done"}
    BY <1>3 DEF Opens, GatewayAnswers, LogSession, OpeningDies
  <2>2. PICK stage \in Opening \ {"none"} : opening' = [opening EXCEPT ![r] = stage]
    BY <1>3 DEF Opens, GatewayAnswers, LogSession, OpeningDies, Opening
  <2> QED
    BY <1>0, <2>1, <2>2
<1>4. ASSUME NEW r \in Payments, NEW new \in {"pending", "failed"}, Saves(r, new)
      PROVE  (Begun(p)' <=> opening'[p] # "none") /\ (opening[p] = "done" => opening'[p] = "done")
  BY <1>0, <1>4 DEF Saves
<1>5. ASSUME NEW r \in Payments, NEW new \in {"failed", "cancelled", "success", "refunded"},
             Begun(r), Transition(r, new), opening' = opening
      PROVE  (Begun(p)' <=> opening'[p] # "none") /\ (opening[p] = "done" => opening'[p] = "done")
  BY <1>0, <1>5
<1> QED
  BY <1>1, <1>2, <1>3, <1>4, <1>5 DEF PaymentStep, Fails, Settles, Refunds

LEMMA MovesPaid ==
  ASSUME TypeOK, SuccessIsPaid, PaymentStep,
         NEW p \in Payments, status'[p] \in {"success", "refunded"}
  PROVE  settledBy'[p] \in Payments /\ PaidBy(p, settledBy'[p])
<1> USE DEF OpeningAt, Transition
<1>0. /\ status \in [Payments -> Statuses] /\ settledBy \in [Payments -> Payments \cup {None}]
      /\ status[p] \in {"success", "refunded"} =>
           settledBy[p] \in Payments /\ PaidBy(p, settledBy[p])
  BY DEF TypeOK, SuccessIsPaid
<1>1. ASSUME settledBy' = settledBy, status[p] \in {"success", "refunded"}
      PROVE  settledBy'[p] \in Payments /\ PaidBy(p, settledBy'[p])
  BY <1>0, <1>1
<1>2. CASE UNCHANGED <<status, log, settledBy, opening, raced>>
  BY <1>1, <1>2
<1>3. ASSUME NEW r \in Payments, Begins(r) \/ \E new \in {"pending", "failed"} : Saves(r, new)
      PROVE  settledBy' = settledBy /\ status[p] \in {"success", "refunded"}
  BY <1>0, <1>3 DEF Begins, Saves
<1>4. ASSUME NEW r \in Payments, Opens(r)
      PROVE  settledBy' = settledBy /\ status[p] \in {"success", "refunded"}
  <2>1. status' = status /\ settledBy' = settledBy
    BY <1>4 DEF Opens, GatewayAnswers, LogSession, OpeningDies, booking
  <2> QED
    BY <2>1
<1>5. ASSUME NEW r \in Payments, \E new \in {"failed", "cancelled"} : Fails(r, new)
      PROVE  settledBy' = settledBy /\ status[p] \in {"success", "refunded"}
  BY <1>0, <1>5 DEF Fails
<1>6. ASSUME NEW r \in Payments, Refunds(r)
      PROVE  settledBy' = settledBy /\ status[p] \in {"success", "refunded"}
  BY <1>0, <1>6 DEF Refunds
<1>7. ASSUME NEW r \in Payments, NEW q \in Payments, Settles(r, q)
      PROVE  settledBy'[p] \in Payments /\ PaidBy(p, settledBy'[p])
  <2>1. CASE r = p
    BY <1>0, <1>7, <2>1 DEF Settles
  <2>2. CASE r # p
    BY <1>0, <1>7, <2>2 DEF Settles
  <2> QED
    BY <2>1, <2>2
<1> QED
  BY <1>1, <1>2, <1>3, <1>4, <1>5, <1>6, <1>7 DEF PaymentStep

(* How a step may move the gateway's view of a checkout: it is opened by    *)
(* the request that is done with it, then paid, then executed.              *)
GatewayStep ==
  \A q \in Payments :
    \/ gateway'[q] = gateway[q] /\ sum'[q] = sum[q]
    \/ gateway[q] = "none" /\ opening'[q] = "done" /\ sum'[q] = sum[q]
    \/ gateway[q] = "open" /\ gateway'[q] = "paid"
    \/ /\ gateway[q] \in {"paid", "executed"} /\ gateway'[q] = "executed"
       /\ sum'[q] = sum[q]
LEMMA GatewayMoves == IInv /\ [Next]_vars => GatewayStep
<1> SUFFICES ASSUME IInv, [Next]_vars PROVE GatewayStep
  OBVIOUS
<1>0. /\ OpeningSound /\ \A h \in Handlers : RequestSound(h)
      /\ gateway \in [Payments -> {"none", "open", "paid", "executed"}]
      /\ sum \in [Payments -> Sums \cup {None}] /\ opening \in [Payments -> Opening]
      /\ \A h \in Handlers : handler[h].pc = "executing" => handler[h].q \in Payments
  BY DEF IInv, TypeOK
<1>1. CASE UNCHANGED <<gateway, sum>>
  BY <1>1 DEF GatewayStep
<1>2. ASSUME NEW p \in Payments, LogSession(p) PROVE GatewayStep
  <2>1. gateway[p] = "none" /\ opening'[p] = "done"
    BY <1>0, <1>2 DEF LogSession, OpeningSound, OpeningAt
  <2>2. /\ sum' = sum
        /\ gateway' = gateway \/ gateway' = [gateway EXCEPT ![p] = "open"]
    BY <1>2 DEF LogSession
  <2> QED
    BY <1>0, <2>1, <2>2 DEF GatewayStep
<1>3. ASSUME NEW p \in Payments, Pay(p) PROVE GatewayStep
  <2>1. PICK s : sum' = [sum EXCEPT ![p] = s]
    BY <1>3 DEF Pay
  <2> QED
    BY <1>0, <1>3, <2>1 DEF Pay, GatewayStep
<1>4. ASSUME NEW h \in Handlers, Execute(h) \/ ExecuteLost(h) PROVE GatewayStep
  <2>1. handler[h].q \in Payments /\ gateway[handler[h].q] \in {"paid", "executed"}
    BY <1>0, <1>4 DEF Execute, ExecuteLost, RequestSound
  <2>2. gateway' = [gateway EXCEPT ![handler[h].q] = "executed"] \/ gateway' = gateway
    BY <1>4 DEF Execute, ExecuteLost
  <2>3. sum' = sum
    BY <1>4 DEF Execute, ExecuteLost
  <2> QED
    BY <1>0, <2>1, <2>2, <2>3 DEF GatewayStep
<1>5. ASSUME NEW p \in Payments,
             \/ Initiate(p) \/ GatewayAnswers(p) \/ OpeningDies(p)
             \/ \E new \in {"pending", "failed"} : SaveSession(p, new)
             \/ \E outcome \in {"failed", "cancelled"} : BrowserReturn(p, outcome)
             \/ \E h \in Handlers : RefundArrives(h, p) \/ \E q \in Payments : CallbackArrives(h, p, q)
      PROVE  UNCHANGED <<gateway, sum>>
  BY <1>5 DEF Initiate, GatewayAnswers, OpeningDies, SaveSession, BrowserReturn, CallbackArrives,
              RefundArrives, world
<1>6. ASSUME NEW h \in Handlers,
             \/ Ask(h) \/ SettleDrops(h) \/ SettleFails(h) \/ SettleSucceeds(h) \/ Commit(h)
             \/ RefundLock(h) \/ RefundDone(h) \/ RefundRefused(h) \/ RefundRecord(h)
             \/ RefundLost(h) \/ Crash(h)
      PROVE  UNCHANGED <<gateway, sum>>
  BY <1>6 DEF Ask, SettleDrops, SettleFails, SettleSucceeds, Commit, RefundLock, RefundDone,
              RefundRefused, RefundRecord, RefundLost, Crash, world
<1>7. ASSUME NEW b \in Bookings, BookingStep(b) PROVE UNCHANGED <<gateway, sum>>
  BY <1>7 DEF BookingStep, LoadBooking, SaveBooking, DecideDeposit, world
<1>8. UNCHANGED vars => UNCHANGED <<gateway, sum>>
  BY DEF vars, world
<1> QED
  BY <1>1, <1>2, <1>3, <1>4, <1>5, <1>6, <1>7, <1>8 DEF Next, OpeningStep, CallbackStep, RefundStep

(* Captured money stays captured, in the amount first reported.             *)
LEMMA MoneyMonotone ==
  ASSUME TypeOK, GatewayStep, NEW q \in Payments
  PROVE  /\ gateway[q] \in {"paid", "executed"} => gateway'[q] \in {"paid", "executed"}
         /\ Captured(q) => Captured(q)'
         /\ \A p \in Payments : PaidBy(p, q) => PaidBy(p, q)'
<1>1. gateway[q] \in {"paid", "executed"} => gateway'[q] \in {"paid", "executed"} /\ sum'[q] = sum[q]
  BY DEF GatewayStep, TypeOK
<1>2. Captured(q) => Captured(q)'
  BY ConstantsAssumption DEF GatewayStep, Captured, TypeOK
<1>3. Captured(q) => gateway[q] \in {"paid", "executed"}
  BY DEF Captured
<1> QED
  BY <1>1, <1>2, <1>3 DEF PaidBy, Agrees

(* The parts of the invariant that the moves alone preserve.                *)
LEMMA MovesSafe ==
  ASSUME TypeOK, OpeningSound, SuccessIsPaid, PaymentStep, GatewayStep
  PROVE  OpeningSound' /\ SuccessIsPaid'
<1>1. OpeningSound'
  <2> SUFFICES ASSUME NEW p \in Payments
               PROVE  /\ Begun(p)' <=> opening'[p] # "none"
                      /\ gateway'[p] # "none" => opening'[p] = "done"
    BY DEF OpeningSound
  <2>1. gateway'[p] # "none" => opening[p] = "done" \/ opening'[p] = "done"
    BY DEF GatewayStep, OpeningSound
  <2> QED
    BY <2>1, MovesOpening
<1>2. SuccessIsPaid'
  <2> SUFFICES ASSUME NEW p \in Payments, status'[p] \in {"success", "refunded"}
               PROVE  settledBy'[p] \in Payments /\ PaidBy(p, settledBy[p])'
    BY DEF SuccessIsPaid
  <2>1. PICK q \in Payments : q = settledBy'[p] /\ PaidBy(p, q)
    BY MovesPaid
  <2>2. PaidBy(p, q)'
    BY <2>1, MoneyMonotone
  <2> QED
    BY <2>1, <2>2 DEF PaidBy, Captured, Agrees
<1> QED
  BY <1>1, <1>2

(* What a request under way relies on survives a step that leaves its       *)
(* handler alone, keeps its locked payment and moves along the moves.       *)
LocksKept(h) ==
  \A p \in Payments : lock[p] = h /\ Begun(p) => lock'[p] = h /\ status'[p] = status[p]
LEMMA UnmovedSound ==
  ASSUME TypeOK, PaymentStep, GatewayStep, NEW h \in Handlers, RequestSound(h),
         handler'[h] = handler[h], LocksKept(h)
  PROVE  RequestSound(h)'
<1>1. CASE handler[h].pc = "idle"
  BY <1>1 DEF RequestSound
<1>2. CASE handler[h].pc # "idle"
  <2>1. PICK p \in Payments : p = handler[h].p
    BY <1>2 DEF TypeOK
  <2>2. /\ Begun(p) /\ Begun(p)'
        /\ lock[p] = h => lock'[p] = h /\ status'[p] = status[p]
    BY <1>2, <2>1, MovesRespectSettled DEF RequestSound, LocksKept
  <2>3. CASE handler[h].pc \in {"asking", "executing", "settling", "committing"}
    <3>1. PICK q \in Payments : q = handler[h].q
      BY <2>3 DEF TypeOK
    <3>2. /\ gateway[q] \in {"paid", "executed"} => gateway'[q] \in {"paid", "executed"}
          /\ Captured(q) => Captured(q)'
          /\ PaidBy(p, q) => PaidBy(p, q)'
      BY MoneyMonotone
    <3>3. /\ handler'[h].p = p /\ handler'[h].q = q
          /\ handler'[h].pc = handler[h].pc /\ handler'[h].verdict = handler[h].verdict
      BY <2>1, <3>1
    <3>4. handler[h].pc = "committing" =>
            lock'[p] = h /\ status'[p] \notin Terminal /\ PaidBy(p, q)'
      BY <2>1, <2>2, <3>1, <3>2 DEF RequestSound
    <3>5. /\ handler[h].pc = "executing" => gateway'[q] \in {"paid", "executed"}
          /\ handler[h].pc \in {"settling", "committing"} /\ handler[h].verdict => Captured(q)'
      BY <3>1, <3>2 DEF RequestSound
    <3> QED
      BY <2>2, <2>3, <3>3, <3>4, <3>5 DEF RequestSound, PaidBy, Captured, Agrees, Begun
  <2>4. CASE handler[h].pc \notin {"asking", "executing", "settling", "committing"}
    BY <2>1, <2>2, <2>4 DEF RequestSound, Begun
  <2> QED
    BY <2>3, <2>4
<1> QED
  BY <1>1, <1>2

(* The invariant is inductive.                                              *)
LEMMA IInvStep == IInv /\ [Next]_vars => IInv'
<1> SUFFICES ASSUME IInv, [Next]_vars PROVE IInv'
  OBVIOUS
<1>0. /\ TypeOK /\ OpeningSound /\ SuccessIsPaid /\ \A h \in Handlers : RequestSound(h)
      /\ \A h \in Handlers : handler[h].pc # "idle" => handler[h].p \in Payments
      /\ PaymentStep /\ GatewayStep /\ TypeOK'
      /\ handler \in [Handlers -> Handler] /\ lock \in [Payments -> Handlers \cup {None}]
      /\ status \in [Payments -> Statuses]
  BY TypeStep, PaymentMoves, GatewayMoves DEF IInv, TypeOK
<1>1. OpeningSound' /\ SuccessIsPaid'
  BY <1>0, MovesSafe
<1>2. ASSUME NEW h \in Handlers, handler'[h] = handler[h], LocksKept(h)
      PROVE  RequestSound(h)'
  BY <1>0, <1>2, UnmovedSound
<1>3. None \notin Handlers /\ None \notin Payments
  BY ConstantsAssumption
<1>4. (\A h \in Handlers : handler'[h] = handler[h] /\ LocksKept(h))
        => \A h \in Handlers : RequestSound(h)'
  BY <1>2
<1>5. ASSUME NEW h \in Handlers, RequestSound(h)',
             \A k \in Handlers \ {h} : handler'[k] = handler[k] /\ LocksKept(k)
      PROVE  \A k \in Handlers : RequestSound(k)'
  BY <1>2, <1>5
<1>6. ASSUME NEW p \in Payments,
             \/ OpeningStep(p) \/ Pay(p)
             \/ \E outcome \in {"failed", "cancelled"} : BrowserReturn(p, outcome)
      PROVE  \A h \in Handlers : RequestSound(h)'
  <2>1. handler' = handler /\ lock' = lock
    BY <1>6 DEF OpeningStep, Initiate, GatewayAnswers, SaveSession, LogSession, OpeningDies, Pay, BrowserReturn
  <2>2. \/ status' = status
        \/ /\ ~Begun(p) \/ lock[p] = None
           /\ \E new : status' = [status EXCEPT ![p] = new]
    BY <1>6 DEF OpeningStep, Initiate, GatewayAnswers, SaveSession, LogSession, OpeningDies, Pay,
                BrowserReturn, Transition, Begun, rows
  <2>3. \A h \in Handlers : LocksKept(h)
    BY <1>0, <1>3, <2>1, <2>2 DEF LocksKept
  <2> QED
    BY <1>4, <2>1, <2>3
<1>7. ASSUME NEW h \in Handlers, NEW p \in Payments,
             RefundArrives(h, p) \/ \E q \in Payments : CallbackArrives(h, p, q)
      PROVE  \A k \in Handlers : RequestSound(k)'
  <2>1. Begun(p)'
    BY <1>0, <1>7, MovesRespectSettled DEF CallbackArrives, RefundArrives, Begun
  <2>2. ASSUME NEW pc \in {"asking", "refunding"}, NEW q \in Payments \cup {None},
               handler' = [handler EXCEPT ![h] = Serving(pc, p, q, FALSE, None)]
        PROVE  RequestSound(h)' /\ \A k \in Handlers \ {h} : handler'[k] = handler[k]
    BY <1>0, <2>1, <2>2 DEF Serving, RequestSound, Begun
  <2>3. RequestSound(h)' /\ \A k \in Handlers \ {h} : handler'[k] = handler[k]
    BY <1>7, <2>2 DEF CallbackArrives, RefundArrives, Become
  <2>4. UNCHANGED <<lock, status>>
    BY <1>7 DEF CallbackArrives, RefundArrives, rows
  <2>5. \A k \in Handlers : LocksKept(k)
    BY <2>4 DEF LocksKept
  <2> QED
    BY <1>5, <2>3, <2>5
<1>8. ASSUME NEW h \in Handlers,
             CallbackStep(h) \/ ExecuteLost(h) \/ RefundStep(h) \/ RefundLost(h) \/ Crash(h)
      PROVE  \A k \in Handlers : RequestSound(k)'
  <2> USE DEF CallbackStep, RefundStep
  <2>1. PICK p \in Payments : p = handler[h].p
    BY <1>0, <1>8 DEF Ask, Execute, ExecuteLost, SettleDrops, SettleFails, SettleSucceeds, Commit,
                      RefundLock, RefundDone, RefundRefused, RefundLost, RefundRecord, Crash
  <2>2. handler[h].pc # "idle" /\ Begun(p) /\ Begun(p)'
    BY <1>0, <1>8, <2>1, MovesRespectSettled
       DEF RequestSound, Ask, Execute, ExecuteLost, SettleDrops, SettleFails, SettleSucceeds,
           Commit, RefundLock, RefundDone, RefundRefused, RefundLost, RefundRecord, Crash
  <2>3. ASSUME Finish(h) PROVE RequestSound(h)'
    BY <1>0, <2>3 DEF Finish, Become, Idle, Serving, RequestSound
  <2>4. ASSUME NEW q \in Payments, NEW verdict \in BOOLEAN, NEW pc \in {"executing", "settling"},
               handler' = [handler EXCEPT ![h] = Serving(pc, p, q, verdict, None)],
               pc = "executing" => gateway'[q] \in {"paid", "executed"},
               verdict /\ pc = "settling" => Captured(q)'
        PROVE  RequestSound(h)'
    <3>1. /\ handler'[h].pc = pc /\ handler'[h].p = p /\ handler'[h].q = q
          /\ handler'[h].verdict = verdict
      BY <1>0, <2>4 DEF Serving
    <3> QED
      BY <2>2, <2>4, <3>1 DEF RequestSound, Captured, Begun
  <2>5. ASSUME Ask(h) PROVE RequestSound(h)'
    <3>1. PICK q \in Payments : q = handler[h].q
      BY <1>0, <2>5 DEF Ask, TypeOK
    <3>2. UNCHANGED world
      BY <2>5 DEF Ask
    <3>3. CASE gateway[q] \in {"paid", "executed"} /\ Goto(h, "executing")
      BY <2>1, <2>4, <3>1, <3>2, <3>3 DEF Goto, Become, world
    <3>4. CASE Settling(h, FALSE)
      BY <2>1, <2>4, <3>1, <3>4 DEF Settling, Become
    <3>5. CASE /\ gateway[q] \in {"paid", "executed"} /\ Method[q] = "sslcommerz"
               /\ Settling(h, TRUE)
      <4>1. Captured(q)'
        BY <3>2, <3>5 DEF Captured, world
      <4> QED
        BY <2>1, <2>4, <3>1, <3>5, <4>1 DEF Settling, Become
    <3> QED
      BY <2>3, <2>5, <3>1, <3>3, <3>4, <3>5 DEF Ask
  <2>6. ASSUME Execute(h) PROVE RequestSound(h)'
    <3>1. PICK q \in Payments : q = handler[h].q
      BY <1>0, <2>6 DEF Execute, TypeOK
    <3>2. PICK answer \in {"completed", "refused"} :
            /\ gateway' = IF answer = "completed" THEN [gateway EXCEPT ![q] = "executed"]
                                                  ELSE gateway
            /\ Settling(h, answer = "completed")
      BY <2>6, <3>1, ConstantsAssumption DEF Execute
    <3>3. answer = "completed" => Captured(q)'
      BY <1>0, <3>2 DEF Captured, TypeOK
    <3> QED
      BY <2>1, <2>4, <3>1, <3>2, <3>3 DEF Settling, Become
  <2>7. ASSUME SettleSucceeds(h) PROVE RequestSound(h)'
    <3>1. PICK q \in Payments : q = handler[h].q
      BY <1>0, <2>7 DEF SettleSucceeds, TypeOK
    <3>2. /\ status[p] \notin Terminal /\ handler[h].verdict /\ Agrees(p, q)
          /\ handler[h].pc = "settling"
          /\ lock' = [lock EXCEPT ![p] = h] /\ UNCHANGED <<rows, world>>
      BY <2>1, <2>7, <3>1 DEF SettleSucceeds
    <3>3. Captured(q)
      BY <1>0, <3>1, <3>2 DEF RequestSound
    <3>4. Captured(q)' /\ PaidBy(p, q)'
      BY <3>2, <3>3 DEF PaidBy, Captured, Agrees, world
    <3>5. PICK e : handler' = [handler EXCEPT ![h] = Serving("committing", p, q, TRUE, e)]
      BY <2>1, <2>7, <3>1 DEF SettleSucceeds, Become
    <3>6. handler'[h].pc = "committing" /\ handler'[h].p = p /\ handler'[h].q = q
      BY <1>0, <3>5 DEF Serving
    <3>7. lock'[p] = h /\ status'[p] \notin Terminal
      BY <1>0, <3>2 DEF rows
    <3> QED
      BY <2>2, <3>4, <3>6, <3>7 DEF RequestSound, PaidBy, Captured, Agrees, Begun
  <2>8. ASSUME RefundLock(h) \/ RefundDone(h) PROVE RequestSound(h)'
    <3>1. CASE RefundLock(h) /\ status[p] = "success"
      <4>1. /\ handler'[h].pc = "calling" /\ handler'[h].p = p
            /\ lock'[p] = h /\ status'[p] = "success"
        BY <1>0, <2>1, <3>1 DEF RefundLock, Goto, Become, Serving, rows
      <4> QED
        BY <2>2, <4>1 DEF RequestSound, Begun
    <3>2. CASE RefundLock(h) /\ status[p] # "success"
      BY <2>1, <2>3, <3>2 DEF RefundLock
    <3>3. CASE RefundDone(h)
      <4>1. /\ lock[p] = h /\ status[p] = "success"
        BY <1>0, <2>1, <3>3 DEF RefundDone, RequestSound
      <4>2. /\ handler'[h].pc = "recording" /\ handler'[h].p = p
            /\ lock' = lock /\ status' = status
        BY <1>0, <2>1, <3>3 DEF RefundDone, Goto, Become, Serving, rows
      <4> QED
        BY <2>2, <4>1, <4>2 DEF RequestSound, Begun
    <3> QED
      BY <2>8, <3>1, <3>2, <3>3
  <2>9. RequestSound(h)'
    BY <1>8, <2>3, <2>5, <2>6, <2>7, <2>8
       DEF ExecuteLost, SettleDrops, SettleFails, Commit, RefundRefused, RefundLost, RefundRecord, Crash
  <2>10. \A k \in Handlers \ {h} : handler'[k] = handler[k]
    <3>1. PICK x : handler' = [handler EXCEPT ![h] = x]
      BY <1>8
         DEF Ask, Execute, ExecuteLost, SettleDrops, SettleFails, SettleSucceeds, Commit,
             RefundLock, RefundDone, RefundRefused, RefundLost, RefundRecord, Crash,
             Finish, Goto, Settling, Become
    <3>2. CASE handler' = handler
      BY <3>2
    <3> QED
      BY SMTT(30), <1>0, <3>1
  <2>11. ASSUME NEW k \in Handlers \ {h} PROVE LocksKept(k)
    <3>1. CASE UNCHANGED <<lock, status>>
      BY <3>1 DEF LocksKept
    <3>2. CASE SettleFails(h)
      BY <1>0, <1>3, <2>1, <3>2 DEF SettleFails, Transition, LocksKept
    <3>3. CASE SettleSucceeds(h)
      BY <1>0, <1>3, <2>1, <3>3 DEF SettleSucceeds, LocksKept, rows
    <3>4. CASE RefundLock(h)
      <4>1. status' = status /\ lock[p] = None
        BY <2>1, <3>4 DEF RefundLock, rows
      <4>2. lock' = lock \/ lock' = [lock EXCEPT ![p] = h]
        BY <2>1, <3>4 DEF RefundLock
      <4> QED
        BY <1>0, <1>3, <4>1, <4>2 DEF LocksKept
    <3>5. CASE Commit(h) \/ RefundRefused(h) \/ RefundLost(h) \/ RefundRecord(h)
      <4>1. lock[p] = h
        BY SMTT(30), <1>0, <2>1, <3>5 DEF Commit, RefundRefused, RefundLost, RefundRecord, RequestSound
      <4>2. /\ lock' = [lock EXCEPT ![p] = None]
            /\ status' = status \/ \E new : status' = [status EXCEPT ![p] = new]
        BY <2>1, <3>5
           DEF Commit, RefundRefused, RefundLost, RefundRecord, Release, Transition, rows
      <4> QED
        BY <1>0, <1>3, <4>1, <4>2 DEF LocksKept
    <3>6. CASE Crash(h)
      BY <1>0, <3>6 DEF Crash, LocksKept, rows
    <3> QED
      BY <1>8, <3>1, <3>2, <3>3, <3>4, <3>5, <3>6
         DEF Ask, Execute, ExecuteLost, SettleDrops, RefundDone, rows
  <2> QED
    BY <1>5, <2>9, <2>10, <2>11
<1>9. ASSUME UNCHANGED vars \/ \E b \in Bookings : BookingStep(b)
      PROVE  \A h \in Handlers : RequestSound(h)'
  <2>1. handler' = handler /\ \A h \in Handlers : LocksKept(h)
    BY <1>9 DEF vars, rows, BookingStep, LoadBooking, SaveBooking, DecideDeposit, LocksKept
  <2> QED
    BY <1>4, <2>1
<1> QED
  <2>1. \A h \in Handlers : RequestSound(h)'
    BY <1>6, <1>7, <1>8, <1>9 DEF Next
  <2> QED
    BY <1>0, <1>1, <2>1 DEF IInv

LEMMA Invariance == Spec => []IInv
<1>1. Init => IInv
  <2>1. Init => TypeOK
    BY ConstantsAssumption DEF Init, TypeOK, Idle, Serving, Handler, Statuses, Opening, Flags
  <2>2. Init => OpeningSound /\ SuccessIsPaid /\ \A h \in Handlers : RequestSound(h)
    BY DEF Init, OpeningSound, SuccessIsPaid, RequestSound, Idle, Serving, Begun
  <2> QED
    BY <2>1, <2>2 DEF IInv
<1> QED
  BY <1>1, IInvStep, PTL DEF Spec

(* No payment reads as successful unless the gateway captured the money of  *)
(* the checkout recorded as settling it, in the payment's amount unless its *)
(* answer had none.  That this is the payment's own checkout needs more:    *)
(* see OwnCheckout.                                                         *)
THEOREM SuccessMeansPaid == Spec => []SuccessIsPaid
<1>1. IInv => SuccessIsPaid
  BY DEF IInv
<1> QED
  BY <1>1, Invariance, PTL

(* A settled payment moves by its refund, or by the save of the request     *)
(* that opened its session, and by nothing else: no callback, retry, refund *)
(* or crash unsettles it.                                                   *)
THEOREM SettledStays == Spec => SettledIsFinal
<1> DEFINE Kept == \A p \in Payments : status[p] \in Terminal =>
                     \/ status'[p] = status[p]
                     \/ status[p] = "success" /\ status'[p] = "refunded"
                     \/ opening[p] \in {"opened", "refused"} /\ opening'[p] = status'[p]
<1>1. IInv /\ [Next]_vars => Kept
  <2> SUFFICES ASSUME IInv, [Next]_vars PROVE Kept
    OBVIOUS
  <2>1. TypeOK /\ PaymentStep
    BY PaymentMoves DEF IInv
  <2> QED
    BY <2>1, MovesRespectSettled
<1>2. IInv /\ [Next]_vars => [Kept]_vars
  BY <1>1
<1> HIDE DEF Kept
<1>3. Spec => [][Kept]_vars
  BY <1>2, Invariance, PTL DEF Spec
<1> QED
  BY <1>3 DEF Kept, SettledIsFinal

-----------------------------------------------------------------------------
(* One more audit row adds what it says and takes nothing away.             *)
LEMMA ReachedGrows ==
  ASSUME TypeOK, NEW p \in Payments, NEW e, e \in Statuses \X Statuses,
         log' = [log EXCEPT ![p] = Append(@, e)]
  PROVE  \A r \in Payments, new \in Statuses : Reached(r, new)' <=> Reached(r, new) \/ (r = p /\ e[2] = new)
<1> SUFFICES ASSUME NEW r \in Payments, NEW new \in Statuses
             PROVE  Reached(r, new)' <=> Reached(r, new) \/ (r = p /\ e[2] = new)
  OBVIOUS
<1>1. /\ log \in [Payments -> Seq(Statuses \X Statuses)] /\ log[r] \in Seq(Statuses \X Statuses)
      /\ Len(log[r]) \in Nat
  BY DEF TypeOK
<1>2. CASE r # p
  <2>1. log'[r] = log[r]
    BY <1>1, <1>2
  <2> QED
    BY <1>2, <2>1 DEF Reached
<1>3. CASE r = p
  <2>1. log'[r] = Append(log[r], e)
    BY <1>1, <1>3
  <2>2. /\ Len(log'[r]) = Len(log[r]) + 1 /\ log'[r][Len(log[r]) + 1] = e
        /\ \A k \in 1..Len(log[r]) : log'[r][k] = log[r][k]
    BY <1>1, <2>1
  <2>3. Reached(r, new) \/ e[2] = new => Reached(r, new)'
    <3>1. CASE e[2] = new
      <4>1. Len(log[r]) + 1 \in 1..Len(log'[r])
        BY <1>1, <2>2
      <4> QED
        BY <2>2, <3>1, <4>1 DEF Reached
    <3>2. CASE Reached(r, new)
      <4>1. PICK k \in 1..Len(log[r]) : log[r][k][2] = new
        BY <3>2 DEF Reached
      <4>2. k \in 1..Len(log'[r]) /\ log'[r][k][2] = new
        BY <1>1, <2>2, <4>1
      <4> QED
        BY <4>2 DEF Reached
    <3> QED
      BY <3>1, <3>2
  <2>4. ASSUME Reached(r, new)' PROVE Reached(r, new) \/ e[2] = new
    <3>1. PICK k \in 1..Len(log'[r]) : log'[r][k][2] = new
      BY <2>4 DEF Reached
    <3>2. k \in 1..Len(log[r]) \/ k = Len(log[r]) + 1
      BY <1>1, <2>2, <3>1
    <3> QED
      BY <2>2, <3>1, <3>2 DEF Reached
  <2> QED
    BY <1>3, <2>3, <2>4
<1> QED
  BY <1>2, <1>3

(* How a step may move a booking's deposit: not at all; by the settlement   *)
(* or the refund of a payment, logged with it; by a PATCH or a dispute.     *)
Credits(p, new) ==
  /\ \E old \in Statuses : log' = [log EXCEPT ![p] = Append(@, <<old, new>>)]
  /\ flags' = IF Kind[p] # "deposit" THEN flags
              ELSE IF new = "success" THEN [flags EXCEPT ![BookingOf[p]].paid = TRUE]
              ELSE [flags EXCEPT ![BookingOf[p]].refunded = TRUE]
  /\ UNCHANGED <<copies, decided, stale>>
DepositStep ==
  \/ UNCHANGED <<log, booking>>
  \/ /\ UNCHANGED booking
     /\ \E p \in Payments, old \in Statuses, new \in {"pending", "failed", "cancelled"} :
          log' = [log EXCEPT ![p] = Append(@, <<old, new>>)]
  \/ \E p \in Payments, new \in {"success", "refunded"} : Credits(p, new)
  \/ UNCHANGED log /\ \E b \in Bookings : BookingStep(b)

LEMMA DepositMoves == IInv /\ [Next]_vars => DepositStep
<1> SUFFICES ASSUME IInv, [Next]_vars PROVE DepositStep
  OBVIOUS
<1>0. /\ TypeOK /\ \A h \in Handlers : RequestSound(h)
      /\ \A h \in Handlers : handler[h].pc # "idle" => handler[h].p \in Payments
      /\ \A p \in Payments : status[p] \in Statuses
      /\ {"initiated", "pending", "failed", "cancelled"} \subseteq Statuses
  BY DEF IInv, TypeOK, Statuses, Terminal
<1>1. ASSUME NEW p \in Payments, NEW new \in {"failed", "cancelled"},
             Transition(p, new), UNCHANGED booking
      PROVE  DepositStep
  BY <1>0, <1>1 DEF Transition, DepositStep
<1>2. ASSUME NEW p \in Payments, LogSession(p) PROVE DepositStep
  <2>1. PICK new \in {"pending", "failed"} : log' = [log EXCEPT ![p] = Append(@, <<"initiated", new>>)]
    BY <1>2 DEF LogSession
  <2>2. UNCHANGED booking
    BY <1>2 DEF LogSession
  <2> QED
    BY <1>0, <2>1, <2>2 DEF DepositStep
<1>3. ASSUME NEW p \in Payments,
             \/ Initiate(p) \/ GatewayAnswers(p) \/ OpeningDies(p) \/ Pay(p)
             \/ \E new \in {"pending", "failed"} : SaveSession(p, new)
             \/ \E h \in Handlers : RefundArrives(h, p) \/ \E q \in Payments : CallbackArrives(h, p, q)
      PROVE  UNCHANGED <<log, booking>>
  BY <1>3 DEF Initiate, GatewayAnswers, OpeningDies, SaveSession, Pay, CallbackArrives, RefundArrives, rows
<1>4. ASSUME NEW p \in Payments, NEW outcome \in {"failed", "cancelled"}, BrowserReturn(p, outcome)
      PROVE  DepositStep
  BY <1>1, <1>4 DEF BrowserReturn
<1>5. ASSUME NEW h \in Handlers, SettleFails(h) PROVE DepositStep
  <2>1. handler[h].p \in Payments /\ Transition(handler[h].p, "failed") /\ UNCHANGED booking
    BY <1>0, <1>5 DEF SettleFails
  <2> QED
    BY <1>1, <2>1
<1>6. ASSUME NEW h \in Handlers, Commit(h) PROVE DepositStep
  <2>1. PICK p \in Payments : p = handler[h].p /\ status[p] # "success"
    BY <1>0, <1>6 DEF Commit, RequestSound, Terminal
  <2>2. log' = [log EXCEPT ![p] = Append(@, <<status[p], "success">>)]
    BY <1>6, <2>1 DEF Commit, Transition
  <2>3. Credits(p, "success")
    BY <1>0, <1>6, <2>1, <2>2 DEF Commit, Credits
  <2> QED
    BY <2>3 DEF DepositStep
<1>7. ASSUME NEW h \in Handlers, RefundRecord(h) PROVE DepositStep
  <2>1. PICK p \in Payments : p = handler[h].p /\ status[p] = "success"
    BY <1>0, <1>7 DEF RefundRecord, RequestSound
  <2>2. log' = [log EXCEPT ![p] = Append(@, <<status[p], "refunded">>)]
    BY <1>7, <2>1 DEF RefundRecord, Transition
  <2>3. Credits(p, "refunded")
    BY <1>0, <1>7, <2>1, <2>2 DEF RefundRecord, Credits
  <2> QED
    BY <2>3 DEF DepositStep
<1>8. ASSUME NEW h \in Handlers,
             \/ Ask(h) \/ Execute(h) \/ SettleDrops(h) \/ SettleSucceeds(h)
             \/ RefundLock(h) \/ RefundDone(h) \/ RefundRefused(h)
             \/ ExecuteLost(h) \/ RefundLost(h) \/ Crash(h)
      PROVE  UNCHANGED <<log, booking>>
  BY <1>8 DEF Ask, Execute, SettleDrops, SettleSucceeds, RefundLock, RefundDone, RefundRefused,
              ExecuteLost, RefundLost, Crash, rows
<1>9. ASSUME NEW b \in Bookings, BookingStep(b) PROVE UNCHANGED log
  BY <1>9 DEF BookingStep, LoadBooking, SaveBooking, DecideDeposit
<1>10. UNCHANGED vars => UNCHANGED <<log, booking>>
  BY DEF vars, rows
<1>11. UNCHANGED <<log, booking>> => DepositStep
  BY DEF DepositStep
<1>12. ASSUME NEW b \in Bookings, BookingStep(b) PROVE DepositStep
  BY <1>9, <1>12 DEF DepositStep
<1> QED
  BY <1>2, <1>3, <1>4, <1>5, <1>6, <1>7, <1>8, <1>10, <1>11, <1>12
     DEF Next, OpeningStep, CallbackStep, RefundStep

(* A booking's flags follow its trails until a PATCH saves an old copy, and *)
(* no copy a PATCH holds says more than the trails and the disputes do.     *)
Truthful(b, f) ==
  /\ f.paid => DepositReached(b, "success")
  /\ f.refunded => DepositReached(b, "refunded") \/ b \in decided
Fresh(b) ==
  b \notin stale =>
    /\ DepositReached(b, "success") => flags[b].paid
    /\ DepositReached(b, "refunded") \/ b \in decided => flags[b].refunded
DepositOf(b) == Truthful(b, flags[b]) /\ Fresh(b) /\ \A c \in copies[b] : Truthful(b, c)
DepositSound == \A b \in Bookings : DepositOf(b)

LEMMA DepositKept ==
  ASSUME TypeOK, DepositSound, DepositStep
  PROVE  DepositSound'
<1> SUFFICES ASSUME NEW b \in Bookings
             PROVE  DepositOf(b)'
  BY DEF DepositSound
<1> USE ConstantsAssumption
<1>0. /\ flags \in [Bookings -> Flags] /\ flags[b] \in Flags
      /\ copies \in [Bookings -> SUBSET Flags] /\ copies[b] \subseteq Flags
      /\ Truthful(b, flags[b]) /\ Fresh(b) /\ \A c \in copies[b] : Truthful(b, c)
      /\ {"success", "refunded"} \subseteq Statuses
  BY DEF TypeOK, DepositSound, DepositOf, Statuses, Terminal
<1>1. ASSUME UNCHANGED booking,
             \A new \in {"success", "refunded"} : DepositReached(b, new)' <=> DepositReached(b, new)
      PROVE  DepositOf(b)'
  BY <1>0, <1>1 DEF DepositOf, Truthful, Fresh, booking
<1>2. CASE UNCHANGED <<log, booking>>
  BY <1>1, <1>2 DEF DepositReached, Reached
<1>3. ASSUME NEW p \in Payments, NEW old \in Statuses, NEW new \in {"pending", "failed", "cancelled"},
             log' = [log EXCEPT ![p] = Append(@, <<old, new>>)], UNCHANGED booking
      PROVE  DepositOf(b)'
  <2>0. new \in Statuses
    BY DEF Statuses, Terminal
  <2>1. PICK e \in Statuses \X Statuses : e = <<old, new>>
    BY <2>0
  <2>2. \A r \in Payments, s \in {"success", "refunded"} : Reached(r, s)' <=> Reached(r, s)
    <3>1. e[2] = new /\ log' = [log EXCEPT ![p] = Append(@, e)]
      BY <1>3, <2>1
    <3> QED
      BY <1>0, <3>1, ReachedGrows
  <2> QED
    BY <1>1, <1>3, <2>2 DEF DepositReached
<1>4. ASSUME NEW p \in Payments, NEW new \in {"success", "refunded"}, Credits(p, new)
      PROVE  DepositOf(b)'
  <2>0. PICK old \in Statuses : log' = [log EXCEPT ![p] = Append(@, <<old, new>>)]
    BY <1>4 DEF Credits
  <2>1. PICK e \in Statuses \X Statuses : e = <<old, new>>
    BY <1>0
  <2>2. \A r \in Payments, s \in Statuses : Reached(r, s)' <=> Reached(r, s) \/ (r = p /\ s = new)
    <3>1. e[2] = new /\ log' = [log EXCEPT ![p] = Append(@, e)]
      BY <2>0, <2>1
    <3> QED
      BY <3>1, ReachedGrows
  <2>3. UNCHANGED <<copies, decided, stale>>
    BY <1>4 DEF Credits
  <2>4. CASE Kind[p] = "deposit" /\ BookingOf[p] = b
    <3>1. /\ DepositReached(b, new)'
          /\ \A s \in {"success", "refunded"} \ {new} : DepositReached(b, s)' <=> DepositReached(b, s)
          /\ \A s \in {"success", "refunded"} : DepositReached(b, s) => DepositReached(b, s)'
      BY <1>0, <2>2, <2>4 DEF DepositReached
    <3>2. /\ flags'[b].paid <=> flags[b].paid \/ new = "success"
          /\ flags'[b].refunded <=> flags[b].refunded \/ new = "refunded"
      <4>1. CASE new = "success"
        <5>1. flags'[b] = [flags[b] EXCEPT !.paid = TRUE]
          BY <1>0, <1>4, <2>4, <4>1 DEF Credits
        <5> QED
          BY <1>0, <4>1, <5>1 DEF Flags
      <4>2. CASE new = "refunded"
        <5>1. flags'[b] = [flags[b] EXCEPT !.refunded = TRUE]
          BY <1>0, <1>4, <2>4, <4>2 DEF Credits
        <5> QED
          BY <1>0, <4>2, <5>1 DEF Flags
      <4> QED
        BY <4>1, <4>2
    <3> QED
      BY <1>0, <2>3, <3>1, <3>2 DEF DepositOf, Truthful, Fresh
  <2>5. CASE ~(Kind[p] = "deposit" /\ BookingOf[p] = b)
    <3>1. \A s \in {"success", "refunded"} : DepositReached(b, s)' <=> DepositReached(b, s)
      BY <1>0, <2>2, <2>5 DEF DepositReached
    <3>2. flags'[b] = flags[b]
      BY <1>0, <1>4, <2>5 DEF Credits
    <3> QED
      BY <1>0, <2>3, <3>1, <3>2 DEF DepositOf, Truthful, Fresh
  <2> QED
    BY <2>4, <2>5
<1>5. ASSUME NEW d \in Bookings, BookingStep(d), UNCHANGED log
      PROVE  DepositOf(b)'
  <2>1. \A s \in {"success", "refunded"} : DepositReached(b, s)' <=> DepositReached(b, s)
    BY <1>5 DEF DepositReached, Reached
  <2>2. CASE LoadBooking(d)
    <3>1. /\ copies'[b] = copies[b] \/ copies'[b] = copies[b] \cup {flags[b]}
          /\ UNCHANGED <<flags, decided, stale>>
      BY <1>0, <2>2 DEF LoadBooking
    <3> QED
      BY <1>0, <2>1, <3>1 DEF DepositOf, Truthful, Fresh
  <2>3. ASSUME NEW copy \in Flags, SaveBooking(d, copy)
        PROVE  DepositOf(b)'
    <3>1. /\ copies' = copies /\ decided' = decided
          /\ \/ flags'[b] = flags[b] /\ (b \in stale => b \in stale')
             \/ flags'[b] \in copies[b] /\ b \in stale'
      BY <1>0, <2>3 DEF SaveBooking
    <3> QED
      BY <1>0, <2>1, <3>1 DEF DepositOf, Truthful, Fresh
  <2>4. CASE DecideDeposit(d)
    <3>1. /\ copies' = copies /\ stale' = stale /\ decided \subseteq decided'
          /\ b # d => flags'[b] = flags[b] /\ (b \in decided' <=> b \in decided)
          /\ b = d => flags'[b] = [flags[b] EXCEPT !.refunded = TRUE] /\ b \in decided'
      BY <1>0, <2>4 DEF DecideDeposit
    <3>2. b = d => flags'[b].refunded /\ flags'[b].paid = flags[b].paid
      BY <1>0, <3>1 DEF Flags
    <3> QED
      BY <1>0, <2>1, <3>1, <3>2 DEF DepositOf, Truthful, Fresh
  <2> QED
    BY <1>5, <2>2, <2>3, <2>4 DEF BookingStep
<1> QED
  BY <1>2, <1>3, <1>4, <1>5 DEF DepositStep

(* Whatever PATCHes and disputes are interleaved with the settlements, no   *)
(* booking's deposit reads as paid or returned that never was; and it reads *)
(* so whenever it was, unless a PATCH saved an old copy of the booking.     *)
THEOREM DepositFlagsFollow == Spec => []DepositFollowsPayments
<1>1. Init => DepositSound
  BY DEF Init, DepositSound, DepositOf, Truthful, Fresh, DepositReached, Reached
<1>2. IInv /\ DepositSound /\ [Next]_vars => DepositSound'
  BY DepositKept, DepositMoves DEF IInv
<1>3. DepositSound => DepositFollowsPayments
  BY DEF DepositSound, DepositOf, DepositFollowsPayments, Truthful, Fresh
<1> QED
  BY <1>1, <1>2, <1>3, Invariance, PTL DEF Spec

-----------------------------------------------------------------------------
(* A payment whose opening nothing raced keeps its settled status but for   *)
(* a refund.                                                                *)
LEMMA UnracedSettled ==
  ASSUME TypeOK, PaymentStep, NEW p \in Payments, p \notin raced'
  PROVE  /\ p \notin raced
         /\ status[p] \in Terminal =>
              status'[p] = status[p] \/ (status[p] = "success" /\ status'[p] = "refunded")
<1> USE DEF TypeOK, Terminal
<1>1. CASE UNCHANGED <<status, log, settledBy, opening, raced>>
  BY <1>1
<1>2. ASSUME NEW r \in Payments, Begins(r) PROVE p \notin raced /\ (status[p] \in Terminal => status'[p] = status[p])
  BY <1>2 DEF Begins, Begun
<1>3. ASSUME NEW r \in Payments, Opens(r) PROVE p \notin raced /\ status'[p] = status[p]
  <2>1. status' = status /\ (raced' = raced \/ raced' = raced \cup {r})
    BY <1>3 DEF Opens, GatewayAnswers, LogSession, OpeningDies, booking
  <2> QED
    BY <2>1
<1>4. ASSUME NEW r \in Payments, NEW new \in {"pending", "failed"}, Saves(r, new)
      PROVE  p \notin raced /\ (status[p] \in Terminal => status'[p] = status[p])
  BY <1>4 DEF Saves
<1>5. ASSUME NEW r \in Payments, NEW new \in {"failed", "cancelled"}, Fails(r, new)
      PROVE  p \notin raced /\ (status[p] \in Terminal => status'[p] = status[p])
  BY <1>5 DEF Fails, Transition
<1>6. ASSUME NEW r \in Payments, NEW q \in Payments, Settles(r, q)
      PROVE  p \notin raced /\ (status[p] \in Terminal => status'[p] = status[p])
  BY <1>6 DEF Settles, Transition
<1>7. ASSUME NEW r \in Payments, Refunds(r)
      PROVE  /\ p \notin raced
             /\ status'[p] = status[p] \/ (status[p] = "success" /\ status'[p] = "refunded")
  BY <1>7 DEF Refunds, Transition
<1> QED
  BY <1>1, <1>2, <1>3, <1>4, <1>5, <1>6, <1>7 DEF PaymentStep

(* The trail of one payment that nothing raced: how long it may be by its   *)
(* status, and that it is empty until the opening request has logged.       *)
Unlogged(p) == opening[p] \in {"pending", "failed"}
Fits(p) ==
  LET n == Len(log[p]) IN
  /\ status[p] = "initiated" => n = 0
  /\ status[p] = "pending" => n <= 1
  /\ status[p] \in {"failed", "cancelled", "success"} => n <= 2
TrailOf(p) ==
  /\ ~Begun(p) => log[p] = <<>>
  /\ Begun(p) /\ ~Unlogged(p) => Chained(p) /\ Fits(p)
  /\ opening[p] = "failed" => status[p] = "failed" /\ log[p] = <<>>
  /\ opening[p] = "pending" /\ status[p] = "pending" => log[p] = <<>>
TrailSound == \A p \in Payments \ raced : TrailOf(p)

Edge(old, new) ==
  \/ old \in {"initiated", "pending"} /\ new \in {"failed", "cancelled", "success"}
  \/ old = "success" /\ new = "refunded"

(* One more transition lengthens a chain by one link.                       *)
LEMMA ChainGrows ==
  ASSUME TypeOK, NEW p \in Payments, NEW new \in Statuses, Edge(status[p], new),
         Transition(p, new), Chained(p), Fits(p)
  PROVE  Chained(p)' /\ Fits(p)'
<1> DEFINE n == Len(log[p])
           link == <<status[p], new>>
<1>1. /\ log[p] \in Seq(Statuses \X Statuses) /\ n \in Nat
      /\ link \in Statuses \X Statuses /\ link[1] = status[p] /\ link[2] = new
  BY DEF TypeOK
<1>2. status[p] # new
  BY DEF Edge
<1>3. status'[p] = new /\ log'[p] = Append(log[p], link)
  BY <1>2 DEF Transition, TypeOK
<1>4. /\ Len(log'[p]) = n + 1 /\ log'[p][n + 1] = link
      /\ \A k \in 1..n : log'[p][k] = log[p][k]
  BY <1>1, <1>3
<1>5. /\ \A k \in 1..n : log[p][k][1] = IF k = 1 THEN "initiated" ELSE log[p][k - 1][2]
      /\ status[p] = IF n = 0 THEN "initiated" ELSE log[p][n][2]
  BY DEF Chained
<1>6. /\ new \in {"failed", "cancelled", "success"} => n <= 1
      /\ new = "refunded" => n <= 2
      /\ new \in {"failed", "cancelled", "success", "refunded"}
  BY <1>1 DEF Edge, Fits
<1> HIDE DEF link, n
<1>7. \A k \in 1..(n + 1) :
        log'[p][k][1] = IF k = 1 THEN "initiated" ELSE log'[p][k - 1][2]
  <2> SUFFICES ASSUME NEW k \in 1..(n + 1)
               PROVE  log'[p][k][1] = IF k = 1 THEN "initiated" ELSE log'[p][k - 1][2]
    OBVIOUS
  <2>1. CASE k = n + 1
    <3>1. n # 0 => log'[p][n] = log[p][n]
      BY <1>1, <1>4
    <3>2. log'[p][k][1] = status[p] /\ (k = 1 <=> n = 0) /\ k - 1 = n
      BY <1>1, <1>4, <2>1
    <3> QED
      BY <1>5, <3>1, <3>2
  <2>2. CASE k # n + 1
    <3>1. k \in 1..n /\ (k # 1 => k - 1 \in 1..n)
      BY <1>1, <2>2
    <3> QED
      BY <1>4, <1>5, <3>1
  <2> QED
    BY <2>1, <2>2
<1>8. Chained(p)'
  BY <1>1, <1>3, <1>4, <1>6, <1>7 DEF Chained
<1> QED
  BY <1>1, <1>3, <1>4, <1>6, <1>8 DEF Fits

(* A callback or a refund lengthens the trail of a payment by one link.     *)
LEMMA TrailGrows ==
  ASSUME TypeOK, OpeningSound, NEW p \in Payments, NEW new \in Statuses,
         Edge(status[p], new), Transition(p, new), opening' = opening, TrailOf(p)
  PROVE  TrailOf(p)'
<1>1. Begun(p) /\ Begun(p)' /\ status'[p] = new /\ new # "pending" /\ status[p] # "failed"
  BY DEF Edge, Transition, Begun, TypeOK
<1>2. CASE Unlogged(p)
  BY <1>1, <1>2 DEF TrailOf, Unlogged
<1>3. CASE ~Unlogged(p)
  <2>1. Chained(p)' /\ Fits(p)'
    BY <1>1, <1>3, ChainGrows DEF TrailOf
  <2> QED
    BY <1>1, <1>3, <2>1 DEF TrailOf, Unlogged
<1> QED
  BY <1>2, <1>3

LEMMA TrailOpens ==
  ASSUME TypeOK, OpeningSound, NEW p \in Payments, p \notin raced', TrailOf(p),
         Opens(p) \/ \E new \in {"pending", "failed"} : Saves(p, new)
  PROVE  TrailOf(p)'
<1>0. /\ log \in [Payments -> Seq(Statuses \X Statuses)] /\ log[p] \in Seq(Statuses \X Statuses)
      /\ status \in [Payments -> Statuses] /\ opening \in [Payments -> Opening]
      /\ Len(<<>>) = 0 /\ (Begun(p) <=> opening[p] # "none")
  BY DEF TypeOK, OpeningSound
<1>1. CASE GatewayAnswers(p)
  <2>1. /\ status' = status /\ log' = log /\ opening[p] = "calling" /\ opening'[p] \in {"opened", "refused"}
    BY <1>0, <1>1 DEF GatewayAnswers, OpeningAt
  <2> QED
    BY <1>0, <2>1 DEF TrailOf, Unlogged, Begun, Chained, Fits
<1>2. CASE LogSession(p)
  <2>1. PICK new \in {"pending", "failed"} : new = opening[p]
    BY <1>2 DEF LogSession
  <2>2. /\ status' = status /\ status[p] = new /\ opening'[p] = "done"
        /\ log' = [log EXCEPT ![p] = Append(@, <<"initiated", new>>)]
    BY <1>0, <1>2, <2>1 DEF LogSession, OpeningAt
  <2>3. log[p] = <<>>
    BY <2>1, <2>2 DEF TrailOf
  <2>4. PICK link \in Statuses \X Statuses : link = <<"initiated", new>>
    BY DEF Statuses, Terminal
  <2>5. log'[p] = Append(<<>>, link) /\ link[1] = "initiated" /\ link[2] = new
    BY <1>0, <2>2, <2>3, <2>4
  <2>6. Len(log'[p]) = 1 /\ log'[p][1] = link
    BY <2>5
  <2>7. Chained(p)' /\ Fits(p)'
    BY <2>1, <2>2, <2>5, <2>6 DEF Chained, Fits
  <2> QED
    BY <2>1, <2>2, <2>7 DEF TrailOf, Unlogged, Begun
<1>3. CASE OpeningDies(p)
  <2>1. /\ status' = status /\ log' = log /\ opening'[p] = "done"
        /\ opening[p] \notin {"pending", "failed", "none"}
    BY <1>0, <1>3 DEF OpeningDies, OpeningAt
  <2> QED
    BY <1>0, <2>1 DEF TrailOf, Unlogged, Begun, Chained, Fits
<1>4. ASSUME NEW new \in {"pending", "failed"}, Saves(p, new) PROVE TrailOf(p)'
  <2>1. /\ status[p] = "initiated" /\ opening[p] \in {"opened", "refused"}
        /\ status'[p] = new /\ opening'[p] = new /\ log' = log
    BY <1>0, <1>4 DEF Saves, OpeningAt
  <2>2. Len(log[p]) = 0
    BY <2>1 DEF TrailOf, Begun, Unlogged, Fits
  <2>3. log[p] = <<>>
    BY <1>0, <2>2
  <2> QED
    BY <2>1, <2>3 DEF TrailOf, Begun, Unlogged
<1> QED
  BY <1>1, <1>2, <1>3, <1>4 DEF Opens

(* The audit trail of a payment is an unbroken chain, however callbacks,    *)
(* browser returns and refunds race, unless one of them raced the request   *)
(* that opened the payment's session, which saves and logs unread.          *)
THEOREM TrailUnbroken == Spec => []AuditChain
<1>1. Init => TrailSound
  BY DEF Init, TrailSound, TrailOf, Begun
<1>2. IInv /\ TrailSound /\ [Next]_vars => TrailSound'
  <2> SUFFICES ASSUME IInv, TrailSound, [Next]_vars, NEW p \in Payments, p \notin raced'
               PROVE  TrailOf(p)'
    BY DEF TrailSound
  <2>0. /\ TypeOK /\ OpeningSound /\ PaymentStep /\ p \notin raced /\ TrailOf(p)
        /\ status[p] \in Statuses /\ {"failed", "cancelled", "success", "refunded"} \subseteq Statuses
    BY PaymentMoves, UnracedSettled DEF IInv, TrailSound, TypeOK, Statuses, Terminal
  <2>1. CASE status'[p] = status[p] /\ log'[p] = log[p] /\ opening'[p] = opening[p]
    BY <2>0, <2>1 DEF TrailOf, Begun, Unlogged, Chained, Fits
  <2>2. CASE Begins(p)
    <3>1. /\ status'[p] = "initiated" /\ log'[p] = <<>> /\ opening'[p] = "calling"
          /\ Len(<<>>) = 0
      BY <2>0, <2>2 DEF Begins, OpeningAt, TrailOf, TypeOK
    <3> QED
      BY <3>1 DEF TrailOf, Begun, Unlogged, Chained, Fits
  <2>3. ASSUME NEW new \in {"failed", "cancelled"}, Fails(p, new) PROVE TrailOf(p)'
    <3>1. Edge(status[p], new)
      BY <2>0, <2>3 DEF Fails, Begun, Edge, Statuses, Terminal
    <3> QED
      BY <2>0, <2>3, <3>1, TrailGrows DEF Fails
  <2>4. ASSUME NEW q \in Payments, Settles(p, q) PROVE TrailOf(p)'
    <3>1. Edge(status[p], "success")
      BY <2>0, <2>4 DEF Settles, Begun, Edge, Statuses, Terminal
    <3> QED
      BY <2>0, <2>4, <3>1, TrailGrows DEF Settles
  <2>5. CASE Refunds(p)
    <3>1. Edge(status[p], "refunded")
      BY <2>5 DEF Refunds, Edge
    <3> QED
      BY <2>0, <2>5, <3>1, TrailGrows DEF Refunds
  <2>6. CASE Opens(p) \/ \E new \in {"pending", "failed"} : Saves(p, new)
    BY <2>0, <2>6, TrailOpens
  <2>7. ASSUME NEW r \in Payments \ {p},
               \/ Begins(r) \/ Refunds(r) \/ \E new \in {"pending", "failed"} : Saves(r, new)
               \/ \E new \in {"failed", "cancelled"} : Fails(r, new)
               \/ \E q \in Payments : Settles(r, q)
        PROVE  status'[p] = status[p] /\ log'[p] = log[p] /\ opening'[p] = opening[p]
    BY <2>0, <2>7 DEF Begins, Refunds, Saves, Fails, Settles, Transition, OpeningAt, TypeOK
  <2>8. ASSUME NEW r \in Payments \ {p}, Opens(r)
        PROVE  status'[p] = status[p] /\ log'[p] = log[p] /\ opening'[p] = opening[p]
    <3>1. /\ status' = status
          /\ log' = log \/ \E e : log' = [log EXCEPT ![r] = e]
          /\ \E stage : opening' = [opening EXCEPT ![r] = stage]
      BY <2>8 DEF Opens, GatewayAnswers, LogSession, OpeningDies, OpeningAt
    <3> QED
      BY <2>0, <3>1 DEF TypeOK
  <2> QED
    BY <2>0, <2>1, <2>2, <2>3, <2>4, <2>5, <2>6, <2>7, <2>8 DEF PaymentStep
<1>3. TrailSound => AuditChain
  BY DEF TrailSound, TrailOf, Begun, Unlogged, AuditChain
<1> QED
  BY <1>1, <1>2, <1>3, Invariance, PTL DEF Spec

-----------------------------------------------------------------------------
(* A refund the gateway carried out is being recorded, or recorded, or was  *)
(* forgotten in a fault.                                                    *)
Recording(p) == \E h \in Handlers : handler[h].pc = "recording" /\ handler[h].p = p
RefundsAccounted ==
  \A p \in Payments \ raced :
    /\ refunds[p] <= 1 + faults
    /\ status[p] # "refunded" /\ ~Recording(p) => refunds[p] <= faults

(* A payment keeps its account when nothing is refunded and nothing that    *)
(* was being recorded is dropped without a fault.                           *)
LEMMA AccountKept ==
  ASSUME TypeOK, RefundsAccounted, NEW p \in Payments \ raced, faults' \in Nat,
         refunds'[p] = refunds[p],
         \/ faults' = faults + 1
         \/ /\ faults' = faults
            /\ (status[p] = "refunded" \/ Recording(p)) =>
                 (status'[p] = "refunded" \/ Recording(p)')
  PROVE  /\ refunds'[p] <= 1 + faults'
         /\ status'[p] # "refunded" /\ ~Recording(p)' => refunds'[p] <= faults'
<1>1. refunds[p] \in Nat /\ faults \in Nat
  BY DEF TypeOK
<1>2. refunds[p] <= 1 + faults /\ (status[p] # "refunded" /\ ~Recording(p) => refunds[p] <= faults)
  BY DEF RefundsAccounted
<1> QED
  BY <1>1, <1>2

(* Who calls the gateway holds the payment, so nobody else is recording it. *)
LEMMA CallerAlone ==
  ASSUME IInv, RefundsAccounted, NEW h \in Handlers, handler[h].pc = "calling"
  PROVE  handler[h].p \in Payments /\ (handler[h].p \notin raced => refunds[handler[h].p] <= faults)
<1>1. /\ handler[h].p \in Payments /\ RequestSound(h) /\ \A k \in Handlers : RequestSound(k)
  BY DEF IInv, TypeOK
<1>2. lock[handler[h].p] = h /\ status[handler[h].p] = "success"
  BY <1>1 DEF RequestSound
<1>3. ~Recording(handler[h].p)
  BY <1>1, <1>2 DEF Recording, RequestSound
<1> QED
  BY <1>1, <1>2, <1>3 DEF RefundsAccounted

(* Only a lost answer or a lost worker makes the gateway refund a payment   *)
(* again, unless something raced the opening of its session.                *)
THEOREM RefundsBounded == Spec => []RefundOncePerFault
<1>1. Init => RefundsAccounted
  <2> SUFFICES ASSUME Init, NEW p \in Payments
               PROVE  refunds[p] <= 1 + faults /\ refunds[p] <= faults
    BY DEF RefundsAccounted
  <2>1. refunds[p] = 0 /\ faults = 0
    BY DEF Init
  <2> QED
    BY <2>1
<1>2. IInv /\ RefundsAccounted /\ [Next]_vars => RefundsAccounted'
  <2> SUFFICES ASSUME IInv, RefundsAccounted, [Next]_vars PROVE RefundsAccounted'
    OBVIOUS
  <2>0. /\ TypeOK /\ TypeOK' /\ PaymentStep
        /\ refunds \in [Payments -> Nat] /\ faults \in Nat /\ faults' \in Nat
        /\ handler \in [Handlers -> Handler]
        /\ \A h \in Handlers : handler[h].pc # "idle" => handler[h].p \in Payments
    BY TypeStep, PaymentMoves DEF IInv, TypeOK
  <2>1. \A p \in Payments \ raced' : p \notin raced /\ (status[p] = "refunded" => status'[p] = "refunded")
    BY <2>0, UnracedSettled DEF Terminal
  <2>2. ASSUME refunds' = refunds, faults' = faults,
               \A p \in Payments : Recording(p) => status'[p] = "refunded" \/ Recording(p)'
        PROVE  RefundsAccounted'
    BY <2>0, <2>1, <2>2, AccountKept DEF RefundsAccounted
  <2>3. ASSUME refunds' = refunds, faults' = faults + 1 PROVE RefundsAccounted'
    BY <2>0, <2>1, <2>3, AccountKept DEF RefundsAccounted
  <2>4. ASSUME NEW h \in Handlers, refunds' = refunds, faults' = faults,
               \A k \in Handlers \ {h} : handler'[k] = handler[k], handler[h].pc # "recording"
        PROVE  RefundsAccounted'
    BY <2>2, <2>4 DEF Recording
  <2>5. ASSUME NEW h \in Handlers, RefundDone(h) PROVE RefundsAccounted'
    <3> DEFINE p == handler[h].p
    <3>1. /\ p \in Payments /\ (p \notin raced => refunds[p] <= faults) /\ refunds[p] \in Nat
          /\ refunds' = [refunds EXCEPT ![p] = @ + 1] /\ faults' = faults
      BY <2>0, <2>5, CallerAlone DEF RefundDone
    <3>2. /\ handler'[h].pc = "recording" /\ handler'[h].p = p
          /\ \A k \in Handlers \ {h} : handler'[k] = handler[k]
          /\ handler[h].pc = "calling"
      BY <2>0, <2>5 DEF RefundDone, Goto, Become, Serving
    <3> HIDE DEF p
    <3> SUFFICES ASSUME NEW q \in Payments \ raced'
                 PROVE  /\ refunds'[q] <= 1 + faults'
                        /\ status'[q] # "refunded" /\ ~Recording(q)' => refunds'[q] <= faults'
      BY DEF RefundsAccounted
    <3>3. CASE q = p
      <4>1. refunds'[q] = refunds[p] + 1 /\ Recording(q)'
        BY <2>0, <3>1, <3>2, <3>3 DEF Recording
      <4> QED
        BY <2>0, <2>1, <3>1, <3>3, <4>1
    <3>4. CASE q # p
      <4>1. refunds'[q] = refunds[q]
        BY <2>0, <3>1, <3>4
      <4>2. Recording(q) => Recording(q)'
        BY <3>2 DEF Recording
      <4> QED
        BY <2>0, <2>1, <3>1, <4>1, <4>2, AccountKept
    <3> QED
      BY <3>3, <3>4
  <2>6. ASSUME NEW h \in Handlers, RefundLost(h) PROVE RefundsAccounted'
    <3> DEFINE p == handler[h].p
    <3>1. /\ p \in Payments /\ (p \notin raced => refunds[p] <= faults) /\ refunds[p] \in Nat
          /\ refunds' = [refunds EXCEPT ![p] = @ + 1] /\ faults' = faults + 1
      BY <2>0, <2>6, CallerAlone DEF RefundLost, Fault
    <3> HIDE DEF p
    <3> SUFFICES ASSUME NEW q \in Payments \ raced'
                 PROVE  /\ refunds'[q] <= 1 + faults'
                        /\ status'[q] # "refunded" /\ ~Recording(q)' => refunds'[q] <= faults'
      BY DEF RefundsAccounted
    <3>2. CASE q = p
      <4>1. refunds'[q] = refunds[p] + 1
        BY <2>0, <3>1, <3>2
      <4> QED
        BY <2>0, <2>1, <3>1, <3>2, <4>1
    <3>3. CASE q # p
      <4>1. refunds'[q] = refunds[q]
        BY <2>0, <3>1, <3>3
      <4> QED
        BY <2>0, <2>1, <3>1, <4>1, AccountKept
    <3> QED
      BY <3>2, <3>3
  <2>7. ASSUME NEW h \in Handlers, RefundRecord(h) PROVE RefundsAccounted'
    <3>1. /\ handler[h].p \in Payments
          /\ refunds' = refunds /\ faults' = faults
          /\ status' = [status EXCEPT ![handler[h].p] = "refunded"]
          /\ handler' = [handler EXCEPT ![h] = Idle]
      BY <2>0, <2>7 DEF RefundRecord, Transition, Finish, Become, world
    <3>2. /\ status'[handler[h].p] = "refunded"
          /\ \A k \in Handlers \ {h} : handler'[k] = handler[k]
      BY <2>0, <3>1 DEF TypeOK
    <3> QED
      BY <2>2, <3>1, <3>2 DEF Recording
  <2>8. ASSUME NEW h \in Handlers, ExecuteLost(h) \/ Crash(h) PROVE RefundsAccounted'
    BY <2>3, <2>8 DEF ExecuteLost, Crash, Fault, world
  <2>9. ASSUME NEW h \in Handlers,
               \/ Ask(h) \/ Execute(h) \/ SettleDrops(h) \/ SettleFails(h)
               \/ SettleSucceeds(h) \/ Commit(h) \/ RefundLock(h) \/ RefundRefused(h)
               \/ \E p \in Payments : RefundArrives(h, p) \/ \E q \in Payments : CallbackArrives(h, p, q)
        PROVE  RefundsAccounted'
    <3>1. /\ refunds' = refunds /\ faults' = faults /\ handler[h].pc # "recording"
      BY <2>9 DEF Ask, Execute, SettleDrops, SettleFails, SettleSucceeds, Commit, RefundLock,
                  RefundRefused, CallbackArrives, RefundArrives, world
    <3>2. PICK x : handler' = [handler EXCEPT ![h] = x]
      BY <2>9 DEF Ask, Execute, SettleDrops, SettleFails, SettleSucceeds, Commit, RefundLock,
                  RefundRefused, CallbackArrives, RefundArrives, Finish, Goto, Settling, Become
    <3>3. \A k \in Handlers \ {h} : handler'[k] = handler[k]
      BY <2>0, <3>2
    <3> QED
      BY <2>4, <3>1, <3>3
  <2>10. ASSUME NEW p \in Payments,
                \/ Initiate(p) \/ GatewayAnswers(p) \/ LogSession(p) \/ Pay(p)
                \/ \E new \in {"pending", "failed"} : SaveSession(p, new)
                \/ \E outcome \in {"failed", "cancelled"} : BrowserReturn(p, outcome)
         PROVE  UNCHANGED <<refunds, faults, handler>>
    BY <2>10 DEF Initiate, GatewayAnswers, LogSession, SaveSession, Pay, BrowserReturn, world
  <2>11. ASSUME NEW p \in Payments, OpeningDies(p) PROVE RefundsAccounted'
    BY <2>3, <2>11 DEF OpeningDies, Fault, world
  <2>12. ASSUME UNCHANGED vars \/ \E b \in Bookings : BookingStep(b)
         PROVE  UNCHANGED <<refunds, faults, handler>>
    BY <2>12 DEF vars, world, BookingStep, LoadBooking, SaveBooking, DecideDeposit
  <2>13. UNCHANGED <<refunds, faults, handler>> => RefundsAccounted'
    BY <2>2 DEF Recording
  <2> QED
    BY <2>5, <2>6, <2>7, <2>8, <2>9, <2>10, <2>11, <2>12, <2>13
       DEF Next, OpeningStep, CallbackStep, RefundStep
<1>3. RefundsAccounted => RefundOncePerFault
  BY Zenon DEF RefundsAccounted, RefundOncePerFault
<1> QED
  BY <1>1, <1>2, <1>3, Invariance, PTL DEF Spec
-----------------------------------------------------------------------------
(* What a lock on a booking's installments would give: from reading the     *)
(* oldest open one to linking it, one rent payment of a booking at a time.  *)
Linking(h) == handler[h].pc = "committing" /\ Kind[handler[h].p] = "rent"
OneLinks ==
  \A h, k \in Handlers :
    Linking(h) /\ Linking(k) /\ BookingOf[handler[h].p] = BookingOf[handler[k].p] => h = k

(* The installment that a settlement is about to link is still open.        *)
LinksOpen ==
  \A h \in Handlers :
    Linking(h) /\ handler[h].entry # None =>
      schedule[BookingOf[handler[h].p]][handler[h].entry] = None

LinksKept ==
  \A b \in Bookings, e \in 1..Entries :
    schedule[b][e] # None => schedule'[b][e] = schedule[b][e]

LEMMA NothingLinked ==
  ASSUME LinksOpen, schedule' = schedule,
         \A h \in Handlers : handler'[h] = handler[h] \/ handler'[h].pc # "committing"
  PROVE  LinksOpen' /\ LinksKept
BY DEF LinksOpen, LinksKept, Linking

LEMMA LinksOpenStep ==
  ASSUME TypeOK, OneLinks, LinksOpen, [Next]_vars
  PROVE  LinksOpen' /\ LinksKept
<1> USE ConstantsAssumption
<1>1. ASSUME NEW p \in Payments,
             \/ OpeningStep(p) \/ Pay(p)
             \/ \E outcome \in {"failed", "cancelled"} : BrowserReturn(p, outcome)
      PROVE  UNCHANGED <<schedule, handler>>
  BY <1>1 DEF OpeningStep, Initiate, GatewayAnswers, SaveSession, LogSession, OpeningDies, Pay,
              BrowserReturn, rows
<1>2. ASSUME UNCHANGED vars \/ \E b \in Bookings : BookingStep(b)
      PROVE  UNCHANGED <<schedule, handler>>
  BY <1>2 DEF vars, rows, BookingStep, LoadBooking, SaveBooking, DecideDeposit
<1>3. ASSUME UNCHANGED <<schedule, handler>> PROVE LinksOpen' /\ LinksKept
  BY <1>3, NothingLinked
<1>4. ASSUME NEW h \in Handlers,
             \/ Ask(h) \/ Execute(h) \/ SettleDrops(h) \/ SettleFails(h)
             \/ RefundLock(h) \/ RefundDone(h) \/ RefundRefused(h) \/ RefundRecord(h)
             \/ ExecuteLost(h) \/ RefundLost(h) \/ Crash(h)
             \/ \E p \in Payments : RefundArrives(h, p) \/ \E q \in Payments : CallbackArrives(h, p, q)
      PROVE  LinksOpen' /\ LinksKept
  <2>1. schedule' = schedule
    BY <1>4 DEF Ask, Execute, SettleDrops, SettleFails, RefundLock, RefundDone, RefundRefused,
                RefundRecord, ExecuteLost, RefundLost, Crash, CallbackArrives, RefundArrives, rows
  <2>2. ASSUME NEW pc, pc # "committing", NEW p, NEW q, NEW verdict,
               Become(h, Serving(pc, p, q, verdict, None))
        PROVE  LinksOpen' /\ LinksKept
    <3>1. \A k \in Handlers : handler'[k] = handler[k] \/ handler'[k].pc # "committing"
      BY <2>2 DEF Become, Serving, TypeOK
    <3> QED
      BY <2>1, <3>1, NothingLinked
  <2>3. Finish(h) => LinksOpen' /\ LinksKept
    BY <2>2 DEF Finish, Idle
  <2>4. \A pc \in {"executing", "calling", "recording"} : Goto(h, pc) => LinksOpen' /\ LinksKept
    BY <2>2 DEF Goto
  <2>5. \A verdict : Settling(h, verdict) => LinksOpen' /\ LinksKept
    BY <2>2 DEF Settling
  <2>6. ASSUME NEW p \in Payments, RefundArrives(h, p) \/ \E q \in Payments : CallbackArrives(h, p, q)
        PROVE  LinksOpen' /\ LinksKept
    BY <2>2, <2>6 DEF RefundArrives, CallbackArrives
  <2>7. CASE Ask(h) \/ Execute(h) \/ ExecuteLost(h) \/ SettleDrops(h) \/ SettleFails(h)
    BY <2>3, <2>4, <2>5, <2>7 DEF Ask, Execute, ExecuteLost, SettleDrops, SettleFails
  <2>8. CASE RefundLock(h) \/ RefundDone(h) \/ RefundRefused(h) \/ RefundRecord(h) \/ RefundLost(h) \/ Crash(h)
    BY <2>3, <2>4, <2>8 DEF RefundLock, RefundDone, RefundRefused, RefundRecord, RefundLost, Crash
  <2> QED
    BY <1>4, <2>6, <2>7, <2>8
<1>5. ASSUME NEW h \in Handlers, SettleSucceeds(h) PROVE LinksOpen' /\ LinksKept
  <2>1. schedule' = schedule /\ handler[h].p \in Payments
    BY <1>5 DEF SettleSucceeds, rows, TypeOK
  <2>2. PICK e \in (1..Entries) \cup {None} :
          /\ IsOldest(e, Unlinked(BookingOf[handler[h].p]))
          /\ handler' = [handler EXCEPT ![h] = Serving("committing", handler[h].p, handler[h].q, TRUE, e)]
    BY <1>5 DEF SettleSucceeds, Become
  <2>3. /\ handler'[h].p = handler[h].p /\ handler'[h].entry = e
        /\ \A k \in Handlers \ {h} : handler'[k] = handler[k]
    BY <2>2 DEF Serving, TypeOK
  <2>4. e # None => schedule[BookingOf[handler[h].p]][e] = None
    BY <2>2 DEF IsOldest, Unlinked
  <2> QED
    BY <2>1, <2>3, <2>4 DEF LinksOpen, LinksKept, Linking
<1>6. ASSUME NEW h \in Handlers, Commit(h) PROVE LinksOpen' /\ LinksKept
  <2> DEFINE p == handler[h].p
             b == BookingOf[p]
             e == handler[h].entry
  <2>1. /\ handler[h].pc = "committing" /\ p \in Payments /\ b \in Bookings
        /\ e \in (1..Entries) \cup {None}
    BY <1>6 DEF Commit, TypeOK, Handler
  <2>2. handler' = [handler EXCEPT ![h] = Serving("idle", None, None, FALSE, None)]
    BY <1>6 DEF Commit, Finish, Become, Idle
  <2>3. \A k \in Handlers : handler'[k] = handler[k] \/ handler'[k].pc # "committing"
    BY <2>2 DEF Serving, TypeOK
  <2>4. CASE schedule' = schedule
    BY <2>3, <2>4, NothingLinked
  <2>5. CASE Kind[p] = "rent" /\ e # None /\ schedule' = [schedule EXCEPT ![b][e] = p]
    <3>1. Linking(h) /\ schedule[b][e] = None
      BY <2>1, <2>5 DEF LinksOpen, Linking
    <3>2. \A c \in Bookings, f \in 1..Entries :
            <<c, f>> # <<b, e>> => schedule'[c][f] = schedule[c][f]
      BY <2>1, <2>5 DEF TypeOK
    <3>3. LinksKept
      BY <3>1, <3>2 DEF LinksKept
    <3>4. ASSUME NEW k \in Handlers, Linking(k)', handler'[k].entry # None
          PROVE  schedule'[BookingOf[handler'[k].p]][handler'[k].entry] = None
      <4>1. handler'[k] = handler[k] /\ k # h /\ Linking(k)
        BY <2>2, <2>3, <3>4 DEF Linking, Serving, TypeOK
      <4>2. BookingOf[handler[k].p] # b
        BY <3>1, <4>1 DEF OneLinks
      <4>3. /\ handler[k].p \in Payments /\ BookingOf[handler[k].p] \in Bookings
            /\ handler[k].entry \in 1..Entries
        BY <3>4, <4>1 DEF TypeOK, Handler, Linking
      <4>4. schedule[BookingOf[handler[k].p]][handler[k].entry] = None
        BY <3>4, <4>1 DEF LinksOpen
      <4> QED
        BY <3>2, <4>1, <4>2, <4>3, <4>4
    <3> QED
      BY <3>3, <3>4 DEF LinksOpen
  <2> QED
    BY <1>6, <2>4, <2>5 DEF Commit
<1> QED
  BY <1>1, <1>2, <1>3, <1>4, <1>5, <1>6 DEF Next, CallbackStep, RefundStep

(* An installment is paid by one payment and stays linked to it, as long as *)
(* no two rent payments of its booking are settled at the same time.        *)
THEOREM LinkedOnceAlone == Spec /\ []OneLinks => InstallmentLinkedOnce
<1>1. Init => LinksOpen
  BY DEF Init, LinksOpen, Linking, Idle, Serving
<1>2. TypeOK /\ OneLinks /\ LinksOpen /\ [Next]_vars => LinksOpen' /\ LinksKept
  BY LinksOpenStep
<1>3. Spec /\ []OneLinks => [][LinksKept]_vars
  BY <1>1, <1>2, TypeCorrect, PTL DEF Spec
<1> QED
  BY <1>3 DEF LinksKept, InstallmentLinkedOnce

(* With a gateway whose answers always arrive, workers that do not die and  *)
(* no callback before its session is open, no payment is refunded twice     *)
(* however many requests ask for it.                                        *)
THEOREM RefundedOnceUndisturbed ==
  ASSUME MaxFaults = 0 PROVE Spec /\ [](raced = {}) => []RefundWithinPaid
<1> DEFINE Undisturbed == faults = 0
           Unraced == raced = {}
<1>1. Init => Undisturbed
  BY DEF Init
<1>2. Undisturbed /\ [Next]_vars => Undisturbed'
  <2> SUFFICES ASSUME faults = 0, [Next]_vars PROVE faults' = 0
    OBVIOUS
  <2>1. ~Fault
    BY DEF Fault
  <2>2. ASSUME NEW p \in Payments,
               \/ OpeningStep(p) \/ Pay(p)
               \/ \E outcome \in {"failed", "cancelled"} : BrowserReturn(p, outcome)
        PROVE  faults' = faults
    BY SMTT(30), <2>1, <2>2 DEF OpeningStep, Initiate, GatewayAnswers, SaveSession, LogSession, OpeningDies,
           Pay, BrowserReturn
  <2>3. ASSUME NEW h \in Handlers,
               \/ CallbackStep(h) \/ RefundStep(h)
               \/ \E p \in Payments : RefundArrives(h, p) \/ \E q \in Payments : CallbackArrives(h, p, q)
        PROVE  faults' = faults
    BY <2>3 DEF CallbackStep, RefundStep, Ask, Execute, SettleDrops, SettleFails, SettleSucceeds, Commit,
                RefundLock, RefundDone, RefundRefused, RefundRecord, CallbackArrives, RefundArrives
  <2>4. ASSUME NEW h \in Handlers PROVE ~ExecuteLost(h) /\ ~RefundLost(h) /\ ~Crash(h)
    BY <2>1 DEF ExecuteLost, RefundLost, Crash
  <2>5. ASSUME UNCHANGED vars \/ \E b \in Bookings : BookingStep(b) PROVE faults' = faults
    BY <2>5 DEF vars, BookingStep, LoadBooking, SaveBooking, DecideDeposit
  <2> QED
    BY <2>2, <2>3, <2>4, <2>5 DEF Next
<1>3. RefundOncePerFault /\ Undisturbed /\ Unraced => RefundWithinPaid
  <2> SUFFICES ASSUME \A p \in Payments : refunds[p] <= 1 + faults, faults = 0, NEW p \in Payments
               PROVE  refunds[p] <= 1
    BY DEF RefundOncePerFault, RefundWithinPaid
  <2>1. 1 + faults = 1
    BY Z3
  <2> QED
    BY <2>1
<1> HIDE DEF Undisturbed, Unraced
<1>4. Spec /\ []Unraced => []RefundWithinPaid
  BY <1>1, <1>2, <1>3, RefundsBounded, PTL DEF Spec
<1> QED
  BY <1>4 DEF Unraced

-----------------------------------------------------------------------------
(* What comparing the gateway's answer with the payment would give: every   *)
(* callback speaks of the checkout that was opened for the payment.         *)
Matched ==
  \A h \in Handlers :
    handler[h].pc \in {"asking", "executing", "settling", "committing"} => handler[h].q = handler[h].p

(* If every callback names the checkout of the payment it names, a payment  *)
(* is settled by its own checkout: with SuccessMeansPaid, only if the       *)
(* gateway took the money for this payment.                                 *)
THEOREM OwnCheckout == Spec /\ []Matched => []SettledByOwnCheckout
<1>1. Init => SettledByOwnCheckout
  BY DEF Init, SettledByOwnCheckout
<1>2. TypeOK /\ Matched /\ SettledByOwnCheckout /\ [Next]_vars => SettledByOwnCheckout'
  <2> SUFFICES ASSUME TypeOK, Matched, SettledByOwnCheckout, [Next]_vars
               PROVE  SettledByOwnCheckout'
    OBVIOUS
  <2>1. CASE settledBy' = settledBy
    BY <2>1 DEF SettledByOwnCheckout
  <2>2. ASSUME NEW h \in Handlers, Commit(h) PROVE SettledByOwnCheckout'
    <3>1. /\ handler[h].p \in Payments /\ handler[h].q = handler[h].p
          /\ settledBy' = [settledBy EXCEPT ![handler[h].p] = handler[h].q]
      BY <2>2 DEF Commit, TypeOK, Matched
    <3> QED
      BY <3>1 DEF SettledByOwnCheckout, TypeOK
  <2>3. ASSUME NEW p \in Payments,
               \/ OpeningStep(p) \/ Pay(p)
               \/ \E outcome \in {"failed", "cancelled"} : BrowserReturn(p, outcome)
        PROVE  settledBy' = settledBy
    BY <2>3 DEF OpeningStep, Initiate, GatewayAnswers, SaveSession, LogSession, OpeningDies, Pay,
                BrowserReturn, rows
  <2>4. ASSUME NEW h \in Handlers,
               \/ Ask(h) \/ Execute(h) \/ SettleDrops(h) \/ SettleFails(h) \/ SettleSucceeds(h)
               \/ RefundStep(h) \/ ExecuteLost(h) \/ RefundLost(h) \/ Crash(h)
               \/ \E p \in Payments : RefundArrives(h, p) \/ \E q \in Payments : CallbackArrives(h, p, q)
        PROVE  settledBy' = settledBy
    BY <2>4 DEF Ask, Execute, SettleDrops, SettleFails, SettleSucceeds, RefundStep, RefundLock, RefundDone,
                RefundRefused, RefundRecord, ExecuteLost, RefundLost, Crash, CallbackArrives,
                RefundArrives, rows
  <2>5. ASSUME UNCHANGED vars \/ \E b \in Bookings : BookingStep(b) PROVE settledBy' = settledBy
    BY <2>5 DEF vars, rows, BookingStep, LoadBooking, SaveBooking, DecideDeposit
  <2> QED
    BY <2>1, <2>2, <2>3, <2>4, <2>5 DEF Next, CallbackStep
<1> QED
  BY <1>1, <1>2, TypeCorrect, PTL DEF Spec
=============================================================================
