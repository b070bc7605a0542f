# A TLA+ verification project for Rentora

Rentora is a room-rental platform: a Django REST backend (`backend/`), Celery
workers, PostgreSQL, Redis, and a React client.  The backend is a large set of
apps around a few stateful protocols: a booking and its deposit, a payment and
its gateway, an AI agent's action and the human who must agree to it.  This
directory models those protocols, checks them with TLC on small instances and
proves the most important results with TLAPS for every instance.

Paths below are relative to the repository; `src/` in `PROJECT.json` is its root.

## 1. How the program runs

The concurrency of the code is the concurrency of its database:

* Every HTTP request and every Celery task is a process of its own.  There is no
  `ATOMIC_REQUESTS`, so outside an explicit `transaction.atomic()` **each database
  statement commits by itself** and others may run between any two.
* PostgreSQL runs at READ COMMITTED: inside a transaction each statement sees what
  was committed before that statement.  Mutual exclusion exists only where the code
  says `select_for_update()`; such a lock also delays an UPDATE or DELETE of the row
  and the insertion of a row that references it, but not a plain read.
* `instance.save()` without `update_fields` writes **all** columns of the copy the
  request read earlier.  A row that is gone by then is inserted again.
* A worker may die at any point: the open transaction rolls back, what was committed
  before stays, and nobody resumes the request.  Celery redelivers a task that was
  not acknowledged (`CELERY_TASK_ACKS_LATE`, `CELERY_TASK_REJECT_ON_WORKER_LOST`,
  config/settings/base.py:1057-1060).
* Payment gateways call back through the payer's browser: any number of times, late,
  in any order.  A callback names a payment (`tran_id`) and, separately, a checkout
  (`val_id`, `paymentID`); the gateway is asked about the latter, and its answer is
  compared with the payment in nothing but the amount.

One step of the models is therefore one statement, or the part of a transaction
between two statements at which another process can be observed or can be waited for.

## 2. Inventory

| Component (app) | State it keeps | Operations | What is hard | What makes it correct |
|---|---|---|---|---|
| Booking lifecycle (`bookings`) | bookings rows; signals' stash of the previous status | create, PATCH status / signature, DELETE; signals generate schedules and notifications | unlocked read-validate-save; a room lock on create only; re-insertion of deleted rows; crash between approval and schedule | no two blocking bookings of a room overlap; statuses follow their edges; only the owner approves; one schedule per booking |
| Payments (`payments`) | payment rows, transition log, deposit flags of bookings | initiate, gateway callbacks, bKash execute/query, refund | repeated / late / racing callbacks that name any checkout, a session opened in three commits around the gateway's call, an external call inside a row lock, lost answers, three writers of the deposit flags | success means money taken; settled stays; log is a chain; flags say what happened; one refund |
| Payment schedule (`payments/services/schedule.py`) | installments and the payment of each | generate, link | check-then-create; the oldest open installment is read unlocked | generated once; linked once |
| Listing promotions (`payments`, `rooms`) | tier of a room and its end | buy, settle, expire, edit the listing | two pending payments for one tier; the expiry task mails before it writes, and a mail that cannot be built stops it | what is over is taken back |
| Brokers, marketplace, partner services | referrals, add-on orders, quotes | approve, confirm, issue, cancel | commission and ledger entry are two commits behind an approval | ledger and commissions agree |
| Subscriptions (`subscriptions`) | plan, period, the payment that activates it | checkout, activate, renew, cancel, expire | activation finds its row by a payment a renewal overwrites; task saves a stale copy | time is granted for money that was taken, once a payment; what is over expires |
| Commissions, ledger, payouts (`monetization`) | rates, commissions, ledger entries, payouts | accrue, request, approve, reject, pay | balance and status are read unlocked; rates change meanwhile | a commission is created once and keeps its amount; entries add up |
| Agent proposals (`agents/services.py`) | proposals, tool calls, the writes of the tools | create, approve, reject, apply, owner's consent, expiry | two appliers, failure after partial writes, expiry racing review, siblings expired from an unlocked read | consent before effect, effect at most once, closed for good |
| Agent runs (`agents/session.py`, `tasks.py`) | runs, messages with sequence numbers, queue | post, deliver, turns, tools, finalize | numbering without a lock, redelivery, limits, window cut, a final save whose failure is suppressed | finished runs stay; results follow calls; a started run finishes if its end can be saved |
| Negotiations (`negotiation_agent`) | a negotiation, its offers, their chat messages | draft, send, accept, reject, end, expire | a locked offer beside an unlocked copy of its negotiation | offers are decided and posted once; a deal rests on an accepted offer; nothing hangs |
| Listing autopilot, rental agent | weekly analyses, proposals on top of `agents` | analyse, consent, approve, apply, reject, expire | a suggestion meets a listing edited since; landlord and staff decide on the same proposals | later edits are kept; nothing is applied that nobody agreed to |
| Disputes (`disputes`, `audit`) | disputes, evidence, audit entries | open, add evidence, transition, resolve, reject | a row read outside its transaction; an audit entry that cannot be written; a booking's PATCH over the deposit flag | the trail tells the status |
| AI operations (`ai_intelligence`) | alert rules and alerts, evaluation runs | evaluate, acknowledge, resolve, execute, cancel | streaks and statuses saved from copies; lost workers | a lasting breach is seen; no run hangs |
| Moderation, KYC, one-time passwords | case rows and decisions | open, decide | single rows, decided in turn | – |
| Corporate (`corporate`) | members, bulk bookings, invoices | bulk insert, invoice numbering | no overlap check; count-plus-one numbers | unique numbers |
| Presence (`chat/presence.py`) | a cache entry of leases per user | connect, heartbeat, disconnect, look | read-modify-write without a lock, killed workers, consumers that fail | who is gone goes offline |
| Messages, notifications, analytics | append-only rows | insert, broadcast | best effort only | – |
| Fraud, recommendations, pricing, embeddings, ML, copilot | derived scores | recompute | pure computation over a snapshot | – |
| Caches and locks (`config/cache_utils.py`) | Redis keys with a timeout | lock, unlock | unlock deletes somebody else's lock | – |
| React client | none of its own | calls the endpoints | – | – |

**Interactions.** Approving a booking (PATCH) fires `post_save`, which generates the
installments in `payments`.  A settled payment writes back into `bookings`
(`security_deposit_paid`), into the schedule, subscriptions and promotions.  An agent
run creates proposals in its transaction-free loop; a proposal's application calls a
tool that may write into bookings, rooms, wishlists or negotiations.  Tasks share
those tables with requests and hold no common lock except the row locks named above.

`PROJECT.json` lists every component with its status and every hazard with the line
where it bites and the properties that would show it going wrong.

## 3. Modules

| Module | Models | Used by |
|---|---|---|
| `Bookings` | booking endpoints, signals, schedule generation, deposit columns | `MCBookings`, `BookingsProofs` |
| `Payments` | payment, gateway callbacks, refunds, the deposit flags of its booking | `MCPayments`, `PaymentsProofs` |
| `ReviewGate` | **abstract**: what a human-review gate promises | `Proposals`, `Autopilot` (INSTANCE) |
| `Proposals` | proposal workflow; implements `ReviewGate` | `MCProposals`, `ProposalsProofs` |
| `Prepaid` | **abstract**: entitlement bought ahead with money that was taken, at most one period a payment | `Subscriptions` (INSTANCE) |
| `Subscriptions` | checkout, renewal, cancel, activation, expiry task; implements `Prepaid` | `MCSubscriptions`, `SubscriptionsProofs` |
| `AgentRuns` | conversation runs, sequence numbers, redelivery | `MCAgentRuns`, `Offices`, `AgentRunsProofs` |
| `Negotiations` | a negotiation and its offers on stale copies, deadlines | `MCNegotiations`, `NegotiationsProofs` |
| `Leases` | the due dates of a payment plan, and the calendar | `MCLeases`, `Offices`, `OfficesProofs` |
| `Earnings` | commissions, ledger, payouts; orders and policies that earn | `MCEarnings`, `Offices`, `EarningsProofs` |
| `Autopilot` | weekly suggestions for a listing, decided by its landlord or by staff, and the landlord's edits; implements `ReviewGate` | `Offices`, `OfficesProofs` |
| `Presence` | who is online | `Offices`, `OfficesProofs` |
| `Promotions` | the paid tier of a listing, its payments and its expiry | `Offices`, `OfficesProofs` |
| `Alerts` | alert rules, their evaluation, the alerts | `Offices`, `OfficesProofs` |
| `EvaluationRuns` | evaluation runs, their cancellation, stale ones | `Offices`, `OfficesProofs` |
| `Disputes` | disputes, evidence, audited decisions | `Offices`, `OfficesProofs` |
| `Offices` | nine parts that share no state side by side: `AgentRuns` and the eight above | `MCOffices`, `OfficesProofs` |

Operators named `Bug_...` stand before the definition they vary.  No action uses them.
Each is that definition with a mistake the code could plausibly contain, and each
makes one of the listed properties fail: they show that the properties bite.

### Bookings

| Model | Code |
|---|---|
| `rows` | `bookings_booking`; a row keeps what the properties need: room, dates, status, whether a deposit is due / paid, signature, corporate |
| `creq` with `CreateValidate`, `CreateLock`, `CreateRecheck`, `CreateInsert` | `BookingCreateSerializer.validate` (unlocked check), then `create`: `select_for_update` of the room, re-check, insert and commit |
| `preq` with `PatchLoad`, `PatchPreSave`, `PatchSave`, `PatchCheckSchedule`, `PatchGenerate` | `BookingViewSet.update`: read and validate a copy (`BookingUpdateSerializer.validate`), the `pre_save` signal's own read of the old status, the save of all columns, and `post_save`'s `generate_payment_schedule` (`exists()`, then `bulk_create`) |
| `lock` | row lock of each room; only creates hold it over several steps |
| `schedule` | how many times the installments of a booking were inserted |
| `deposit`, `InitiateDeposit`, `SettleDeposit` | the security-deposit payment reduced to what a booking sees of it (see `Payments`) |
| `granted` | history: bookings whose owner's approval reached the table |
| `CorporateInsert` | `corporate.services.bulk_create_bookings`: an insert with neither check nor lock |
| `Crash` | a worker dies; its lock goes, its request is lost |

Dates are numbers; ranges are closed at both ends as in `_overlap_exists`, and an
absent `check_out` is the largest date.  The ids the sequence has handed out are
`issued`: a deleted id is not handed out again, but a PATCH may re-insert it.
The notes field and notifications are left out: nothing reads them back.

### Payments

| Model | Code |
|---|---|
| `status`, `log`, `Transition` | `Payment.transition_status` with its `PaymentAuditLog` row |
| `Initiate`, `GatewayAnswers`, `SaveSession`, `LogSession`, `OpeningDies` | the initiate views: the row is committed, the gateway is called, `transition_status` saves the new status of the copy in memory **whatever the row holds by then**, a further commit writes the audit row from the status the copy had, and the answer hands out the address |
| `raced` | history: payments whose opening saved over what a callback had made of them, logged after one had, or died between the save and the audit row |
| `BrowserReturn` | SSLCommerz fail and cancel callbacks: one locked transaction that believes the browser, on a payment whose session is still being opened too |
| `CallbackArrives(h, p, q)`, `Ask`, `Execute`, `ExecuteLost` | fast path on terminal statuses; `validate_payment` / `query_payment` / `execute_payment` of the checkout `q` the callback names, **before** the row lock of `p` |
| `Agrees`, `sum` | the amount check, which an answer without an amount passes |
| `settledBy` | `gateway_transaction_id`, by the checkout it is of |
| `SettleDrops`, `SettleFails`, `SettleSucceeds`, `Commit` | the transaction under the row lock; reading the oldest open installment and committing are two steps, as other payments of the booking run between them |
| `RefundArrives`, `RefundLock`, `RefundDone`, `RefundRefused`, `RefundLost`, `RefundRecord` | `PaymentViewSet.refund`: checked, locked, checked again, gateway called with the lock held, recorded |
| `flags`, `copies`, `decided`, with `LoadBooking`, `SaveBooking`, `DecideDeposit` | the deposit columns of a booking and their other writers: a PATCH that saves the whole row from a copy, a dispute's resolution; `stale` is history |
| `gateway`, `sum`, `refunds` | the gateway's side: state of the checkout, the amount it reports if any, refunds carried out (external) |

`Pay` stays possible after a browser return: a payer may finish a checkout in one tab
after cancelling in another.  `ReExecute` says what bKash may answer to a second
execute of one checkout; its documentation is not in the repository, so the
instances allow both answers where it matters.

### Subscriptions and Prepaid

`Prepaid` is a meter: a payment adds one period to one balance, once, with money that was
taken (`Spend(p, q)`; `q` is `p` only if callbacks are matched, `OwnSpec`), or is wasted;
time runs balances down, and a balance may be lost.  Nothing else adds to it.
`Subscriptions` names a request by the payment it creates: `payment[p]` is
`Payment.status`, how far that request is (`request`), and the checkout that settled it
(`by`):

| Model | Code |
|---|---|
| `Checkout`, `Renew` | `SubscriptionMeView.post`, `_renew` up to the first commit.  The unlocked checks before are implied by the constraint, or cannot turn false before the insert |
| `GatewayOpens`, `Link`; `GatewayRefuses`, `Withdraw`; `Dies` | the commits that follow, one action each, and a worker lost between them; the status is saved over whatever a callback made of the payment meanwhile |
| `Pay`, `Fails` | the payer and the fail / cancel callbacks |
| `Settle(p, q)`, `SettleDetached(p, q)` | `activate_on_payment` inside the settlement of the payment `p` by a callback that names the checkout `q` (its own protocol is `Payments`): the row that points at the payment, or none |
| `CancelRead`, `CancelSave` | `_cancel`: decided on a read, saved later |
| `TaskRead`, `TaskSave` | `process_subscription_renewals`: one query, then a save per row |
| `NoOtherLive` | the unique constraint of subscriptions/models.py:81 |
| `Left`, `Entitled` | `active_subscription`, on which every entitlement check rests |

`past_due` is in the constraint but no code sets it.  A settlement that violates the
constraint rolls back as a whole (a 500 to the gateway); the payment then waits, paid,
until the other row is gone.  `used` is history.  Refinement mapping: `balance` is
`Left`, `captured` the checkouts whose money was taken, `spent` the payments whose
settlement stays (`Settled`: one that the opening request will still write over does not).

### Proposals and ReviewGate

`ReviewGate` says in five actions what human review promises: actions are asked for (one,
or several at once), granted by an entitled role, carried out at most once and only while granted, and a
refusal is for good.  `Proposals` is the code:

| Model | Code |
|---|---|
| `Create`, `Approve`, `Reject`, `Expire` | `create_proposal`, `approve_proposal`, `reject_proposal`, `expire_proposals` in agents/services.py, each one short locked transaction |
| `ApplyBegin`, `ApplyFinish`, `ApplyRollback` | `apply_proposal`: the row stays locked while the tool runs; an executor's exception is caught, so `ok = FALSE` with `wrote = TRUE` is possible |
| `OwnerConsents`, `OwnerRejects` | the consent paths of rental_agent, negotiation_agent and listing_autopilot: approve and apply in one transaction, by the conversation's owner, past the staff ceiling.  One action stands for the three |
| `stale`, `expiring`, `ExpireSibling` | `_expire_sibling_bookmark_proposals`: siblings read as pending without a lock, saved as expired later |
| `Deadline`, `overdue` | `expires_at` passes |
| `reviewer`, `toolcall`, `effects` | `reviewed_by` (by role), the tool call's `execution_status`, and how often the tool's writes were committed |

Refinement mapping: `gate` is the status with `rejected` / `expired` read as
"refused" and `applied` / `failed` as "done"; `grantor` is the reviewer unless it is a
rejection; `carried` counts effects.  It is stated for the proposals that are nobody's
sibling (`Only`): the sibling expiry can put an *applied* bookmark proposal down as
expired (see `ProposalsBookmarks.cfg` below), which the gate does not allow.

### AgentRuns

| Model | Code |
|---|---|
| `Post`, `PostRead`, `PostInsert`, `PostSend` | `create_run`, `append_message` (read the last sequence number, insert the next), `schedule_agent_run` |
| `Deliver` | `execute_agent_run` with its guard on finished runs |
| `Guardrail`, `Answer`, `Propose` | one turn of `AgentSession._loop`; the model's answer is arbitrary |
| `StoreRead`, `StoreInsert` | `_persist_message`; a collision on `(conversation, sequence)` raises and fails the run |
| `Finalize`, `FinalizeLost` | `_finalize`: the update is under `suppress(Exception)` (agents/session.py:777), so it may fail unnoticed; `unsaved` is history |
| `Acknowledge`, `WorkerLost` | late acknowledgement; redelivery |
| `Wire` | `_build_messages`: the last `Window` messages |

Tokens, cost and time are one more reason for `Guardrail` to fire at any turn.  A task is
delivered to one worker at a time: a duplicate while the first is still at work, which a
broker's visibility timeout could cause, is left out.

### Negotiations

| Model | Code |
|---|---|
| `request`, `Load` | `resolve_negotiation`: the copy of the negotiation an operation decides on, read without a lock |
| `DraftCheck`, `DraftInsert` | `draft_offer`: counts the party's open offers, then inserts |
| `Send` | `send_offer`: the one operation whose lock on the offer joins the negotiation, so both are fresh |
| `RejectOffer`, `RejectCommit` | `reject_offer`: from the lock and the look at other offers to the commit |
| `AcceptOffer`, `Finalize`, `End` | `accept_offer`, `finalize_negotiation`, `reject_negotiation` and `cancel_negotiation`, on the copy |
| `After` | `transition_negotiation`: a move that is legal from the copy is saved over whatever the row has by now |
| `Deadline`, `OfferDeadline`, `Expire` | `expires_at` of both, and the expiry task |

### Leases

One booking, its `check_in` and `check_out`; `AddInstallment` is one turn of the loop of
`generate_payment_schedule`, `AddOneMonth` is `_add_one_month` (the day clamped to the
month, and never restored), `LeaseEnd` is `_lease_end`.  Dates are a month counted from
year 0 and a day; leap years are those of `calendar`.

### Earnings

| Model | Code |
|---|---|
| `Approve`, `SaveApproval`, `FindCommission`, `CreateCommission`, `RecordEntry` | a booking's approval and `brokers/signals.py`: the previous status, the save, and three commits behind it |
| `LockOrder`, `ConfirmOrder` | `marketplace.services.confirm_order`, one transaction under the order's lock; the broker's rate is read twice |
| `IssuePolicy` | `partner_services.services.issue_policy` |
| `Cancel`, `SaveCancel` | cancels of orders and quotes, decided on a copy |
| `Withdraw`, `InsertPayout`, `Decide`, `SaveDecision` | `request_payout` and the three decisions, on a balance and a status read without a lock |
| `SetRule`, `Share` | a rate changed meanwhile; the rounding of shares, half to even |

### Autopilot, Presence, Promotions

* **Autopilot**: `LoadRooms` is the query of the weekly task, `Analyze` the transaction
  that comes later for one room and works on that copy; a proposal keeps the checksum
  (`Grounding`) of the field it would overwrite.  `Consent` is
  `autopilot_approve_and_apply`; as the autopilot asks for `any_staff`
  (listing_autopilot/services.py:257), `StaffApprove` and `StaffApply` are the admin views
  (agents/views.py:369-404) that decide the same proposals, and `reviewer` is who did.
  Either locks proposal and room and compares (`Begin`); `ApplyText`, `ApplyAmenities` and `ApplyRenewal` are the tools.  `Edit` and
  `SaveEdit` are `RoomSerializer.update`, which saves the whole row.
  It keeps `ReviewGate` too (`AdviceIsReviewed`): an analysis asks for several suggestions
  at once, a landlord's consent grants and applies one in one go, staff grant it first and
  apply it later, and a stale one fails before it has its effect.  No listed run carries this property; as a PROPERTY of `Offices.cfg`
  TLC checks it, and section 5 has the proof.
* **Presence**: `Fetch` reads the cache entry, `Return` writes it back; `Connect`,
  `Heartbeat`, `Disconnect`, `MarkOffline` are the consumer's handlers, `Fail` an exception
  in one (the consumer ends without `disconnect`, and nothing cancels its heartbeat),
  `Kill` a worker process that goes.  Time is counted in heartbeats and the age of a lease in time.
  `time.monotonic()` of two hosts cannot be compared; the model has one clock, so it
  speaks of one host.
* **Promotions**: `Initiate` to `Grant` are a listing payment (how it settles once, and by
  which checkout, is in `Payments`); `SaveOpened` saves over what callbacks made of it,
  as there.  `ScanExpired` and `Revert` are the daily task with its mails between query
  and update.  `send_html_email` suppresses errors of sending, not of building a mail:
  `mailable` says whether those of the due listings can be built, `MailsChange` that
  somebody edits what they are built from.  `OpenDraft` and `SaveDraft` are an edit of
  the listing.

### Alerts, EvaluationRuns, Disputes

* **Alerts**: `LoadRule` is the query of `evaluate_all_rules`; `SaveStreak`, `FindOpen`,
  `CheckCooldown` and `Trigger` are `evaluate_rule` on that copy, statement by statement.
  `ReadAlert` and `SaveAlert` are the three lifecycle functions, `ReadRule` and `SaveRule`
  an edit of the rule.  The metric moves as it likes.  Breaches are counted up to
  `consecutive_checks`, with which they are compared.
* **EvaluationRuns**: `LoadEvaluation`, `StartEvaluation`, `EndEvaluation` are
  `execute_evaluation_run`, `ExecutionDies` a worker lost; `ReadForCancel` and
  `SaveCancelled` are `cancel_evaluation_run`, `FindStale` and `SaveStale` the task.
* **Disputes**: `ReadDispute` is the unlocked read of an admin's action; `SaveDispute`
  begins the transaction and takes the row's lock, `LogAction` inserts the audit entry,
  `Commit` publishes both.  `RollBack` is a dead worker, or an audit entry that cannot be
  written: `log_action` swallows the error, but Django has marked the transaction for
  rollback.  Entries are read in the order of their stamps, not of their commits:
  `journal` is the status that the latest committed one names, and `later` says, of each
  entry not yet committed, whose entries were stamped after it.  `LoadBooking` and
  `SaveBooking` are PATCHes of the booking, which write `security_deposit_refunded`
  (`returned`) back from a copy; `outdated` is history.

## 4. Runs

| Run (cfg) | Question | Result |
|---|---|---|
| `bookings_serial` (BookingsSerial) | two creates race for a room while one PATCH at a time changes statuses, corporate rows appear and the listing is toggled: do bookings stay apart? | holds |
| `bookings_races` (BookingsRaces) | two PATCHes, a DELETE and a crash: can an approval or a signature appear without the owner's approval? | no |
| `bookings_liveness` (BookingsLiveness) | without crashes, does an approved booking get its schedule and every create an answer? | yes |
| `bookings_revived` (BookingsRevived) | do dates stay apart under two concurrent PATCHes? | **no**: a stale approval revives a cancelled booking after its dates were taken |
| `payments` (Payments) | an SSLCommerz deposit and a bKash rent, callbacks that name either checkout and arrive while sessions are being opened, two requests, two faults, PATCHes and a dispute: does success mean that money was taken, and do trail, flags, refunds and finality fail only in the ways the code's own races explain?  Is every request answered? | holds |
| `payments_lost_refund` (PaymentsLostRefund) | is a payment refunded once when an answer is lost? | **no** |
| `subscriptions` (Subscriptions) | two subscriptions of a user, three payments, callbacks that name either checkout, a cancel and the expiry task: is time granted only for money that was taken, do payers stay attached, does the whole implement `Prepaid`, does what is over expire? | holds |
| `proposals` (Proposals) | three proposals under staff and owner, two appliers, expiry, rollbacks: consent, at most one effect, agreement of the records, the review gate, closing | holds |
| `agent_runs_mixed` (AgentRunsMixed) | two runs of one conversation with a lost worker: order of messages, answers, finality | holds |
| `negotiations` (Negotiations) | two offers, two requests on stale copies, deadlines and the expiry task: are offers decided and posted once, do deals rest on an accepted offer, does everything end? | holds |
| `offices` (Offices) | nine parts, one at work in each behaviour: see the table below | holds |
| `lease_overbilled` (LeasesOverbilled) | does an open-ended lease get the number of installments the setting says? | **no**: from the 31st it is given one too many |

| Property of `offices` | Part | Says |
|---|---|---|
| `OfficesTypeOK` | all | the type invariants of the nine modules |
| `BilledToTheEnd` | `Leases` | drifting due dates skip no month of the lease, and do not run past its end |
| `LedgerMatches` | `Earnings` | ledger entries agree with the commissions, whatever repeats, overlaps or dies |
| `AuditTellsStatus` | `Disputes` | the last audit entry names the status; a decided deposit reads as released until a PATCH saves an old copy |
| `NothingRunsForever` | `AgentRuns`, `EvaluationRuns` | a run that started ends, its worker lost or not, unless its end cannot be saved |
| `LaterEditsKept` | `Autopilot` | a suggestion overwrites nothing but the value it was made from |
| `NothingOverstays` | `Presence`, `Promotions` | closed and killed sockets go away, and promotions that are over once their mails can be built |
| `BreachAlerted` | `Alerts` | a breach that lasts has an open alert again and again |

What some properties concede, and why.  A property that the code breaks in one known way
names that way and is checked and proved of everything else; the plain promise stands
beside it in the module, marked "Not true".

| Property | Concedes | The code |
|---|---|---|
| `SuccessIsPaid`, `NoUnpaidTime`, `PrepaidTime` | the money may be another payment's | payments/views.py:799, 1002, 1035: the gateway is asked about the id in the callback.  The comment at 822-824 ("so a validated-but-mismatched transaction can't be misapplied") and subscriptions/views.py:8 ("a forged callback can't grant a free plan") say otherwise |
| `SettledIsFinal`, `AuditChain`, `RefundOncePerFault` | the request that opened the session may save over a callback (`raced`) | payments/views.py:563-581, 623-642; payments/models.py:108-120.  The comment at payments/views.py:49-50 says that a settled payment is left alone by every callback, which it is; by its own opening it is not |
| `DepositFollowsPayments`, `AuditTellsStatus` | a PATCH may save an old copy of the flags (`stale`, `outdated`) | bookings/views.py:97 |
| `NothingRunsForever` | a run whose end could not be saved (`unsaved`) stays "running": its task is acknowledged, and nothing retries it or looks for it | agents/session.py:777 |
| `NothingOverstays` | the socket of a consumer that an exception ended; a promotion whose mail cannot be built, which stops the task at the same room every day | chat/consumers.py:79, 107; rooms/services.py:30-44 with notifications/emails.py:55-65, against rooms/services.py:16-17 ("happens regardless") |

The nine parts read nothing the others write, so a behaviour in which several work is
a shuffle of behaviours in which one does, and each property speaks of one part; to run
them side by side would only multiply the states.

The three violations are listed under "findings" with the comment each contradicts.
Further configurations are kept beside them; each is short and ends in a
counterexample worth knowing:

| cfg | Module, property | What it shows |
|---|---|---|
| BookingsTwice | MCBookings, `ScheduleOnce` | two approvals each find no schedule and generate one, against the docstring at payments/services/schedule.py:45 |
| BookingsDeposit | MCBookings, `DepositRecorded` | a PATCH loaded before the deposit settled writes `security_deposit_paid` back to false |
| BookingsCrash | MCBookings, `ApprovedGetsSchedule` | a worker lost after the approval's save leaves a booking without installments for ever |
| BookingsGate | MCBookings, `DepositClears` | deposits required before approval, and payable only after it: each waits for the other |
| PaymentsRentTwice | MCPayments, `InstallmentLinkedOnce` | two rents of one booking settle the same installment, the second over the first |
| PaymentsDropped | MCPayments, `CapturedNotDropped` | a browser's cancel return wins over money the gateway took |
| PaymentsMisapplied | MCPayments, `SettledByOwnCheckout` | a callback that names the checkout of one payment and the id of another settles the latter, against the comment at payments/views.py:822-824 |
| ProposalsBookmarks | MCProposals, `ExpiresOpenOnly` | consenting to a bookmark puts a sibling down as expired that was decided, even applied, meanwhile |
| AgentRunsRetried | MCAgentRuns, `ProposalsWithinLimit` | a redelivered run starts over and proposes beyond its limit of tool calls |
| AgentRunsWire | MCAgentRuns, `WireValid` | a second run starts between the call of the first and its result, and gives the model the one without the other |
| AgentRunsWindow | MCAgentRuns, `WireValid` | even one run at a time: the window cut leaves a result without its call |
| EarningsOverdrawn | MCEarnings, `NeverOverdrawn` | two payout requests are granted on one balance |

Other formulas of the modules are marked "Not true" there.  Each fails within seconds when
it takes the place of the properties of a configuration:

| Formula | in | What the counterexample shows |
|---|---|---|
| `StatusMachine` | BookingsTwice | with two PATCHes a stored status moves against its edges (cancelled to approved) |
| `ExpiredIsOver` | Subscriptions | a renewal settled between the task's query and its save is expired all the same, against the docstring of subscriptions/tasks.py:25 |
| `PaidTimeKept` | Subscriptions | a cancel decided on the pending row overwrites its activation: paid time is gone |
| `PlansArePaid` | Subscriptions | a subscription is activated with the money of another one's payment, against subscriptions/views.py:8 |
| `RenewalResumes` | Subscriptions | `cancel_at_period_end` is reset in memory but not saved (subscriptions/services/activate.py:54-55) |
| `TerminalStays` | Negotiations | a request on a stale copy takes a negotiation out of its end (tests.py:277 expects it to stay) |
| `OneDeal` | Negotiations | two offers of one negotiation are accepted |
| `LimitHolds` | Negotiations | two drafts pass the limit of open offers at once |
| `PaidStaysPaid` | Offices | a payout that was marked paid is rejected by a decision on a copy |
| `CanceledOwesNothing` | Offices | an order canceled on a copy is confirmed and canceled; its provider keeps the commission |
| `SharesArePaid` | Offices | the broker's rate changes between the two reads of a confirmation |
| `RunsAlwaysFinish` | Offices | the save of a run's end fails, the task is acknowledged, and the run reads as running for ever |
| `LandlordDecides` | Offices | staff approve and apply a suggestion its landlord never saw, against listing_autopilot/services.py:15-16 |
| `RenewalChangesNothing` | Offices | applying a renewal proposal makes the listing available again |
| `ConnectedIsOnline` | Offices | a read-modify-write of another socket loses a lease until the next heartbeat finds it gone |
| `FailedFades` | Offices | the heartbeat of a consumer that an exception ended keeps its user online |
| `LapseRegardless` | Offices | a mail that cannot be built stops the expiry task every day |
| `PaidDaysKept` | Offices | the expiry task, or an edit, writes back a tier over one bought meanwhile |
| `NoSecondCharge` | Offices | two double clicks both find no settled promotion and are both charged |
| `OneOpenAlert` | Offices | two evaluations find no open alert and both raise one (alerts.py:14 promises one) |
| `CancelledStays` | Offices | an execution that goes on marks a cancelled run as completed |
| `ExecutedOnce` | Offices | two requests find one evaluation run pending and both execute it |
| `ClosedStays`, `EvidenceInTime` | Offices | a transition opens a closed dispute again; evidence lands in one that was closed meanwhile |
| `DecisionRecorded` | Offices | a PATCH that was loaded before a dispute was decided sets `security_deposit_refunded` back |
| `ActionsHappen` | Offices | an admin's action is rolled back without an error because its audit entry failed, against audit/services.py:24 ("must not take down the action it records") |
| `OneOpenDispute` | Offices with two disputes and two filings | two requests of one party both open a dispute (disputes/models.py:8) |

### Bounds, and why they are enough

* **Bookings**: one room and two ids; overlap is a relation between two bookings of a
  room, and rooms share nothing.  `MCSpans` are a month and an open-ended stay that
  starts on the month's last day, so closed-ended comparison matters.  Two creates and
  one PATCH, or one create and two PATCHes: every known failure needs two.
  `MaxDeletes`, `MaxCrashes` are 0 or 1; the liveness run has no crash on purpose (see
  BookingsCrash).  The sequence never runs dry but `Ids` does: `CreateOutOfIds`
  answers the request so that liveness is about the lock, not about the bound.
* **Payments**: two payments of one booking that differ in gateway and kind, two
  requests, `MaxFaults` = 2 (a crash and a lost answer, or two of one).  Payments of
  different bookings share nothing but the checkouts a callback may name, for which two
  payments are enough.  `SmallSpec` keeps the product of all this in reach: a payment alone
  meets two requests, both faults and any reported amount; beside a second payment, or a
  PATCH or a dispute, one request is served and nothing is lost; and two payments are
  checked without those, by gateways that report what the checkout was opened for.  The
  theorems have none of these bounds.
* **Subscriptions**: `Period` = 2 and `MaxTime` = 3 so that a renewal can come before, at
  and after the end of a period, be settled on either side of the expiry task, and a
  second period can begin.  Two rows of one user meet in the constraint; three payments
  are a checkout and two renewals that overtake each other.  Users share nothing but the
  checkouts a callback may name.  Beside a third payment there is no cancel request, and
  callbacks name the payment's own checkout (`Small` in `MCSubscriptions`).
* **Proposals**: a high-risk proposal reviewed by admins and two bookmark siblings, all
  three open to the owner's consent, two workers, no bound on rollbacks.
* **AgentRuns**: two runs with one turn each (all interleavings of their messages), or,
  in `offices`, one run with two turns (the counters and liveness); `Window` is out of the
  way except in AgentRunsWindow; `MaxCrashes` = 1.
* **Negotiations**: two offers and two requests, enough for a stale copy beside a
  decision, with a limit of one open offer so that the check can be passed twice.  Either
  party may send each request.
* **Leases**: every check-in on days 1 and 28 to 31 of fourteen months that hold a leap
  year's February and an ordinary one, every such check-out, and none.  Days in between
  behave like the 28th; the theorem needs no bound.
* **Earnings**: a booking, an order and a policy in turn, two workers, two rates, one
  payout.  `MCGross` is chosen so that a share falls between two poisha.
* **Autopilot**: one week, one field with two values, one amenity, one proposal of each
  kind of tool (overwrites, adds, renews; the last is proposed alone, `RenewalAlone` in
  `MCOffices`), one request that applies and one edit under way; a second week would only
  meet `_existing_unresolved`.
* **Presence**: two sockets of a user and one viewer, leases of three heartbeats as in
  the settings' ratio of TTL to interval.  **Promotions**: two payments, one edit, tiers
  of two days.
* **Alerts**: two evaluations that overlap, two breaches in a row, a cooldown of one
  tick, one admin, two alerts, one edit of the rule.  **EvaluationRuns**: one run, two
  executions, one cancel.  **Disputes**: one dispute, two admins, one piece of evidence,
  one status to move to; deaths are not bounded.

`CHECK_DEADLOCK FALSE` appears where the instance really comes to rest: all payments
settled and nothing left to refund, the clock at its bound, all proposals closed, all
runs finished, a plan complete, a negotiation and its offers decided.  In Bookings there
is always another request to serve, and deadlock is checked.

Symmetry is used in safety runs only, over ids, requests and runs.

### Fairness

* *A request under way keeps running* (`SF` on `CreateStep`, `PatchStep`,
  `CallbackStep`, `RefundStep`): strong, because a step may be disabled while another
  transaction holds the row, and PostgreSQL queues waiters, so one that keeps finding the
  row free gets it.  Arrival of requests, deletes, crashes and what the gateway or the
  payer does are never fair.
* `EagerSpec` (BookingsGate only) adds an owner who approves and a tenant who
  pays whenever the endpoint lets them; the deadlock it exhibits is thus not anybody's
  idleness.
* *Proposals*: time passes, the beat schedule keeps starting `expire_proposals`
  (config/settings/base.py:1200, daily), and a tool that was started returns or is
  rolled back, as the servers bound its time.  `WF` on the expiry task is sound though
  it waits for row locks: once nobody takes a lock any more it stays enabled.  (README.md:119
  speaks of a five-minute beat; the settings run it once a day.)
* *Subscriptions*: `WF` on the task's query (beat starts it daily,
  config/settings/base.py:1132) and on each save of the rows it read.  A worker lost in the
  middle is made up for by the next day's run and is left out.
* *AgentRuns*: queued tasks are delivered and sessions go on (`WF`).  Which answer the
  model gives is not fair: `RunsFinish` rests on the guardrails alone.  That the last save
  succeeds is not assumed either.
* *Negotiations*: deadlines come (`WF`), a transaction that was begun commits or is
  rolled back, and beat keeps starting the expiry task.  No party has to do anything.
* *Presence*: calls return, heartbeats of open sockets fire, and time passes (`SF`: it
  stands still while a call is under way, which takes less than a heartbeat).
* *Promotions*: beat starts the daily task (`WF` on its query) and, if its mails can be
  built, it does not die among them every day (`SF` on its update, which `mailable`
  guards).  That they can be built is an assumption of the property (`<>[]mailable`), not
  of the fairness.
* *Alerts*: beat evaluates the rules every five minutes (config/settings/base.py:1192), an
  evaluation that began goes on, the cooldown passes, and an edit that was read is saved.
* *EvaluationRuns*: hours pass, and beat starts the cleanup every half hour
  (config/settings/base.py:1184); its saves go on.  Neither executions nor cancels are fair.

## 5. Theorems

TLAPS checks them for all values of the constants that satisfy the modules' assumptions
(shapes of the parameters, and that `None`, `NoRow` and their like are none of the values).  TLC evaluates the same assumptions on the instances.

* **BookingsProofs.** `TypeCorrect`.  `CreatesNeverOverlap`: under `SerialWrites` (no
  DELETE, at most one PATCH process) bookings of a room never overlap, whatever the
  number of rooms, dates and concurrent creates, crashes included.  `bookings_revived`
  shows why the hypothesis is needed.  Overlap is not inductive; the invariant adds who
  holds the room's lock (`RoomLockHeld`), that rows have issued ids (`RowsIssued`),
  that nothing blocks the dates of a request between re-check and commit
  (`CheckedFits`), and that the copy a PATCH carries blocks only if the stored row does
  (`CopyFresh`).  `NoNewBlockSafe` handles every step that blocks no new date.
  `ApprovalIsTheOwners` (`OnlyTheOwnerApproves`) needs no such hypothesis: any number of
  stale copies may be written back, as a copy that is approved or signed carries the
  owner's approval or was read from a row that had it (`CopiesApproved`).  `StatusesFollowEdges`
  (`StatusMachine`) holds under `SerialWrites` again; BookingsTwice shows that it must.
* **PaymentsProofs.** `TypeCorrect`, `SuccessMeansPaid`, `SettledStays`,
  `DepositFlagsFollow`.  The invariant adds that a checkout the gateway knows was opened by
  a request that is done with it (`OpeningSound`), and what a request remembers between its
  steps (`RequestSound`): a good verdict means money captured at the checkout it asked
  about, and from taking the row lock to the commit the payment is as it was read.  Each
  step is then one of a few moves of a payment (`PaymentMoves`: it begins, its opening goes
  on or saves, a callback fails or settles it, it is refunded), of the gateway
  (`GatewayMoves`) and of a booking's flags (`DepositMoves`), from which these follow; that
  a PATCH invents nothing rests on its copies saying no more than what has happened
  (`Truthful`).  `TrailUnbroken` (`AuditChain`) rests on how long the trail of a payment
  that nothing raced may be by its status (`Fits`); `RefundsBounded` (`RefundOncePerFault`)
  on counting, for every refund the gateway carried out, who is still recording it, or the
  fault that lost it (`RefundsAccounted`).
* **SubscriptionsProofs.** `TypeCorrect`, `NeverUnpaid`, `PayersAttached`, `Refinement`:
  every behaviour is one of `Prepaid`.  Every step is shown to be one of a few moves of
  time and money (`MoneyStep`: nothing, a tick, a loss, a capture, a settlement that adds
  at most a period), which both the bound on entitled time and the refinement follow from.
  The invariant adds that a subscription points at a payment of its own (`PointsAtOwn`),
  that an address is only handed out once one is linked (`LinkMade`), that what settled a
  payment was paid for (`PaidByCaptured`), and that entitled time is covered by the
  settlements that stay (`Covered`).
* **ProposalsProofs.** `TypeCorrect`, `Consent`, `AppliedOnce`, `LogsAgree`,
  `ClosedStays`, and `Refinement`: every behaviour of the workflow is one of
  `ReviewGate`.  The invariant adds that a row is held by one transaction
  (`RowsHeldAlone`), what appliers hold (`AppliersHold`), whose decision the status shows
  (`ReviewOnRecord`) and that effects come with the end of an application
  (`EffectsAccounted`).
* **AgentRunsProofs.** `TypeCorrect`, `AskedFirst`, `AnsweredFirst`, `ResultsFollowFrames`,
  `FinishedForGood`, for any number of runs, limits and lost workers.  The invariant says
  that a run's task is either at the broker or in one session, what that session may
  still store (`SessionSound`: one of the `Batches`, a result only when the run's last
  stored message is its frame, `FrameLast`) and how far the request that created the run
  has come (`RequestSound`).  A step moves one run and adds at most one message;
  `SoundTogether` carries the invariant of the other runs over it.

* **NegotiationsProofs.** `TypeCorrect`, `DealsAreReal`, `NeverDoubleSent`, `OutcomesKeep`,
  for any offers, requests and limit.  What stale copies cannot break follows from two
  facts: a rejection under way holds an offer that is still out, alone (`LocksHeld`), and a
  copy that says "accepted" was read when an offer already was (`CopiesHonest`).
* **EarningsProofs.** `EarningsTyped`, `LedgerIsRight`, `CommissionsStay`, for any deals,
  rates, requests and payouts.  The invariant adds that a request about to enter a booking
  holds the commission that stands (`RecordsWhatStands`), that a pending order or policy
  has no rows yet (`PendingUntouched`), and that a locked one is pending and locked once
  (`LockedIsPending`, `LockedOnce`).  What the balances sum up to plays no part: they only
  guard what may be asked for.

* **OfficesProofs** takes the parts of `Offices` one by one.
  Leases: `LeasesTyped`, `EveryMonthBilled`, `NoMonthTwice`, `OverbilledByOne`, for every
  check-in, check-out and length.  The due date drifts to earlier days but never to a later one (`Drift`),
  every installment but the last lies before the end (`BilledBeforeEnd`), and the loop
  stops no earlier (`PlannedToTheEnd`).  `OverbilledByOne` bounds what `lease_overbilled`
  shows: the last installment falls at the latest into the month in which the lease ends
  (`LastBilledInTime`), so there is one too many at most, and none from a day that every
  month has.
  Disputes: `DisputesTyped` and `AuditIsTrue` (`AuditTellsStatus`), for any number of
  admins and PATCHes.  The row's lock leaves one writer per dispute (`OneWriter`), whose
  entry is the latest one stamped (`EntriesInOrder`) and carries the status it saves.
  Autopilot: `AutopilotTyped`, `OneProposalEach`, `LandlordsEditsStay` (`LaterEditsKept`).
  The lock on the room leaves one consent at work (`OneConsent`); while it is, the
  field is as it was compared (`Grounded`), as every save of the listing waits; and what is to
  be written into a text is a text (`Worded`).
  `AutopilotRefinement` (`AdviceIsReviewed`): every step is one of `ReviewGate`'s or none,
  with the landlord and staff as the roles that may grant;
  that an analysis asks only for what was not asked before rests on proposals existing
  only for analysed weeks (`AdviceAnalysed`).
  `PresenceTyped`, `PromotionsTyped`, `AlertsTyped`, `EvaluationsTyped`; their deeper
  properties are liveness.
  The composition: a step of `Offices` is a step of each part or leaves it alone
  (`EachPartSteps`), so every behaviour of it is one of each part (`EachPartAlone`), and
  `OfficesTyped` and `OfficesSafe` follow from the theorems of the parts, those of
  `AgentRunsProofs` and `EarningsProofs` among them.

What a lock or a check would buy.  Several promises of the code fail because it reads, then
writes, without a lock, or does not compare what it was told.  For these the theorem has the
form `Spec /\ []H => []P`: `H` says that the racing steps do not overlap, or that the answers
match, and is what serialising or comparing them would guarantee.  TLC shows that
`P` fails without `H`, the theorem that nothing else can break it.

| Theorem | P | H | Without H |
|---|---|---|---|
| `BilledOnceAlone` | `ScheduleOnce`: a booking is billed once | one request at a time generates the installments of a booking | `BookingsTwice.cfg` |
| `LinkedOnceAlone` | `InstallmentLinkedOnce` | one request at a time settles a rent payment of a booking | `PaymentsRentTwice.cfg` |
| `RefundedOnceUndisturbed` | `RefundWithinPaid` | no answer and no worker is lost (`MaxFaults = 0`), and no session's opening saves over a callback; requests race as they like | run `payments_lost_refund` |
| `OwnCheckout` | `SettledByOwnCheckout`: a payment is settled by its own checkout | each callback names the checkout of its own payment, which comparing the two would enforce | `PaymentsMisapplied.cfg` |
| `OwnCheckoutsPay` | `PlansArePaid`: entitled time is paid for | the same | `PlansArePaid` with `Subscriptions.cfg` |
| `OneDealWhenFresh` | `OneDeal`: one offer is accepted | who holds a copy that says "open" holds the truth | `OneDeal` with `Negotiations.cfg` |
| `EndsForGoodWhenFresh` | `TerminalStays` | the same | `TerminalStays` with `Negotiations.cfg` |
| `LimitHoldsOneByOne` | `LimitHolds`: the cap on open offers | one request at a time drafts for a party | `LimitHolds` with `Negotiations.cfg` |
| `ExpiresOnlyWhatIsOver` | `ExpiredIsOver`: only what is over expires | what the expiry task has read stays overdue until it is saved | `ExpiredIsOver` with `Subscriptions.cfg` |
| `TimeIsKeptWhenFresh` | `PaidTimeKept`: entitled time ends by the clock alone | that, and what a cancel or a withdrawn checkout read is still so | `PaidTimeKept` with `Subscriptions.cfg` |
| `CanceledOwesNothingWhenFresh` | `CanceledOwesNothing` | a deal whose cancel is about to be saved is still pending | `CanceledOwesNothing` with `Offices.cfg` |
| `PaidStaysPaidWhenFresh` | `PaidStaysPaid`: a paid payout stays paid | a decision about to be saved is one its payout still allows | `PaidStaysPaid` with `Offices.cfg` |

`CreatesNeverOverlap` and `StatusesFollowEdges` have the same form, with `SerialWrites`.

Only model-checked: liveness, which is out of the prover's reach, as is ENABLED; and that
balances are not overdrawn (`NeverOverdrawn`), whose sums over sets of rows would need an
induction over data.  Every
invariant and every action property of a passing run is a theorem, or follows from ones.

## 6. What is not modelled, and why

* Within the modelled parts: wording, logging, notifications and mail (best effort, read
  by no one), except that a mail which cannot be built stops its task; partial refunds,
  whose amount is capped by one comparison; receipts.  `AgentTool.execute` retries an
  executor without context after a `TypeError` (agents/tools.py:106); the retry is part
  of "the tool wrote or not".  The gateways, PostgreSQL and Celery are modelled as far
  as the code relies on them.
* Invoice numbers (payments and corporate) are a count plus one.  What the retry after a
  collision does depends on how the ORM keeps an unsaved related object, which the
  repository does not show.
* Partner-service payments repeat the callbacks of `Payments`.  Members and invoices of
  companies, moderation reports, KYC records, one-time codes, saved-search cursors,
  wishlists and roommates are single rows that one actor at a time changes.
* The rest of AI intelligence: prompt versions are activated by one save after another,
  with the last one standing; logs, metrics and dashboards are records and sums of them.
* Experiments: what matters of the bucketing is the distribution of a hash.
* Pure computation and derived data (fraud scores, ranking, pricing, embeddings, ML,
  copilot, analytics, digests): one request's function of one snapshot, no protocol.
* Authentication libraries, serializers' field formats, and the React client, whose
  requests are among the inputs the modules enumerate; its token refresh and reconnecting
  sockets are modelled from the server's side only.

The modules follow about one line in thirty of the repository.  The rest is serializers,
views that read, settings, models' field lists, prompts, seed data, tests and the client:
code without steps that could be taken in another order.

## 7. What could come next

1. `AgentRuns` composed with `Proposals`: what a redelivered run proposes twice.
2. `Payments` composed with `Subscriptions` and `Promotions`, whose settlement is one
   step today.
3. `AgentRuns` with two workers at one run, and a ledger entry that a crash loses behind
   its commission, which `LedgerMatches` does not ask for.

The number of runs is kept small; the unlisted configurations of section 4 hold the
violations that are known beside the three that are listed.
