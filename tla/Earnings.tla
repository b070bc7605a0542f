------------------------------- MODULE Earnings -------------------------------
(***************************************************************************)
(* What partners earn and draw: broker commissions on approved bookings     *)
(* (brokers/signals.py), on confirmed add-on orders (marketplace) and on    *)
(* issued policies (partner_services), the revenue ledger, and the payouts  *)
(* of one broker (monetization/services).  Requests run beside one another: *)
(* a booking's approval commits statement by statement, an order or policy  *)
(* is settled in one transaction under its row's lock.  Amounts are counted *)
(* in poisha, rates in hundredths of a percent.                             *)
(***************************************************************************)
EXTENDS Integers, FiniteSetsExt

CONSTANTS
  Bookings, Orders, Policies, \* what is sold
  Gross,       \* what each is sold for
  Ruled,       \* scopes with an active CommissionRule
  Rates,       \* rates an administrator may set there
  DefaultRate, \* settings.COMMISSION_DEFAULT_RATES, by scope
  ProviderRate,\* AddonProvider.commission_rate; NoRow for SQL NULL
  Amounts,     \* amounts a broker may ask for
  Payouts,     \* rows of Payout
  Workers,     \* requests served at a time
  NoRow        \* no row, or SQL NULL

Deals == Bookings \cup Orders \cup Policies
Scopes == {"broker", "marketplace", "insurance"}
Payees == {"broker", "provider"}

ASSUME EarningsAssumption ==
  /\ Gross \in [Deals -> Nat]
  /\ Ruled \subseteq Scopes /\ Rates \subseteq Nat
  /\ DefaultRate \in [Scopes -> Nat]
  /\ ProviderRate \in Nat \cup {NoRow}
  /\ Amounts \subseteq Nat
  /\ NoRow \notin Int
  /\ NoRow \notin [platform: Int, partner: Int]
  /\ NoRow \notin [amount: Nat, status: {"pending", "approved", "rejected", "paid"}]
  /\ Orders \cap Bookings = {} /\ Policies \cap Bookings = {}
  /\ Orders \cap Policies = {}

VARIABLES
  rule,        \* CommissionRule.rate of each scope that has one
  deal,        \* status of each booking, order and policy
  commission,  \* Commission.amount by deal and payee, the idempotency key
  entry,       \* RevenueLedgerEntry of each deal
  payout,      \* the broker's payouts
  worker       \* where each request has got to

earningVars == <<rule, deal, commission, entry, payout, worker>>

-----------------------------------------------------------------------------
(* commission_amount: quantized to the poisha, half to even.                *)
Share(gross, rate) ==
  LET whole == (gross * rate) \div 10000
      rest == (gross * rate) % 10000
  IN  IF rest > 5000 \/ (rest = 5000 /\ whole % 2 = 1) THEN whole + 1 ELSE whole

(* commission_rate without an override.                                     *)
RateOf(scope) == IF scope \in Ruled THEN rule[scope] ELSE DefaultRate[scope]

(* create_commission: what stands under the key stays.                      *)
Bug_CreateAnyway(d, payee, amount) == \* update_or_create
  commission' = [commission EXCEPT ![<<d, payee>>] = amount]
CreateOnce(d, payee, amount) ==
  commission' = [commission EXCEPT ![<<d, payee>>] = IF @ = NoRow THEN amount ELSE @]

(* record_entry.                                                            *)
RecordOnce(d, platform, partner) ==
  entry' = [entry EXCEPT ![d] =
              IF @ = NoRow THEN [platform |-> platform, partner |-> partner] ELSE @]

(* available_balance of the broker.                                         *)
Balance ==
  LET earned == {d \in Deals : commission[d, "broker"] # NoRow}
      held == {p \in Payouts : payout[p] # NoRow /\ payout[p].status # "rejected"}
      Earned(d) == commission[d, "broker"]
      Held(p) == payout[p].amount
  IN  MapThenSumSet(Earned, earned) - MapThenSumSet(Held, held)

(* What a request is about to do, with what it has read.                    *)
Free == [step |-> "free"]
At(step, d) == [step |-> step, deal |-> d]
Having(step, d, amount) == [step |-> step, deal |-> d, amount |-> amount]
Confirming(o, providerRate, brokerShare) ==
  [step |-> "confirm", deal |-> o, rate |-> providerRate, amount |-> brokerShare]
Asking(amount) == [step |-> "ask", amount |-> amount]
Deciding(p, status) == [step |-> "decide", payout |-> p, status |-> status]

Goto(w, step) == worker' = [worker EXCEPT ![w] = step]
Unlocked(d) == \A w \in Workers : worker[w].step = "confirm" => worker[w].deal # d

EarningsInit ==
  /\ rule \in [Ruled -> Rates]
  /\ deal = [d \in Deals |-> "pending"]
  /\ commission = [k \in Deals \X Payees |-> NoRow]
  /\ entry = [d \in Deals |-> NoRow]
  /\ payout = [p \in Payouts |-> NoRow]
  /\ worker = [w \in Workers |-> Free]

-----------------------------------------------------------------------------
(* A booking is about to be saved as approved: its previous status is read  *)
(* from the row first (bookings/signals.py).                                *)
Approve(w, b) ==
  /\ worker[w] = Free
  /\ deal[b] # "settled"
  /\ Goto(w, At("save", b))
  /\ UNCHANGED <<rule, deal, commission, entry, payout>>

(* The save, and on_booking_approved up to its first query; the referral    *)
(* may be missing or of a broker who is not verified.                       *)
SaveApproval(w) ==
  /\ worker[w].step = "save"
  /\ deal' = [deal EXCEPT ![worker[w].deal] = "settled"]
  /\ \/ Goto(w, Free)
     \/ Goto(w, At("find", worker[w].deal))
  /\ UNCHANGED <<rule, commission, entry, payout>>

(* An approved booking is saved with another status.                        *)
Unapprove(b) ==
  /\ deal[b] = "settled"
  /\ deal' = [deal EXCEPT ![b] = "pending"]
  /\ UNCHANGED <<rule, commission, entry, payout, worker>>

FindCommission(w) ==
  /\ worker[w].step = "find"
  /\ LET b == worker[w].deal
     IN  Goto(w, IF commission[b, "broker"] # NoRow
                 THEN Having("record", b, commission[b, "broker"])
                 ELSE Having("create", b, Share(Gross[b], RateOf("broker"))))
  /\ UNCHANGED <<rule, deal, commission, entry, payout>>

(* get_or_create on the unique key, and the ledger's first query.           *)
CreateCommission(w) ==
  /\ worker[w].step = "create"
  /\ LET b == worker[w].deal
     IN  /\ CreateOnce(b, "broker", worker[w].amount)
         /\ Goto(w, Having("record", b, commission'[b, "broker"]))
  /\ UNCHANGED <<rule, deal, entry, payout>>

(* record_entry; a duplicate key ends the request with an error.            *)
RecordEntry(w) ==
  /\ worker[w].step = "record"
  /\ RecordOnce(worker[w].deal, 0, worker[w].amount)
  /\ Goto(w, Free)
  /\ UNCHANGED <<rule, deal, commission, payout>>

-----------------------------------------------------------------------------
(* confirm_order: the row is locked, and the rates are read for the shares. *)
LockOrder(w, o) ==
  /\ worker[w] = Free
  /\ deal[o] = "pending" /\ Unlocked(o)
  /\ LET rate == IF ProviderRate # NoRow THEN ProviderRate ELSE RateOf("marketplace")
     IN  \E share \in {NoRow, Share(Gross[o], RateOf("broker"))} :
           Goto(w, Confirming(o, rate, share))
  /\ UNCHANGED <<rule, deal, commission, entry, payout>>

(* create_commission reads the broker's rate again; the transaction commits. *)
ConfirmOrder(w) ==
  /\ worker[w].step = "confirm"
  /\ LET o == worker[w].deal
         providerShare == Share(Gross[o], worker[w].rate)
         brokerShare == IF worker[w].amount = NoRow THEN 0 ELSE worker[w].amount
         earned == [k \in {o} \X Payees |->
                      IF k[2] = "provider" THEN providerShare
                      ELSE IF worker[w].amount = NoRow THEN NoRow
                      ELSE Share(Gross[o], RateOf("broker"))]
     IN  /\ deal' = [deal EXCEPT ![o] = "settled"]
         /\ commission' = [k \in Deals \X Payees |->
              IF k \in {o} \X Payees /\ commission[k] = NoRow THEN earned[k] ELSE commission[k]]
         /\ RecordOnce(o, Gross[o] - providerShare - brokerShare, providerShare + brokerShare)
  /\ Goto(w, Free)
  /\ UNCHANGED <<rule, payout>>

(* issue_policy, in one transaction.                                        *)
IssuePolicy(w, p) ==
  /\ worker[w] = Free
  /\ deal[p] = "pending"
  /\ deal' = [deal EXCEPT ![p] = "settled"]
  /\ \/ CreateOnce(p, "broker", Share(Gross[p], RateOf("broker")))
     \/ UNCHANGED commission
  /\ LET platform == Share(Gross[p], RateOf("insurance"))
     IN  RecordOnce(p, platform, Gross[p] - platform)
  /\ UNCHANGED <<rule, payout, worker>>

(* The cancel of an order or a policy checks a copy, then saves its status  *)
(* once the row is not locked.                                              *)
Cancel(w, d) ==
  /\ worker[w] = Free
  /\ deal[d] = "pending"
  /\ Goto(w, At("cancel", d))
  /\ UNCHANGED <<rule, deal, commission, entry, payout>>

SaveCancel(w) ==
  /\ worker[w].step = "cancel"
  /\ Unlocked(worker[w].deal)
  /\ deal' = [deal EXCEPT ![worker[w].deal] = "canceled"]
  /\ Goto(w, Free)
  /\ UNCHANGED <<rule, commission, entry, payout>>

-----------------------------------------------------------------------------
(* request_payout: the balance, then the row.                               *)
Withdraw(w, amount) ==
  /\ worker[w] = Free
  /\ amount > 0 /\ amount <= Balance
  /\ Goto(w, Asking(amount))
  /\ UNCHANGED <<rule, deal, commission, entry, payout>>

InsertPayout(w, p) ==
  /\ worker[w].step = "ask"
  /\ payout[p] = NoRow
  /\ payout' = [payout EXCEPT ![p] = [amount |-> worker[w].amount, status |-> "pending"]]
  /\ Goto(w, Free)
  /\ UNCHANGED <<rule, deal, commission, entry>>

(* approve_payout, reject_payout, mark_paid: the status of a copy is        *)
(* checked, then saved.                                                     *)
DecisionsOn(status) ==
  CASE status = "pending" -> {"approved", "rejected"}
    [] status = "approved" -> {"paid"}
    [] OTHER -> {}

Decide(w, p) ==
  /\ worker[w] = Free
  /\ payout[p] # NoRow
  /\ \E status \in DecisionsOn(payout[p].status) : Goto(w, Deciding(p, status))
  /\ UNCHANGED <<rule, deal, commission, entry, payout>>

SaveDecision(w) ==
  /\ worker[w].step = "decide"
  /\ payout' = [payout EXCEPT ![worker[w].payout].status = worker[w].status]
  /\ Goto(w, Free)
  /\ UNCHANGED <<rule, deal, commission, entry>>

-----------------------------------------------------------------------------
(* An administrator sets a rate.                                            *)
SetRule(scope, rate) ==
  /\ rule' = [rule EXCEPT ![scope] = rate]
  /\ UNCHANGED <<deal, commission, entry, payout, worker>>

(* The server dies; an open transaction is rolled back.                     *)
Die(w) ==
  /\ worker[w] # Free
  /\ Goto(w, Free)
  /\ UNCHANGED <<rule, deal, commission, entry, payout>>

(* The steps that sell the given deals, and draw on what they earn.         *)
Serve(w, sold) ==
  \/ \E b \in Bookings \cap sold : Approve(w, b)
  \/ SaveApproval(w) \/ FindCommission(w) \/ CreateCommission(w) \/ RecordEntry(w)
  \/ \E o \in Orders \cap sold : LockOrder(w, o)
  \/ ConfirmOrder(w)
  \/ \E p \in Policies \cap sold : IssuePolicy(w, p)
  \/ \E d \in (Orders \cup Policies) \cap sold : Cancel(w, d)
  \/ SaveCancel(w)
  \/ \E amount \in Amounts : Withdraw(w, amount)
  \/ \E p \in Payouts : InsertPayout(w, p) \/ Decide(w, p)
  \/ SaveDecision(w)
  \/ Die(w)

Trade(sold) ==
  \/ \E w \in Workers : Serve(w, sold)
  \/ \E b \in Bookings \cap sold : Unapprove(b)
  \/ \E scope \in Ruled, rate \in Rates : SetRule(scope, rate)

EarningsNext == Trade(Deals)
EarningsSpec == EarningsInit /\ [][EarningsNext]_earningVars

-----------------------------------------------------------------------------
WorkSteps ==
  {Free} \cup [step: {"save", "find"}, deal: Bookings]
    \cup [step: {"cancel"}, deal: Orders \cup Policies]
    \cup [step: {"create", "record"}, deal: Bookings, amount: Int]
    \cup [step: {"confirm"}, deal: Orders, rate: Nat, amount: Int \cup {NoRow}]
    \cup [step: {"ask"}, amount: Nat]
    \cup [step: {"decide"}, payout: Payouts, status: {"approved", "rejected", "paid"}]

(* Every variable holds a value of its kind.                                *)
EarningsTypeOK ==
  /\ rule \in [Ruled -> Rates]
  /\ deal \in [Deals -> {"pending", "settled", "canceled"}]
  /\ commission \in [Deals \X Payees -> Int \cup {NoRow}]
  /\ entry \in [Deals -> [platform: Int, partner: Int] \cup {NoRow}]
  /\ payout \in [Payouts -> {NoRow} \cup
       [amount: Nat, status: {"pending", "approved", "rejected", "paid"}]]
  /\ worker \in [Workers -> WorkSteps]

(* The ledger and the commissions tell one story, however approvals overlap, *)
(* repeat or die half-way and whatever rates are set meanwhile: a booking is *)
(* entered with the very commission its broker has, and an order or policy   *)
(* with shares that add up and include the provider's commission.            *)
LedgerMatches ==
  /\ \A b \in Bookings : entry[b] # NoRow =>
       commission[b, "broker"] = entry[b].partner /\ entry[b].platform = 0
  /\ \A d \in Orders \cup Policies : entry[d] # NoRow =>
       entry[d].platform + entry[d].partner = Gross[d]
  /\ \A o \in Orders :
       /\ commission[o, "provider"] # NoRow <=> entry[o] # NoRow
       /\ commission[o, "broker"] # NoRow => entry[o] # NoRow
  /\ \A p \in Policies : commission[p, "broker"] # NoRow => entry[p] # NoRow

(* "Creates a commission exactly once": what a partner has earned on a deal  *)
(* is never paid again, raised or taken back.                                *)
CommissionsKeep ==
  [][\A k \in Deals \X Payees : commission[k] # NoRow => commission'[k] = commission[k]]_earningVars

(* Not true: the broker is never promised more than was earned.              *)
NeverOverdrawn == Balance >= 0

(* Not true: a payout that was sent stays sent.                              *)
PaidStaysPaid ==
  [][\A p \in Payouts : payout[p] # NoRow /\ payout[p].status = "paid" =>
       payout'[p].status = "paid"]_earningVars

(* Not true: a canceled order owes its provider nothing.                     *)
CanceledOwesNothing ==
  \A o \in Orders : deal[o] = "canceled" => commission[o, "provider"] = NoRow

(* Not true: the partners' share of an order is the sum of its commissions.  *)
SharesArePaid ==
  \A o \in Orders : entry[o] # NoRow =>
    entry[o].partner = commission[o, "provider"] +
      (IF commission[o, "broker"] = NoRow THEN 0 ELSE commission[o, "broker"])
=============================================================================
