---------------------------- MODULE EarningsProofs ----------------------------
(***************************************************************************)
(* Proofs about Earnings, for any number of deals, requests, payouts and    *)
(* rates.  The ledger is right because a request that is about to enter a   *)
(* booking holds the amount that stands as its commission, which never      *)
(* changes, and because a pending order or policy has no rows yet and is    *)
(* still pending when the request that locked it writes them.               *)
(***************************************************************************)
EXTENDS Earnings, TLAPS

(* A share of a price is an amount.                                         *)
LEMMA ShareIsAmount ==
  ASSUME NEW gross \in Nat, NEW rate \in Nat
  PROVE  Share(gross, rate) \in Int
<1> DEFINE total == gross * rate
<1>1. total \in Nat
  OBVIOUS
<1>2. total \div 10000 \in Int
  BY <1>1
<1> QED BY <1>2 DEF Share

(* The rates commissions are made with.                                     *)
LEMMA RateIsNatural ==
  ASSUME EarningsTypeOK, NEW scope \in Scopes
  PROVE  RateOf(scope) \in Nat
BY EarningsAssumption DEF EarningsTypeOK, RateOf

LEMMA SharesOfDeals ==
  ASSUME EarningsTypeOK, NEW d \in Deals, NEW scope \in Scopes
  PROVE  Share(Gross[d], RateOf(scope)) \in Int
<1>1. Gross[d] \in Nat
  BY EarningsAssumption
<1> QED BY <1>1, RateIsNatural, ShareIsAmount

(* What a request holds at each of its steps.                               *)
LEMMA StepOfRequest ==
  ASSUME EarningsTypeOK, NEW w \in Workers
  PROVE  /\ worker[w].step \in {"save", "find"} => worker[w].deal \in Bookings
         /\ worker[w].step \in {"create", "record"} =>
              worker[w].deal \in Bookings /\ worker[w].amount \in Int
         /\ worker[w].step = "confirm" =>
              /\ worker[w].deal \in Orders /\ worker[w].rate \in Nat
              /\ worker[w].amount \in Int \cup {NoRow}
         /\ worker[w].step = "cancel" => worker[w].deal \in Orders \cup Policies
         /\ worker[w].step = "ask" => worker[w].amount \in Nat
         /\ worker[w].step = "decide" =>
              worker[w].payout \in Payouts /\ worker[w].status \in {"approved", "rejected", "paid"}
<1>1. worker[w] \in WorkSteps
  BY DEF EarningsTypeOK
<1> QED BY <1>1 DEF WorkSteps, Free

-----------------------------------------------------------------------------
(* A decision is saved on a payout that exists.                             *)
PayoutsExist ==
  \A w \in Workers : worker[w].step = "decide" => payout[worker[w].payout] # NoRow

(* A request that will enter a booking holds what stands as its commission. *)
Stands(w) == commission[worker[w].deal, "broker"] = worker[w].amount
RecordsWhatStands == \A w \in Workers : worker[w].step = "record" => Stands(w)

(* A pending order or policy has neither commissions nor an entry.          *)
PendingUntouched ==
  \A d \in Orders \cup Policies : deal[d] = "pending" =>
    entry[d] = NoRow /\ \A payee \in Payees : commission[d, payee] = NoRow

(* A locked order is pending, and locked by one request.                    *)
LockedIsPending ==
  \A w \in Workers : worker[w].step = "confirm" => deal[worker[w].deal] = "pending"
LockedOnce ==
  \A v, w \in Workers :
    v # w /\ worker[v].step = "confirm" /\ worker[w].step = "confirm" =>
      worker[v].deal # worker[w].deal

BooksInv ==
  /\ EarningsTypeOK /\ PayoutsExist
  /\ LedgerMatches /\ RecordsWhatStands
  /\ PendingUntouched /\ LockedIsPending /\ LockedOnce

(* Types are kept by every step.                                            *)
LEMMA InitTyped ==
  EarningsInit => EarningsTypeOK
<1> SUFFICES ASSUME EarningsInit PROVE EarningsTypeOK
  OBVIOUS
<1>1. rule \in [Ruled -> Rates]
  BY DEF EarningsInit
<1>2. deal \in [Deals -> {"pending", "settled", "canceled"}]
  BY DEF EarningsInit
<1>3. commission \in [Deals \X Payees -> Int \cup {NoRow}]
  BY DEF EarningsInit
<1>4. entry \in [Deals -> [platform: Int, partner: Int] \cup {NoRow}]
  BY DEF EarningsInit
<1>5. payout \in [Payouts -> {NoRow} \cup
         [amount: Nat, status: {"pending", "approved", "rejected", "paid"}]]
  BY DEF EarningsInit
<1>6. worker \in [Workers -> WorkSteps]
  BY DEF EarningsInit, WorkSteps
<1> QED BY <1>1, <1>2, <1>3, <1>4, <1>5, <1>6 DEF EarningsTypeOK

(* A request goes on to a step of its kind.                                 *)
LEMMA GotoTyped ==
  ASSUME EarningsTypeOK, NEW w \in Workers, NEW step \in WorkSteps, Goto(w, step)
  PROVE  worker' \in [Workers -> WorkSteps]
BY DEF EarningsTypeOK, Goto

LEMMA StepsTyped ==
  /\ Free \in WorkSteps
  /\ \A b \in Bookings : At("save", b) \in WorkSteps /\ At("find", b) \in WorkSteps
  /\ \A d \in Orders \cup Policies : At("cancel", d) \in WorkSteps
  /\ \A b \in Bookings, a \in Int :
       Having("create", b, a) \in WorkSteps /\ Having("record", b, a) \in WorkSteps
  /\ \A o \in Orders, r \in Nat, a \in Int \cup {NoRow} : Confirming(o, r, a) \in WorkSteps
  /\ \A a \in Nat : Asking(a) \in WorkSteps
  /\ \A p \in Payouts, s \in {"approved", "rejected", "paid"} : Deciding(p, s) \in WorkSteps
BY DEF WorkSteps, Free, At, Having, Confirming, Asking, Deciding

(* Writing a commission or an entry once writes amounts.                    *)
LEMMA CreateTyped ==
  ASSUME EarningsTypeOK, NEW d \in Deals, NEW payee \in Payees, NEW amount \in Int,
         CreateOnce(d, payee, amount)
  PROVE  commission' \in [Deals \X Payees -> Int \cup {NoRow}]
BY DEF EarningsTypeOK, CreateOnce

LEMMA RecordTyped ==
  ASSUME EarningsTypeOK, NEW d \in Deals, NEW platform \in Int, NEW partner \in Int,
         RecordOnce(d, platform, partner)
  PROVE  entry' \in [Deals -> [platform: Int, partner: Int] \cup {NoRow}]
BY DEF EarningsTypeOK, RecordOnce

(* Every way a request or an administrator moves keeps the types.           *)
LEMMA StepTyped ==
  EarningsTypeOK /\ PayoutsExist /\ [EarningsNext]_earningVars => EarningsTypeOK'
<1> SUFFICES ASSUME EarningsTypeOK, PayoutsExist, [EarningsNext]_earningVars
             PROVE EarningsTypeOK'
  OBVIOUS
<1> USE StepsTyped
<1>0. ASSUME UNCHANGED earningVars PROVE EarningsTypeOK'
  BY <1>0 DEF EarningsTypeOK, earningVars
<1>1. ASSUME NEW w \in Workers, NEW b \in Bookings, Approve(w, b) PROVE EarningsTypeOK'
  BY <1>1, GotoTyped DEF EarningsTypeOK, Approve
<1>2. ASSUME NEW w \in Workers, SaveApproval(w) PROVE EarningsTypeOK'
  <2>1. worker[w].deal \in Bookings
    BY <1>2, StepOfRequest DEF SaveApproval
  <2>2. deal' \in [Deals -> {"pending", "settled", "canceled"}]
    BY <1>2 DEF EarningsTypeOK, SaveApproval
  <2>3. worker' \in [Workers -> WorkSteps]
    BY <1>2, <2>1, GotoTyped DEF SaveApproval
  <2> QED BY <1>2, <2>2, <2>3 DEF EarningsTypeOK, SaveApproval
<1>3. ASSUME NEW b \in Bookings, Unapprove(b) PROVE EarningsTypeOK'
  BY <1>3 DEF EarningsTypeOK, Unapprove
<1>4. ASSUME NEW w \in Workers, FindCommission(w) PROVE EarningsTypeOK'
  <2> DEFINE b == worker[w].deal
  <2>1. b \in Bookings /\ b \in Deals
    BY <1>4, StepOfRequest DEF FindCommission, Deals
  <2>2. commission[b, "broker"] \in Int \cup {NoRow}
    BY <2>1 DEF EarningsTypeOK, Payees
  <2>3. Share(Gross[b], RateOf("broker")) \in Int
    BY <2>1, SharesOfDeals DEF Scopes
  <2>4. worker' \in [Workers -> WorkSteps]
    <3>1. CASE commission[b, "broker"] = NoRow
      BY <1>4, <3>1, <2>1, <2>3, GotoTyped DEF FindCommission
    <3>2. CASE commission[b, "broker"] # NoRow
      BY <1>4, <3>2, <2>1, <2>2, GotoTyped DEF FindCommission
    <3> QED BY <3>1, <3>2
  <2> QED BY <1>4, <2>4 DEF EarningsTypeOK, FindCommission
<1>5. ASSUME NEW w \in Workers, CreateCommission(w) PROVE EarningsTypeOK'
  <2> DEFINE b == worker[w].deal
  <2>1. b \in Bookings /\ b \in Deals /\ worker[w].amount \in Int /\ "broker" \in Payees
    BY <1>5, StepOfRequest DEF CreateCommission, Deals, Payees
  <2>2. commission' \in [Deals \X Payees -> Int \cup {NoRow}]
    BY <1>5, <2>1, CreateTyped DEF CreateCommission
  <2>3. commission'[b, "broker"] \in Int
    BY <1>5, <2>1 DEF CreateCommission, CreateOnce, EarningsTypeOK
  <2>4. worker' \in [Workers -> WorkSteps]
    BY <1>5, <2>1, <2>3, GotoTyped DEF CreateCommission
  <2> QED BY <1>5, <2>2, <2>4 DEF EarningsTypeOK, CreateCommission
<1>6. ASSUME NEW w \in Workers, RecordEntry(w) PROVE EarningsTypeOK'
  <2>1. worker[w].deal \in Deals /\ worker[w].amount \in Int
    BY <1>6, StepOfRequest DEF RecordEntry, Deals
  <2>2. entry' \in [Deals -> [platform: Int, partner: Int] \cup {NoRow}]
    BY <1>6, <2>1, RecordTyped DEF RecordEntry
  <2>3. worker' \in [Workers -> WorkSteps]
    BY <1>6, GotoTyped DEF RecordEntry
  <2> QED BY <1>6, <2>2, <2>3 DEF EarningsTypeOK, RecordEntry
<1>7. ASSUME NEW w \in Workers, NEW o \in Orders, LockOrder(w, o) PROVE EarningsTypeOK'
  <2>1. o \in Deals
    BY DEF Deals
  <2>2. PICK rate \in Nat, share \in Int \cup {NoRow} : Goto(w, Confirming(o, rate, share))
    <3>1. Share(Gross[o], RateOf("broker")) \in Int
      BY <2>1, SharesOfDeals DEF Scopes
    <3>2. RateOf("marketplace") \in Nat
      BY RateIsNatural DEF Scopes
    <3>3. (IF ProviderRate # NoRow THEN ProviderRate ELSE RateOf("marketplace")) \in Nat
      BY <3>2, EarningsAssumption
    <3> QED BY <1>7, <3>1, <3>3 DEF LockOrder
  <2>3. worker' \in [Workers -> WorkSteps]
    BY <2>2, GotoTyped
  <2> QED BY <1>7, <2>3 DEF EarningsTypeOK, LockOrder
<1>8. ASSUME NEW w \in Workers, ConfirmOrder(w) PROVE EarningsTypeOK'
  <2> DEFINE o == worker[w].deal
             providerShare == Share(Gross[o], worker[w].rate)
             brokerShare == IF worker[w].amount = NoRow THEN 0 ELSE worker[w].amount
             paid == Share(Gross[o], RateOf("broker"))
  <2>1. /\ o \in Orders /\ o \in Deals /\ worker[w].rate \in Nat
        /\ worker[w].amount \in Int \cup {NoRow}
    BY <1>8, StepOfRequest DEF ConfirmOrder, Deals
  <2>2. Gross[o] \in Nat
    BY <2>1, EarningsAssumption
  <2>3. providerShare \in Int /\ brokerShare \in Int /\ paid \in Int
    BY <2>1, <2>2, ShareIsAmount, SharesOfDeals DEF Scopes
  <2>4. deal' \in [Deals -> {"pending", "settled", "canceled"}]
    BY <1>8 DEF EarningsTypeOK, ConfirmOrder
  <2>5. commission' = [k \in Deals \X Payees |->
             IF k \in {o} \X Payees /\ commission[k] = NoRow
             THEN [j \in {o} \X Payees |->
                     IF j[2] = "provider" THEN providerShare
                     ELSE IF worker[w].amount = NoRow THEN NoRow ELSE paid][k]
             ELSE commission[k]]
    BY <1>8 DEF ConfirmOrder
  <2> HIDE DEF o, providerShare, brokerShare, paid
  <2>6. commission' \in [Deals \X Payees -> Int \cup {NoRow}]
    BY <2>3, <2>5 DEF EarningsTypeOK
  <2>7. entry' \in [Deals -> [platform: Int, partner: Int] \cup {NoRow}]
    <3>1. RecordOnce(o, Gross[o] - providerShare - brokerShare, providerShare + brokerShare)
      BY <1>8 DEF ConfirmOrder, o, providerShare, brokerShare
    <3>2. /\ Gross[o] - providerShare - brokerShare \in Int
          /\ providerShare + brokerShare \in Int
      BY <2>2, <2>3
    <3> QED BY <2>1, <3>1, <3>2, RecordTyped
  <2>8. worker' \in [Workers -> WorkSteps]
    BY <1>8, GotoTyped DEF ConfirmOrder
  <2>9. UNCHANGED <<rule, payout>>
    BY <1>8 DEF ConfirmOrder
  <2> QED BY <2>4, <2>6, <2>7, <2>8, <2>9 DEF EarningsTypeOK
<1>9. ASSUME NEW w \in Workers, NEW p \in Policies, IssuePolicy(w, p) PROVE EarningsTypeOK'
  <2>1. p \in Deals /\ "broker" \in Payees /\ Gross[p] \in Int
    BY EarningsAssumption DEF Deals, Payees
  <2>2. Share(Gross[p], RateOf("broker")) \in Int /\ Share(Gross[p], RateOf("insurance")) \in Int
    BY <2>1, SharesOfDeals DEF Scopes
  <2>3. commission' \in [Deals \X Payees -> Int \cup {NoRow}]
    BY <1>9, <2>1, <2>2, CreateTyped DEF IssuePolicy, EarningsTypeOK
  <2>4. entry' \in [Deals -> [platform: Int, partner: Int] \cup {NoRow}]
    BY <1>9, <2>1, <2>2, RecordTyped DEF IssuePolicy
  <2>5. deal' \in [Deals -> {"pending", "settled", "canceled"}]
    BY <1>9 DEF EarningsTypeOK, IssuePolicy
  <2> QED BY <1>9, <2>3, <2>4, <2>5 DEF EarningsTypeOK, IssuePolicy
<1>10. ASSUME NEW w \in Workers, NEW d \in Orders \cup Policies, Cancel(w, d)
       PROVE EarningsTypeOK'
  BY <1>10, GotoTyped DEF EarningsTypeOK, Cancel
<1>11. ASSUME NEW w \in Workers, SaveCancel(w) PROVE EarningsTypeOK'
  <2>1. deal' \in [Deals -> {"pending", "settled", "canceled"}]
    BY <1>11 DEF EarningsTypeOK, SaveCancel
  <2>2. worker' \in [Workers -> WorkSteps]
    BY <1>11, GotoTyped DEF SaveCancel
  <2> QED BY <1>11, <2>1, <2>2 DEF EarningsTypeOK, SaveCancel
<1>12. ASSUME NEW w \in Workers, NEW amount \in Amounts, Withdraw(w, amount)
       PROVE EarningsTypeOK'
  <2>1. worker' \in [Workers -> WorkSteps]
    BY <1>12, GotoTyped, EarningsAssumption DEF Withdraw
  <2> QED BY <1>12, <2>1 DEF EarningsTypeOK, Withdraw
<1>13. ASSUME NEW w \in Workers, NEW p \in Payouts, InsertPayout(w, p) PROVE EarningsTypeOK'
  <2>1. worker[w].amount \in Nat
    BY <1>13, StepOfRequest DEF InsertPayout
  <2>2. payout' \in [Payouts -> {NoRow} \cup
          [amount: Nat, status: {"pending", "approved", "rejected", "paid"}]]
    BY <1>13, <2>1 DEF EarningsTypeOK, InsertPayout
  <2>3. worker' \in [Workers -> WorkSteps]
    BY <1>13, GotoTyped DEF InsertPayout
  <2> QED BY <1>13, <2>2, <2>3 DEF EarningsTypeOK, InsertPayout
<1>14. ASSUME NEW w \in Workers, NEW p \in Payouts, Decide(w, p) PROVE EarningsTypeOK'
  <2>1. PICK status \in DecisionsOn(payout[p].status) : Goto(w, Deciding(p, status))
    BY <1>14 DEF Decide
  <2>2. status \in {"approved", "rejected", "paid"}
    BY <2>1 DEF DecisionsOn
  <2>3. worker' \in [Workers -> WorkSteps]
    BY <2>1, <2>2, GotoTyped
  <2> QED BY <1>14, <2>3 DEF EarningsTypeOK, Decide
<1>15. ASSUME NEW w \in Workers, SaveDecision(w) PROVE EarningsTypeOK'
  <2>1. worker[w].payout \in Payouts /\ worker[w].status \in {"approved", "rejected", "paid"}
    BY <1>15, StepOfRequest DEF SaveDecision
  <2>2. payout' \in [Payouts -> {NoRow} \cup
          [amount: Nat, status: {"pending", "approved", "rejected", "paid"}]]
    BY <1>15, <2>1 DEF EarningsTypeOK, PayoutsExist, SaveDecision
  <2>3. worker' \in [Workers -> WorkSteps]
    BY <1>15, GotoTyped DEF SaveDecision
  <2> QED BY <1>15, <2>2, <2>3 DEF EarningsTypeOK, SaveDecision
<1>16. ASSUME NEW scope \in Ruled, NEW rate \in Rates, SetRule(scope, rate)
       PROVE EarningsTypeOK'
  BY <1>16 DEF EarningsTypeOK, SetRule
<1>17. ASSUME NEW w \in Workers, Die(w) PROVE EarningsTypeOK'
  BY <1>17, GotoTyped DEF EarningsTypeOK, Die
<1> QED BY <1>0, <1>1, <1>2, <1>3, <1>4, <1>5, <1>6, <1>7, <1>8, <1>9, <1>10, <1>11,
          <1>12, <1>13, <1>14, <1>15, <1>16, <1>17
       DEF EarningsNext, Trade, Serve

-----------------------------------------------------------------------------
(* A request that goes on leaves the others where they are.                 *)
LEMMA GotoMoves ==
  ASSUME EarningsTypeOK, NEW w \in Workers, NEW step, Goto(w, step)
  PROVE  worker'[w] = step /\ \A v \in Workers : v # w => worker'[v] = worker[v]
BY DEF EarningsTypeOK, Goto

(* A step that writes no commission and no entry, makes nothing pending and *)
(* brings a request to "record" only with the amount that stands.           *)
LEMMA BooksUntouched ==
  ASSUME BooksInv, UNCHANGED <<commission, entry>>,
         \A d \in Orders \cup Policies : deal'[d] = "pending" => deal[d] = "pending",
         \A w \in Workers : worker'[w].step = "record" =>
           worker'[w] = worker[w] \/ Stands(w)'
  PROVE  LedgerMatches' /\ RecordsWhatStands' /\ PendingUntouched'
<1>1. LedgerMatches'
  BY DEF BooksInv, LedgerMatches
<1>2. RecordsWhatStands'
  BY DEF BooksInv, RecordsWhatStands, Stands
<1>3. PendingUntouched'
  BY DEF BooksInv, PendingUntouched
<1> QED BY <1>1, <1>2, <1>3

(* A step that leaves locked orders pending and locks what nobody had.      *)
LEMMA LocksHeld ==
  ASSUME BooksInv,
         \A w \in Workers : worker[w].step = "confirm" /\ worker'[w] = worker[w] =>
           deal'[worker[w].deal] = deal[worker[w].deal],
         \A w \in Workers : worker'[w].step = "confirm" =>
           \/ worker'[w] = worker[w]
           \/ /\ deal'[worker'[w].deal] = "pending"
              /\ \A v \in Workers : v # w => worker'[v] = worker[v]
              /\ \A v \in Workers : v # w /\ worker[v].step = "confirm" =>
                   worker[v].deal # worker'[w].deal
  PROVE  LockedIsPending' /\ LockedOnce'
<1>1. LockedIsPending'
  BY DEF BooksInv, LockedIsPending
<1>2. LockedOnce'
  BY DEF BooksInv, LockedOnce
<1> QED BY <1>1, <1>2

(* A step that keeps the payouts' rows and decides on an existing one.      *)
LEMMA PayoutsKept ==
  ASSUME BooksInv,
         \A p \in Payouts : payout[p] # NoRow => payout'[p] # NoRow,
         \A w \in Workers : worker'[w].step = "decide" =>
           worker'[w] = worker[w] \/ payout'[worker'[w].payout] # NoRow
  PROVE  PayoutsExist'
<1> SUFFICES ASSUME NEW w \in Workers, worker'[w].step = "decide"
             PROVE  payout'[worker'[w].payout] # NoRow
  BY DEF PayoutsExist
<1>1. CASE worker'[w] = worker[w]
  BY <1>1, StepOfRequest DEF BooksInv, PayoutsExist
<1> QED BY <1>1

(* Every step keeps the books: most write neither a commission nor an entry. *)
LEMMA StepKeepsBooks ==
  BooksInv /\ [EarningsNext]_earningVars => BooksInv'
<1> DEFINE Kept == /\ PayoutsExist' /\ LedgerMatches' /\ RecordsWhatStands'
                   /\ PendingUntouched' /\ LockedIsPending' /\ LockedOnce'
<1> SUFFICES ASSUME BooksInv, [EarningsNext]_earningVars PROVE Kept
  BY StepTyped DEF BooksInv
<1> /\ EarningsTypeOK /\ PayoutsExist /\ LedgerMatches /\ RecordsWhatStands
    /\ PendingUntouched /\ LockedIsPending /\ LockedOnce
  BY DEF BooksInv
<1>0. ASSUME UNCHANGED earningVars PROVE Kept
  <2>1. UNCHANGED <<deal, commission, entry, payout, worker>>
    BY <1>0 DEF earningVars
  <2>2. PayoutsExist' BY <2>1, PayoutsKept
  <2>3. LedgerMatches' /\ RecordsWhatStands' /\ PendingUntouched' BY <2>1, BooksUntouched
  <2>4. LockedIsPending' /\ LockedOnce' BY <2>1, LocksHeld
  <2> QED BY <2>2, <2>3, <2>4
<1>1. ASSUME NEW w \in Workers, NEW b \in Bookings, Approve(w, b) PROVE Kept
  <2>1. /\ UNCHANGED <<deal, commission, entry, payout>>
        /\ worker'[w] = At("save", b) /\ \A v \in Workers : v # w => worker'[v] = worker[v]
    BY <1>1, GotoMoves DEF Approve
  <2>2. PayoutsExist' BY <2>1, PayoutsKept DEF At
  <2>3. LedgerMatches' /\ RecordsWhatStands' /\ PendingUntouched'
    BY <2>1, BooksUntouched DEF At
  <2>4. LockedIsPending' /\ LockedOnce' BY <2>1, LocksHeld DEF At
  <2> QED BY <2>2, <2>3, <2>4
<1>2. ASSUME NEW w \in Workers, SaveApproval(w) PROVE Kept
  <2> DEFINE b == worker[w].deal
  <2>1. b \in Bookings
    BY <1>2, StepOfRequest DEF SaveApproval
  <2>2. /\ UNCHANGED <<commission, entry, payout>> /\ deal' = [deal EXCEPT ![b] = "settled"]
        /\ worker'[w] \in {Free, At("find", b)}
        /\ \A v \in Workers : v # w => worker'[v] = worker[v]
    BY <1>2, GotoMoves DEF SaveApproval
  <2>3. \A d \in Orders \cup Policies : deal'[d] = deal[d]
    BY <2>1, <2>2, EarningsAssumption DEF EarningsTypeOK
  <2>4. \A v \in Workers : worker[v].step = "confirm" => worker[v].deal \in Orders
    BY StepOfRequest
  <2>5. PayoutsExist' BY <2>2, PayoutsKept DEF At, Free
  <2>6. LedgerMatches' /\ RecordsWhatStands' /\ PendingUntouched'
    BY <2>2, <2>3, BooksUntouched DEF At, Free
  <2>7. LockedIsPending' /\ LockedOnce' BY <2>2, <2>3, <2>4, LocksHeld DEF At, Free
  <2> QED BY <2>5, <2>6, <2>7
<1>3. ASSUME NEW b \in Bookings, Unapprove(b) PROVE Kept
  <2>1. /\ UNCHANGED <<commission, entry, payout, worker>>
        /\ deal' = [deal EXCEPT ![b] = "pending"]
    BY <1>3 DEF Unapprove
  <2>2. \A d \in Orders \cup Policies : deal'[d] = deal[d]
    BY <2>1, EarningsAssumption DEF EarningsTypeOK
  <2>3. \A v \in Workers : worker[v].step = "confirm" => worker[v].deal \in Orders
    BY StepOfRequest
  <2>4. PayoutsExist' BY <2>1, PayoutsKept
  <2>5. LedgerMatches' /\ RecordsWhatStands' /\ PendingUntouched'
    BY <2>1, <2>2, BooksUntouched
  <2>6. LockedIsPending' /\ LockedOnce' BY <2>1, <2>2, <2>3, LocksHeld
  <2> QED BY <2>4, <2>5, <2>6
<1>4. ASSUME NEW w \in Workers, FindCommission(w) PROVE Kept
  <2> DEFINE b == worker[w].deal
             stands == commission[b, "broker"]
             made == Share(Gross[b], RateOf("broker"))
  <2>1. /\ UNCHANGED <<deal, commission, entry, payout>>
        /\ \/ worker'[w] = Having("record", b, stands)
           \/ worker'[w] = Having("create", b, made)
        /\ \A v \in Workers : v # w => worker'[v] = worker[v]
    BY <1>4, GotoMoves DEF FindCommission
  <2> HIDE DEF b, stands, made
  <2>2. PayoutsExist' BY <2>1, PayoutsKept DEF Having
  <2>3. worker'[w].step = "record" => Stands(w)'
    <3>1. worker'[w].step = "record" => worker'[w].deal = b /\ worker'[w].amount = stands
      BY <2>1 DEF Having
    <3> QED BY <3>1, <2>1 DEF Stands, stands
  <2>5. LedgerMatches' /\ RecordsWhatStands' /\ PendingUntouched'
    BY <2>1, <2>3, BooksUntouched
  <2>4. LockedIsPending' /\ LockedOnce' BY <2>1, LocksHeld DEF Having
  <2> QED BY <2>2, <2>4, <2>5
<1>5. ASSUME NEW w \in Workers, CreateCommission(w) PROVE Kept
  <2> DEFINE b == worker[w].deal
             a == commission'[b, "broker"]
  <2>1. /\ b \in Bookings /\ b \in Deals /\ worker[w].amount \in Int
        /\ "broker" \in Payees
    BY <1>5, StepOfRequest DEF CreateCommission, Deals, Payees
  <2>2. /\ UNCHANGED <<deal, entry, payout>>
        /\ worker'[w] = Having("record", b, a)
        /\ \A v \in Workers : v # w => worker'[v] = worker[v]
    BY <1>5, GotoMoves DEF CreateCommission
  <2>3. \A k \in Deals \X Payees :
          (commission[k] # NoRow \/ k # <<b, "broker">>) => commission'[k] = commission[k]
    BY <1>5, <2>1 DEF CreateCommission, CreateOnce, EarningsTypeOK
  <2> HIDE DEF b, a
  <2>4. \A c \in Bookings : c \in Deals /\ c \notin Orders \cup Policies
    BY EarningsAssumption DEF Deals
  <2>5. \A d \in Orders \cup Policies, payee \in Payees :
          commission'[d, payee] = commission[d, payee]
    BY <2>1, <2>3, <2>4 DEF Deals
  <2>6. PayoutsExist' BY <2>2, PayoutsKept DEF Having
  <2>7. LedgerMatches'
    <3>1. \A c \in Bookings : entry[c] # NoRow =>
            commission'[c, "broker"] = commission[c, "broker"]
      <4> SUFFICES ASSUME NEW c \in Bookings, entry[c] # NoRow
                   PROVE  commission'[c, "broker"] = commission[c, "broker"]
        OBVIOUS
      <4>1. entry[c] \in [platform: Int, partner: Int] /\ commission[c, "broker"] = entry[c].partner
        BY <2>4 DEF LedgerMatches, EarningsTypeOK
      <4>2. commission[c, "broker"] # NoRow
        BY <4>1, EarningsAssumption
      <4> QED BY <4>2, <2>1, <2>3, <2>4
    <3> QED BY <3>1, <2>2, <2>5 DEF LedgerMatches, Payees
  <2>8. RecordsWhatStands'
    <3> SUFFICES ASSUME NEW v \in Workers, worker'[v].step = "record"
                 PROVE  Stands(v)'
      BY DEF RecordsWhatStands
    <3>1. CASE v = w
      <4>1. worker'[w].deal = b /\ worker'[w].amount = a
        BY <2>2 DEF Having
      <4> QED BY <3>1, <4>1 DEF Stands, a
    <3>2. CASE v # w
      <4>1. /\ worker'[v] = worker[v] /\ worker[v].deal \in Deals /\ worker[v].amount \in Int
            /\ commission[worker[v].deal, "broker"] = worker[v].amount
        BY <3>2, <2>2, StepOfRequest DEF RecordsWhatStands, Stands, Deals
      <4>2. commission[worker[v].deal, "broker"] # NoRow
        BY <4>1, EarningsAssumption
      <4> QED BY <4>1, <4>2, <2>1, <2>3 DEF Stands
    <3> QED BY <3>1, <3>2
  <2>9. PendingUntouched'
    <3> SUFFICES ASSUME NEW d \in Orders \cup Policies, deal'[d] = "pending"
                 PROVE  entry'[d] = NoRow /\
                        \A payee \in Payees : commission'[d, payee] = NoRow
      BY DEF PendingUntouched
    <3>1. entry[d] = NoRow /\ \A payee \in Payees : commission[d, payee] = NoRow
      BY <2>2 DEF PendingUntouched
    <3>2. entry'[d] = NoRow BY <3>1, <2>2
    <3>3. ASSUME NEW payee \in Payees PROVE commission'[d, payee] = NoRow
      <4>1. commission[d, payee] = NoRow BY <3>1
      <4>2. commission'[d, payee] = commission[d, payee] BY <2>5
      <4> QED BY <4>1, <4>2
    <3> QED BY <3>2, <3>3
  <2>10. LockedIsPending' /\ LockedOnce' BY <2>2, LocksHeld DEF Having
  <2> QED BY <2>6, <2>7, <2>8, <2>9, <2>10
<1>6. ASSUME NEW w \in Workers, RecordEntry(w) PROVE Kept
  <2> DEFINE b == worker[w].deal
  <2>1. /\ b \in Bookings /\ b \in Deals /\ worker[w].amount \in Int
        /\ b \notin Orders \cup Policies
    BY <1>6, StepOfRequest, EarningsAssumption DEF RecordEntry, Deals
  <2>2. /\ UNCHANGED <<deal, commission, payout>> /\ worker'[w] = Free
        /\ \A v \in Workers : v # w => worker'[v] = worker[v]
    BY <1>6, GotoMoves DEF RecordEntry
  <2>10. commission[b, "broker"] = worker[w].amount
    BY <1>6 DEF RecordEntry, RecordsWhatStands, Stands
  <2>3. /\ \A d \in Deals : (d # b \/ entry[d] # NoRow) => entry'[d] = entry[d]
        /\ entry[b] = NoRow => entry'[b] = [platform |-> 0, partner |-> worker[w].amount]
    BY <1>6, <2>1 DEF RecordEntry, RecordOnce, EarningsTypeOK
  <2> HIDE DEF b
  <2>4. \A d \in Orders \cup Policies : d \in Deals /\ entry'[d] = entry[d]
    BY <2>1, <2>3 DEF Deals
  <2>5. PayoutsExist' BY <2>2, PayoutsKept DEF Free
  <2>6. LedgerMatches'
    <3>1. \A c \in Bookings : entry'[c] # NoRow =>
            commission[c, "broker"] = entry'[c].partner /\ entry'[c].platform = 0
      <4> SUFFICES ASSUME NEW c \in Bookings, entry'[c] # NoRow
                   PROVE  commission[c, "broker"] = entry'[c].partner /\ entry'[c].platform = 0
        OBVIOUS
      <4>1. CASE entry'[c] = entry[c]
        BY <4>1 DEF LedgerMatches
      <4>2. CASE entry'[c] # entry[c]
        <5>1. c = b /\ entry[b] = NoRow
          BY <4>2, <2>3 DEF Deals
        <5>2. entry'[c].partner = worker[w].amount /\ entry'[c].platform = 0
          BY <5>1, <2>3
        <5> QED BY <5>1, <5>2, <2>10
      <4> QED BY <4>1, <4>2
    <3> QED BY <3>1, <2>2, <2>4 DEF LedgerMatches
  <2>7. RecordsWhatStands'
    <3>1. \A v \in Workers : worker'[v].step = "record" => worker'[v] = worker[v]
      BY <2>2 DEF Free
    <3> QED BY <3>1, <2>2 DEF RecordsWhatStands, Stands
  <2>8. PendingUntouched'
    BY <2>2, <2>4 DEF PendingUntouched
  <2>9. LockedIsPending' /\ LockedOnce' BY <2>2, LocksHeld DEF Free
  <2> QED BY <2>5, <2>6, <2>7, <2>8, <2>9
<1>7. ASSUME NEW w \in Workers, NEW o \in Orders, LockOrder(w, o) PROVE Kept
  <2>1. PICK rate, share : Goto(w, Confirming(o, rate, share))
    BY <1>7 DEF LockOrder
  <2>2. /\ UNCHANGED <<deal, commission, entry, payout>> /\ deal[o] = "pending" /\ Unlocked(o)
        /\ worker'[w] = Confirming(o, rate, share)
        /\ \A v \in Workers : v # w => worker'[v] = worker[v]
    BY <1>7, <2>1, GotoMoves DEF LockOrder
  <2>3. PayoutsExist' BY <2>2, PayoutsKept DEF Confirming
  <2>4. LedgerMatches' /\ RecordsWhatStands' /\ PendingUntouched'
    BY <2>2, BooksUntouched DEF Confirming
  <2>5. LockedIsPending' /\ LockedOnce' BY <2>2, LocksHeld DEF Confirming, Unlocked
  <2> QED BY <2>3, <2>4, <2>5
<1>8. ASSUME NEW w \in Workers, ConfirmOrder(w) PROVE Kept
  <2> DEFINE o == worker[w].deal
             providerShare == Share(Gross[o], worker[w].rate)
             brokerShare == IF worker[w].amount = NoRow THEN 0 ELSE worker[w].amount
             paid == Share(Gross[o], RateOf("broker"))
             earned == [k \in {o} \X Payees |->
                          IF k[2] = "provider" THEN providerShare
                          ELSE IF worker[w].amount = NoRow THEN NoRow ELSE paid]
  <2>1. /\ o \in Orders /\ o \in Deals /\ o \notin Bookings /\ o \notin Policies
        /\ worker[w].rate \in Nat /\ worker[w].amount \in Int \cup {NoRow}
        /\ Gross[o] \in Nat
    BY <1>8, StepOfRequest, EarningsAssumption DEF ConfirmOrder, Deals
  <2>2. providerShare \in Int /\ brokerShare \in Int /\ paid \in Int
    BY <2>1, ShareIsAmount, SharesOfDeals DEF Scopes
  <2>3. /\ deal[o] = "pending" /\ entry[o] = NoRow
        /\ \A payee \in Payees : commission[o, payee] = NoRow
    BY <1>8, <2>1 DEF ConfirmOrder, LockedIsPending, PendingUntouched
  <2>4. /\ UNCHANGED payout /\ worker'[w] = Free
        /\ \A v \in Workers : v # w => worker'[v] = worker[v]
    BY <1>8, GotoMoves DEF ConfirmOrder
  <2>5. \A d \in Deals : d # o => deal'[d] = deal[d] /\ entry'[d] = entry[d]
    BY <1>8 DEF ConfirmOrder, RecordOnce, EarningsTypeOK
  <2>6. deal'[o] = "settled"
    BY <1>8, <2>1 DEF ConfirmOrder, EarningsTypeOK
  <2>7. entry'[o] = [platform |-> Gross[o] - providerShare - brokerShare,
                     partner |-> providerShare + brokerShare]
    <3>1. RecordOnce(o, Gross[o] - providerShare - brokerShare, providerShare + brokerShare)
      BY <1>8 DEF ConfirmOrder
    <3> HIDE DEF o, providerShare, brokerShare
    <3> QED BY <3>1, <2>1, <2>3 DEF RecordOnce, EarningsTypeOK
  <2>8. commission' = [k \in Deals \X Payees |->
             IF k \in {o} \X Payees /\ commission[k] = NoRow
             THEN earned[k] ELSE commission[k]]
    BY <1>8 DEF ConfirmOrder
  <2> HIDE DEF o, providerShare, brokerShare, paid, earned
  <2>9. commission'[o, "provider"] = providerShare
    <3> DEFINE k == <<o, "provider">>
    <3>1. k \in Deals \X Payees /\ k \in {o} \X Payees /\ k[2] = "provider"
      BY <2>1 DEF Payees
    <3>2. commission[k] = NoRow
      BY <2>3 DEF Payees
    <3> HIDE DEF k
    <3>3. earned[k] = providerShare
      BY <3>1 DEF earned
    <3>4. commission'[k] = providerShare
      BY <3>1, <3>2, <3>3, <2>8
    <3> QED BY <3>4 DEF k
  <2>10. \A d \in Deals, payee \in Payees : d # o => commission'[d, payee] = commission[d, payee]
    BY <2>8
  <2>11. providerShare # NoRow /\ entry'[o] # NoRow
    BY <2>1, <2>2, <2>7, EarningsAssumption
  <2>12. PayoutsExist' BY <2>4, PayoutsKept DEF Free
  <2>13. LedgerMatches'
    <3>1. \A b \in Bookings :
            /\ b \in Deals /\ entry'[b] = entry[b]
            /\ commission'[b, "broker"] = commission[b, "broker"]
      BY <2>1, <2>5, <2>10 DEF Deals, Payees
    <3>2. \A p \in Policies :
            /\ p \in Deals /\ entry'[p] = entry[p]
            /\ commission'[p, "broker"] = commission[p, "broker"]
      BY <2>1, <2>5, <2>10 DEF Deals, Payees
    <3>3. \A q \in Orders : q # o =>
            /\ q \in Deals /\ entry'[q] = entry[q]
            /\ commission'[q, "broker"] = commission[q, "broker"]
            /\ commission'[q, "provider"] = commission[q, "provider"]
      BY <2>5, <2>10 DEF Deals, Payees
    <3>4. entry'[o].platform + entry'[o].partner = Gross[o]
      <4>1. /\ entry'[o].platform = Gross[o] - providerShare - brokerShare
            /\ entry'[o].partner = providerShare + brokerShare
        BY <2>7
      <4> QED BY <4>1, <2>1, <2>2
    <3>5. \A b \in Bookings : entry'[b] # NoRow =>
            commission'[b, "broker"] = entry'[b].partner /\ entry'[b].platform = 0
      BY <3>1 DEF LedgerMatches
    <3>6. \A d \in Orders \cup Policies : entry'[d] # NoRow =>
            entry'[d].platform + entry'[d].partner = Gross[d]
      BY <3>2, <3>3, <3>4 DEF LedgerMatches
    <3>7. \A q \in Orders :
            /\ commission'[q, "provider"] # NoRow <=> entry'[q] # NoRow
            /\ commission'[q, "broker"] # NoRow => entry'[q] # NoRow
      BY <3>3, <2>9, <2>11 DEF LedgerMatches
    <3>8. \A p \in Policies : commission'[p, "broker"] # NoRow => entry'[p] # NoRow
      BY <3>2 DEF LedgerMatches
    <3> QED BY <3>5, <3>6, <3>7, <3>8 DEF LedgerMatches
  <2>14. RecordsWhatStands'
    <3> SUFFICES ASSUME NEW v \in Workers, worker'[v].step = "record"
                 PROVE  Stands(v)'
      BY DEF RecordsWhatStands
    <3>1. v # w /\ worker'[v] = worker[v]
      BY <2>4 DEF Free
    <3>2. worker[v].deal \in Deals /\ worker[v].deal # o /\ "broker" \in Payees
      BY <3>1, <2>1, StepOfRequest DEF Deals, Payees
    <3> QED BY <3>1, <3>2, <2>10 DEF RecordsWhatStands, Stands
  <2>15. PendingUntouched'
    <3> SUFFICES ASSUME NEW d \in Orders \cup Policies, deal'[d] = "pending"
                 PROVE  entry'[d] = NoRow /\ \A payee \in Payees : commission'[d, payee] = NoRow
      BY DEF PendingUntouched
    <3>1. d # o /\ d \in Deals
      BY <2>6 DEF Deals
    <3>2. deal[d] = "pending" /\ entry'[d] = entry[d]
      BY <3>1, <2>5
    <3>3. entry[d] = NoRow /\ \A payee \in Payees : commission[d, payee] = NoRow
      BY <3>2 DEF PendingUntouched
    <3> QED BY <3>1, <3>2, <3>3, <2>10
  <2>16. LockedIsPending' /\ LockedOnce'
    <3>1. \A v \in Workers : worker[v].step = "confirm" /\ worker'[v] = worker[v] =>
            deal'[worker[v].deal] = deal[worker[v].deal]
      <4> SUFFICES ASSUME NEW v \in Workers, worker[v].step = "confirm", worker'[v] = worker[v]
                   PROVE  deal'[worker[v].deal] = deal[worker[v].deal]
        OBVIOUS
      <4>1. v # w
        BY <2>4 DEF Free
      <4>2. worker[v].deal # o
        BY <1>8, <4>1 DEF LockedOnce, ConfirmOrder, o
      <4>3. worker[v].deal \in Deals
        BY StepOfRequest DEF Deals
      <4> QED BY <4>2, <4>3, <2>5
    <3> QED BY <3>1, <2>4, LocksHeld DEF Free
  <2> QED BY <2>12, <2>13, <2>14, <2>15, <2>16
<1>9. ASSUME NEW w \in Workers, NEW p \in Policies, IssuePolicy(w, p) PROVE Kept
  <2> DEFINE earned == Share(Gross[p], RateOf("broker"))
             platform == Share(Gross[p], RateOf("insurance"))
  <2>1. /\ p \in Deals /\ p \notin Bookings /\ p \notin Orders /\ Gross[p] \in Int
        /\ "broker" \in Payees
    BY EarningsAssumption DEF Deals, Payees
  <2>2. earned \in Int /\ platform \in Int
    BY <2>1, SharesOfDeals DEF Scopes
  <2>3. deal[p] = "pending" /\ entry[p] = NoRow /\ UNCHANGED <<payout, worker>>
    BY <1>9 DEF IssuePolicy, PendingUntouched
  <2>4. /\ \A d \in Deals : d # p => deal'[d] = deal[d]
        /\ deal'[p] = "settled"
    BY <1>9, <2>1 DEF IssuePolicy, EarningsTypeOK
  <2>5. /\ \A d \in Deals : d # p => entry'[d] = entry[d]
        /\ entry'[p] = [platform |-> platform, partner |-> Gross[p] - platform]
    <3>1. RecordOnce(p, platform, Gross[p] - platform)
      BY <1>9 DEF IssuePolicy
    <3> HIDE DEF platform
    <3> QED BY <3>1, <2>1, <2>3 DEF RecordOnce, EarningsTypeOK
  <2>6. \A d \in Deals, payee \in Payees : d # p => commission'[d, payee] = commission[d, payee]
    <3>1. CreateOnce(p, "broker", earned) \/ UNCHANGED commission
      BY <1>9 DEF IssuePolicy
    <3> HIDE DEF earned
    <3> QED BY <3>1 DEF CreateOnce, EarningsTypeOK
  <2> HIDE DEF earned, platform
  <2>7. PayoutsExist' BY <2>3, PayoutsKept
  <2>8. LedgerMatches'
    <3>1. \A d \in Bookings \cup Orders :
            /\ d \in Deals /\ d # p /\ entry'[d] = entry[d]
            /\ commission'[d, "broker"] = commission[d, "broker"]
            /\ commission'[d, "provider"] = commission[d, "provider"]
      BY <2>1, <2>5, <2>6 DEF Deals, Payees
    <3>2. \A q \in Policies : q # p =>
            /\ q \in Deals /\ entry'[q] = entry[q]
            /\ commission'[q, "broker"] = commission[q, "broker"]
      BY <2>5, <2>6 DEF Deals, Payees
    <3>3. entry'[p] # NoRow /\ entry'[p].platform + entry'[p].partner = Gross[p]
      <4>1. entry'[p] # NoRow
        BY <2>1, <2>2, <2>5, EarningsAssumption
      <4>2. entry'[p].platform = platform /\ entry'[p].partner = Gross[p] - platform
        BY <2>5
      <4> QED BY <4>1, <4>2, <2>1, <2>2
    <3>4. \A b \in Bookings : entry'[b] # NoRow =>
            commission'[b, "broker"] = entry'[b].partner /\ entry'[b].platform = 0
      BY <3>1 DEF LedgerMatches
    <3>5. \A d \in Orders \cup Policies : entry'[d] # NoRow =>
            entry'[d].platform + entry'[d].partner = Gross[d]
      BY <3>1, <3>2, <3>3 DEF LedgerMatches
    <3>6. \A o \in Orders :
            /\ commission'[o, "provider"] # NoRow <=> entry'[o] # NoRow
            /\ commission'[o, "broker"] # NoRow => entry'[o] # NoRow
      BY <3>1 DEF LedgerMatches
    <3>7. \A q \in Policies : commission'[q, "broker"] # NoRow => entry'[q] # NoRow
      BY <3>2, <3>3 DEF LedgerMatches
    <3> QED BY <3>4, <3>5, <3>6, <3>7 DEF LedgerMatches
  <2>9. RecordsWhatStands'
    <3> SUFFICES ASSUME NEW v \in Workers, worker[v].step = "record"
                 PROVE  Stands(v)'
      BY <2>3 DEF RecordsWhatStands
    <3>1. worker[v].deal \in Deals /\ worker[v].deal # p
      BY <2>1, StepOfRequest DEF Deals
    <3> QED BY <3>1, <2>1, <2>3, <2>6 DEF RecordsWhatStands, Stands
  <2>10. PendingUntouched'
    <3> SUFFICES ASSUME NEW d \in Orders \cup Policies, deal'[d] = "pending"
                 PROVE  entry'[d] = NoRow /\ \A payee \in Payees : commission'[d, payee] = NoRow
      BY DEF PendingUntouched
    <3>1. d # p /\ d \in Deals
      BY <2>4 DEF Deals
    <3> QED BY <3>1, <2>4, <2>5, <2>6 DEF PendingUntouched
  <2>11. LockedIsPending' /\ LockedOnce'
    <3>1. \A v \in Workers : worker[v].step = "confirm" =>
            worker[v].deal \in Deals /\ worker[v].deal # p
      BY <2>1, StepOfRequest DEF Deals
    <3> QED BY <3>1, <2>3, <2>4, LocksHeld
  <2> QED BY <2>7, <2>8, <2>9, <2>10, <2>11
<1>10. ASSUME NEW w \in Workers, NEW d \in Orders \cup Policies, Cancel(w, d) PROVE Kept
  <2>1. /\ UNCHANGED <<deal, commission, entry, payout>>
        /\ worker'[w] = At("cancel", d) /\ \A v \in Workers : v # w => worker'[v] = worker[v]
    BY <1>10, GotoMoves DEF Cancel
  <2>2. PayoutsExist' BY <2>1, PayoutsKept DEF At
  <2>3. LedgerMatches' /\ RecordsWhatStands' /\ PendingUntouched'
    BY <2>1, BooksUntouched DEF At
  <2>4. LockedIsPending' /\ LockedOnce' BY <2>1, LocksHeld DEF At
  <2> QED BY <2>2, <2>3, <2>4
<1>11. ASSUME NEW w \in Workers, SaveCancel(w) PROVE Kept
  <2> DEFINE d == worker[w].deal
  <2>1. /\ UNCHANGED <<commission, entry, payout>> /\ deal' = [deal EXCEPT ![d] = "canceled"]
        /\ Unlocked(d) /\ worker'[w] = Free
        /\ \A v \in Workers : v # w => worker'[v] = worker[v]
    BY <1>11, GotoMoves DEF SaveCancel
  <2> HIDE DEF d
  <2>2. \A c \in Orders \cup Policies : deal'[c] = "pending" => deal[c] = "pending"
    BY <2>1 DEF EarningsTypeOK, Deals
  <2>3. \A v \in Workers : worker[v].step = "confirm" =>
          deal'[worker[v].deal] = deal[worker[v].deal]
    BY <2>1 DEF Unlocked, EarningsTypeOK
  <2>4. PayoutsExist' BY <2>1, PayoutsKept DEF Free
  <2>5. LedgerMatches' /\ RecordsWhatStands' /\ PendingUntouched'
    BY <2>1, <2>2, BooksUntouched DEF Free
  <2>6. LockedIsPending' /\ LockedOnce' BY <2>1, <2>3, LocksHeld DEF Free
  <2> QED BY <2>4, <2>5, <2>6
<1>12. ASSUME NEW w \in Workers, NEW amount \in Amounts, Withdraw(w, amount) PROVE Kept
  <2>1. /\ UNCHANGED <<deal, commission, entry, payout>>
        /\ worker'[w] = Asking(amount) /\ \A v \in Workers : v # w => worker'[v] = worker[v]
    BY <1>12, GotoMoves DEF Withdraw
  <2>2. PayoutsExist' BY <2>1, PayoutsKept DEF Asking
  <2>3. LedgerMatches' /\ RecordsWhatStands' /\ PendingUntouched'
    BY <2>1, BooksUntouched DEF Asking
  <2>4. LockedIsPending' /\ LockedOnce' BY <2>1, LocksHeld DEF Asking
  <2> QED BY <2>2, <2>3, <2>4
<1>13. ASSUME NEW w \in Workers, NEW p \in Payouts, InsertPayout(w, p) PROVE Kept
  <2> DEFINE row == [amount |-> worker[w].amount, status |-> "pending"]
  <2>1. /\ UNCHANGED <<deal, commission, entry>> /\ payout' = [payout EXCEPT ![p] = row]
        /\ worker'[w] = Free /\ \A v \in Workers : v # w => worker'[v] = worker[v]
        /\ worker[w].amount \in Nat
    BY <1>13, GotoMoves, StepOfRequest DEF InsertPayout
  <2>2. row # NoRow
    BY <2>1, EarningsAssumption
  <2>3. PayoutsExist'
    <3>1. \A q \in Payouts : payout[q] # NoRow => payout'[q] # NoRow
      BY <2>1, <2>2 DEF EarningsTypeOK
    <3> QED BY <3>1, <2>1, PayoutsKept DEF Free
  <2>4. LedgerMatches' /\ RecordsWhatStands' /\ PendingUntouched'
    BY <2>1, BooksUntouched DEF Free
  <2>5. LockedIsPending' /\ LockedOnce' BY <2>1, LocksHeld DEF Free
  <2> QED BY <2>3, <2>4, <2>5
<1>14. ASSUME NEW w \in Workers, NEW p \in Payouts, Decide(w, p) PROVE Kept
  <2>1. PICK status : Goto(w, Deciding(p, status))
    BY <1>14 DEF Decide
  <2>2. /\ UNCHANGED <<deal, commission, entry, payout>> /\ payout[p] # NoRow
        /\ worker'[w] = Deciding(p, status)
        /\ \A v \in Workers : v # w => worker'[v] = worker[v]
    BY <1>14, <2>1, GotoMoves DEF Decide
  <2>3. PayoutsExist' BY <2>2, PayoutsKept DEF Deciding
  <2>4. LedgerMatches' /\ RecordsWhatStands' /\ PendingUntouched'
    BY <2>2, BooksUntouched DEF Deciding
  <2>5. LockedIsPending' /\ LockedOnce' BY <2>2, LocksHeld DEF Deciding
  <2> QED BY <2>3, <2>4, <2>5
<1>15. ASSUME NEW w \in Workers, SaveDecision(w) PROVE Kept
  <2> DEFINE p == worker[w].payout
             status == worker[w].status
  <2>1. /\ UNCHANGED <<deal, commission, entry>>
        /\ payout' = [payout EXCEPT ![p].status = status]
        /\ worker'[w] = Free /\ \A v \in Workers : v # w => worker'[v] = worker[v]
    BY <1>15, GotoMoves DEF SaveDecision
  <2>2. p \in Payouts /\ status \in {"approved", "rejected", "paid"} /\ payout[p] # NoRow
    BY <1>15, StepOfRequest DEF SaveDecision, PayoutsExist
  <2> HIDE DEF p, status
  <2>3. payout'[p] # NoRow
    <3>1. payout[p] \in [amount: Nat, status: {"pending", "approved", "rejected", "paid"}]
      BY <2>2 DEF EarningsTypeOK
    <3>2. payout'[p] = [payout[p] EXCEPT !.status = status]
      BY <2>1, <2>2 DEF EarningsTypeOK
    <3>3. payout'[p] \in [amount: Nat, status: {"pending", "approved", "rejected", "paid"}]
      BY <2>2, <3>1, <3>2
    <3> QED BY <3>3, EarningsAssumption
  <2>4. \A q \in Payouts : payout[q] # NoRow => payout'[q] # NoRow
    BY <2>1, <2>2, <2>3 DEF EarningsTypeOK
  <2>5. PayoutsExist' BY <2>1, <2>4, PayoutsKept DEF Free
  <2>6. LedgerMatches' /\ RecordsWhatStands' /\ PendingUntouched'
    BY <2>1, BooksUntouched DEF Free
  <2>7. LockedIsPending' /\ LockedOnce' BY <2>1, LocksHeld DEF Free
  <2> QED BY <2>5, <2>6, <2>7
<1>16. ASSUME NEW scope \in Ruled, NEW rate \in Rates, SetRule(scope, rate) PROVE Kept
  <2>1. UNCHANGED <<deal, commission, entry, payout, worker>>
    BY <1>16 DEF SetRule
  <2>2. PayoutsExist' BY <2>1, PayoutsKept
  <2>3. LedgerMatches' /\ RecordsWhatStands' /\ PendingUntouched' BY <2>1, BooksUntouched
  <2>4. LockedIsPending' /\ LockedOnce' BY <2>1, LocksHeld
  <2> QED BY <2>2, <2>3, <2>4
<1>17. ASSUME NEW w \in Workers, Die(w) PROVE Kept
  <2>1. /\ UNCHANGED <<deal, commission, entry, payout>>
        /\ worker'[w] = Free /\ \A v \in Workers : v # w => worker'[v] = worker[v]
    BY <1>17, GotoMoves DEF Die
  <2>2. PayoutsExist' BY <2>1, PayoutsKept DEF Free
  <2>3. LedgerMatches' /\ RecordsWhatStands' /\ PendingUntouched'
    BY <2>1, BooksUntouched DEF Free
  <2>4. LockedIsPending' /\ LockedOnce' BY <2>1, LocksHeld DEF Free
  <2> QED BY <2>2, <2>3, <2>4
<1> QED BY <1>0, <1>1, <1>2, <1>3, <1>4, <1>5, <1>6, <1>7, <1>8, <1>9, <1>10, <1>11,
          <1>12, <1>13, <1>14, <1>15, <1>16, <1>17
       DEF EarningsNext, Trade, Serve

-----------------------------------------------------------------------------
LEMMA InitBooks ==
  EarningsInit => BooksInv
<1> SUFFICES ASSUME EarningsInit PROVE BooksInv
  OBVIOUS
<1>1. /\ \A d \in Deals : entry[d] = NoRow
      /\ \A k \in Deals \X Payees : commission[k] = NoRow
      /\ \A w \in Workers : worker[w].step = "free"
  BY DEF EarningsInit, Free
<1>2. \A d \in Deals, payee \in Payees : commission[d, payee] = NoRow
  BY <1>1
<1>3. LedgerMatches
  BY <1>1, <1>2 DEF LedgerMatches, Deals, Payees
<1>4. PendingUntouched
  BY <1>1, <1>2 DEF PendingUntouched, Deals
<1>5. PayoutsExist /\ RecordsWhatStands /\ LockedIsPending /\ LockedOnce
  BY <1>1 DEF PayoutsExist, RecordsWhatStands, LockedIsPending, LockedOnce
<1> QED BY <1>3, <1>4, <1>5, InitTyped DEF BooksInv

LEMMA BooksAlways ==
  EarningsSpec => []BooksInv
BY InitBooks, StepKeepsBooks, PTL DEF EarningsSpec

(* Every variable of the ledger, the payouts and the requests holds a value *)
(* of its kind.                                                             *)
THEOREM EarningsTyped ==
  EarningsSpec => []EarningsTypeOK
<1>1. BooksInv => EarningsTypeOK
  BY DEF BooksInv
<1> QED BY <1>1, BooksAlways, PTL

(* However approvals, confirmations and rate changes interleave, a booking  *)
(* is entered with the commission its broker has, and the two shares of an  *)
(* order or policy make up its price.                                       *)
THEOREM LedgerIsRight ==
  EarningsSpec => []LedgerMatches
<1>1. BooksInv => LedgerMatches
  BY DEF BooksInv
<1> QED BY <1>1, BooksAlways, PTL

-----------------------------------------------------------------------------
(* create_commission, and the two transactions that use it, never touch a   *)
(* row that is there.                                                       *)
Overwrites == \E k \in Deals \X Payees : commission[k] # NoRow /\ commission'[k] # commission[k]

LEMMA CreateKeeps ==
  ASSUME EarningsTypeOK, NEW d, NEW payee, NEW amount, CreateOnce(d, payee, amount)
  PROVE  ~Overwrites
BY DEF EarningsTypeOK, CreateOnce, Overwrites

LEMMA StepKeepsCommissions ==
  BooksInv /\ [EarningsNext]_earningVars =>
    \A k \in Deals \X Payees : commission[k] # NoRow => commission'[k] = commission[k]
<1> SUFFICES ASSUME BooksInv, [EarningsNext]_earningVars PROVE ~Overwrites
  BY DEF Overwrites
<1>0. EarningsTypeOK
  BY DEF BooksInv
<1>1. UNCHANGED commission => ~Overwrites
  BY DEF Overwrites
<1>2. ASSUME NEW w \in Workers, CreateCommission(w) PROVE ~Overwrites
  BY <1>0, <1>2, CreateKeeps DEF CreateCommission
<1>3. ASSUME NEW w \in Workers, NEW p \in Policies, IssuePolicy(w, p) PROVE ~Overwrites
  BY <1>0, <1>1, <1>3, CreateKeeps DEF IssuePolicy
<1>4. ASSUME NEW w \in Workers, ConfirmOrder(w) PROVE ~Overwrites
  <2> DEFINE mine == {worker[w].deal} \X Payees
             earned == [k \in mine |->
                          IF k[2] = "provider" THEN Share(Gross[worker[w].deal], worker[w].rate)
                          ELSE IF worker[w].amount = NoRow THEN NoRow
                          ELSE Share(Gross[worker[w].deal], RateOf("broker"))]
  <2>1. commission' = [k \in Deals \X Payees |->
          IF k \in mine /\ commission[k] = NoRow THEN earned[k] ELSE commission[k]]
    BY <1>4 DEF ConfirmOrder
  <2> HIDE DEF mine, earned
  <2> QED BY <2>1 DEF Overwrites
<1>5. \/ UNCHANGED commission
      \/ \E w \in Workers : CreateCommission(w) \/ ConfirmOrder(w)
      \/ \E w \in Workers, p \in Policies : IssuePolicy(w, p)
  BY DEF EarningsNext, Trade, Serve, earningVars, Approve, SaveApproval, Unapprove,
         FindCommission, RecordEntry, LockOrder, Cancel, SaveCancel, Withdraw,
         InsertPayout, Decide, SaveDecision, SetRule, Die
<1> QED BY <1>1, <1>2, <1>3, <1>4, <1>5

(* "Creates a commission exactly once", whatever races and retries.         *)
THEOREM CommissionsStay ==
  EarningsSpec => CommissionsKeep
<1>1. BooksInv /\ [EarningsNext]_earningVars =>
        [\A k \in Deals \X Payees : commission[k] # NoRow =>
           commission'[k] = commission[k]]_earningVars
  BY StepKeepsCommissions
<1> QED BY <1>1, BooksAlways, PTL DEF EarningsSpec, CommissionsKeep
-----------------------------------------------------------------------------
(* What locks would give.  A cancel that is about to be saved is of a deal  *)
(* that still is pending, a decision one that its payout still allows.      *)
CancelsFresh ==
  \A w \in Workers : worker[w].step = "cancel" => deal[worker[w].deal] = "pending"
DecisionsFresh ==
  \A w \in Workers : worker[w].step = "decide" =>
    worker[w].status \in DecisionsOn(payout[worker[w].payout].status)

(* All that happens to an order or a policy: nothing, it is settled from    *)
(* pending, or a cancel is saved over whatever it is.                       *)
NoMoney(d) == entry[d] = NoRow /\ \A payee \in Payees : commission[d, payee] = NoRow
MoneyUntouched(d) ==
  entry'[d] = entry[d] /\ \A payee \in Payees : commission'[d, payee] = commission[d, payee]
DealMoves(d) ==
  \/ deal'[d] = deal[d] /\ MoneyUntouched(d)
  \/ deal[d] = "pending" /\ deal'[d] = "settled"
  \/ /\ \E w \in Workers : worker[w].step = "cancel" /\ worker[w].deal = d
     /\ deal'[d] = "canceled" /\ MoneyUntouched(d)

LEMMA DealStep ==
  ASSUME BooksInv, [EarningsNext]_earningVars
  PROVE  \A d \in Orders \cup Policies : DealMoves(d)
<1> DEFINE Sold == Orders \cup Policies
           Moved == \A d \in Sold : DealMoves(d)
<1> /\ EarningsTypeOK /\ LockedIsPending
  BY DEF BooksInv
<1>1. \A d \in Sold : d \in Deals /\ d \notin Bookings
  BY EarningsAssumption DEF Deals
<1>2. ASSUME UNCHANGED <<deal, commission, entry>> PROVE Moved
  BY <1>2 DEF DealMoves, MoneyUntouched
<1>3. ASSUME NEW w \in Workers, SaveApproval(w) PROVE Moved
  <2>1. worker[w].deal \in Bookings
    BY <1>3, StepOfRequest DEF SaveApproval
  <2> QED
    BY <1>1, <1>3, <2>1 DEF SaveApproval, DealMoves, MoneyUntouched, EarningsTypeOK
<1>4. ASSUME NEW b \in Bookings, Unapprove(b) PROVE Moved
  BY <1>1, <1>4 DEF Unapprove, DealMoves, MoneyUntouched, EarningsTypeOK
<1>5. ASSUME NEW w \in Workers, CreateCommission(w) PROVE Moved
  <2>1. worker[w].deal \in Bookings
    BY <1>5, StepOfRequest DEF CreateCommission
  <2>2. \A d \in Sold, payee \in Payees : commission'[d, payee] = commission[d, payee]
    BY <1>1, <1>5, <2>1 DEF CreateCommission, CreateOnce, EarningsTypeOK
  <2> QED
    BY <1>5, <2>2 DEF CreateCommission, DealMoves, MoneyUntouched
<1>6. ASSUME NEW w \in Workers, RecordEntry(w) PROVE Moved
  <2>1. worker[w].deal \in Bookings
    BY <1>6, StepOfRequest DEF RecordEntry
  <2>2. \A d \in Sold : entry'[d] = entry[d]
    BY <1>1, <1>6, <2>1 DEF RecordEntry, RecordOnce, EarningsTypeOK
  <2> QED
    BY <1>6, <2>2 DEF RecordEntry, DealMoves, MoneyUntouched
<1>7. ASSUME NEW w \in Workers, ConfirmOrder(w) PROVE Moved
  <2>1. PICK o \in Orders : o = worker[w].deal
    BY <1>7, StepOfRequest DEF ConfirmOrder
  <2>2. deal[o] = "pending" /\ deal' = [deal EXCEPT ![o] = "settled"]
    BY <1>7, <2>1 DEF ConfirmOrder, LockedIsPending
  <2>3. \A d \in Sold \ {o} : entry'[d] = entry[d]
    BY <1>1, <1>7, <2>1 DEF ConfirmOrder, RecordOnce, EarningsTypeOK
  <2>4. \A d \in Sold \ {o}, payee \in Payees : commission'[d, payee] = commission[d, payee]
    BY <1>1, <1>7, <2>1 DEF ConfirmOrder
  <2> QED
    BY <1>1, <2>2, <2>3, <2>4 DEF DealMoves, MoneyUntouched, EarningsTypeOK
<1>8. ASSUME NEW w \in Workers, NEW p \in Policies, IssuePolicy(w, p) PROVE Moved
  <2>1. deal[p] = "pending" /\ deal' = [deal EXCEPT ![p] = "settled"]
    BY <1>8 DEF IssuePolicy
  <2>2. \A d \in Sold \ {p} : entry'[d] = entry[d]
    BY <1>1, <1>8 DEF IssuePolicy, RecordOnce, EarningsTypeOK
  <2>3. \A d \in Sold \ {p}, payee \in Payees : commission'[d, payee] = commission[d, payee]
    BY <1>1, <1>8 DEF IssuePolicy, CreateOnce, EarningsTypeOK
  <2> QED
    BY <1>1, <2>1, <2>2, <2>3 DEF DealMoves, MoneyUntouched, EarningsTypeOK
<1>9. ASSUME NEW w \in Workers, SaveCancel(w) PROVE Moved
  BY <1>1, <1>9 DEF SaveCancel, DealMoves, MoneyUntouched, EarningsTypeOK
<1> HIDE DEF Moved
<1> QED
  BY <1>2, <1>3, <1>4, <1>5, <1>6, <1>7, <1>8, <1>9
  DEF EarningsNext, Trade, Serve, Approve, FindCommission, LockOrder, Cancel, Withdraw,
      InsertPayout, Decide, SaveDecision, SetRule, Die, earningVars, Moved

CanceledUntouched == \A d \in Orders \cup Policies : deal[d] = "canceled" => NoMoney(d)

(* Were a cancel decided on the row it saves, a canceled order would owe    *)
(* nobody anything, whatever is confirmed, canceled or lost beside it.      *)
THEOREM CanceledOwesNothingWhenFresh ==
  EarningsSpec /\ []CancelsFresh => []CanceledOwesNothing
<1>1. EarningsInit => CanceledUntouched
  BY DEF EarningsInit, CanceledUntouched, Deals
<1>2. ASSUME BooksInv, CancelsFresh, CanceledUntouched, [EarningsNext]_earningVars
      PROVE  CanceledUntouched'
  <2> SUFFICES ASSUME NEW d \in Orders \cup Policies, deal'[d] = "canceled"
               PROVE  NoMoney(d)'
    BY DEF CanceledUntouched
  <2>1. MoneyUntouched(d) /\ deal[d] \in {"pending", "canceled"}
    BY <1>2, DealStep DEF DealMoves, CancelsFresh
  <2>2. NoMoney(d)
    BY <1>2, <2>1 DEF CanceledUntouched, BooksInv, PendingUntouched, NoMoney
  <2> QED
    BY <2>1, <2>2 DEF NoMoney, MoneyUntouched
<1>3. CanceledUntouched => CanceledOwesNothing
  BY DEF CanceledUntouched, CanceledOwesNothing, NoMoney, Payees
<1> QED
  BY <1>1, <1>2, <1>3, BooksAlways, PTL DEF EarningsSpec

(* Were decisions on a payout made on the row they save, one that was paid  *)
(* would stay paid.                                                         *)
THEOREM PaidStaysPaidWhenFresh ==
  EarningsSpec /\ []DecisionsFresh => PaidStaysPaid
<1> DEFINE Stays == \A p \in Payouts : payout[p] # NoRow /\ payout[p].status = "paid" =>
                      payout'[p].status = "paid"
<1>1. ASSUME BooksInv, DecisionsFresh, [EarningsNext]_earningVars
      PROVE  Stays
  <2> /\ EarningsTypeOK
    BY <1>1 DEF BooksInv
  <2>1. ASSUME NEW w \in Workers, NEW p \in Payouts, InsertPayout(w, p) PROVE Stays
    BY <2>1 DEF InsertPayout, EarningsTypeOK
  <2>2. ASSUME NEW w \in Workers, SaveDecision(w) PROVE Stays
    <3>1. PICK p \in Payouts : p = worker[w].payout
      BY <2>2, StepOfRequest DEF SaveDecision
    <3>2. payout[p].status # "paid"
      BY <1>1, <2>2, <3>1 DEF SaveDecision, DecisionsFresh, DecisionsOn
    <3>3. \A q \in Payouts \ {p} : payout'[q] = payout[q]
      BY <2>2, <3>1 DEF SaveDecision, EarningsTypeOK
    <3> QED
      BY <3>2, <3>3
  <2>3. ASSUME UNCHANGED payout PROVE Stays
    BY <2>3
  <2> HIDE DEF Stays
  <2> QED
    BY <1>1, <2>1, <2>2, <2>3
    DEF EarningsNext, Trade, Serve, Approve, SaveApproval, Unapprove, FindCommission,
        CreateCommission, RecordEntry, LockOrder, ConfirmOrder, IssuePolicy, Cancel, SaveCancel,
        Withdraw, Decide, SetRule, Die, earningVars
<1> HIDE DEF Stays
<1>2. BooksInv /\ DecisionsFresh /\ [EarningsNext]_earningVars => Stays
  BY <1>1
<1>3. EarningsSpec /\ []DecisionsFresh => [][Stays]_earningVars
  BY <1>2, BooksAlways, PTL DEF EarningsSpec
<1> QED
  BY <1>3 DEF Stays, PaidStaysPaid
=============================================================================
