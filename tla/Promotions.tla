------------------------------ MODULE Promotions ------------------------------
(***************************************************************************)
(* The paid tier of one listing: bought through ListingTierUpgradeInitiate- *)
(* View, granted by the settlement of the payment (payments/views.py), and  *)
(* taken back by the daily expire_listing_tiers (rooms/services.py), beside *)
(* edits of the listing that save the whole row.  Which checkout settles a  *)
(* payment is in Payments.  Time is counted in days.                        *)
(***************************************************************************)
EXTENDS Naturals

CONSTANTS
  Purchases, \* listing payments
  Editing,   \* requests that edit the listing
  TierDays   \* settings.LISTING_TIER_DURATION_DAYS

ASSUME PromotionsAssumption == TierDays \in Nat \ {0}

VARIABLES
  promo,    \* tier of the room and days until tier_expires_at
  purchase, \* what each payment buys, its status, whether its session is opening
  expiry,   \* where the expiry task is
  mailable, \* whether the mails about the listings that are due can be built
  draft     \* the copy each edit is about to save

promoVars == <<promo, purchase, expiry, mailable, draft>>

Rank == [free |-> 0, featured |-> 1, premium |-> 2]
Tiers == DOMAIN Rank
Promo(tier, days) == [tier |-> tier, days |-> days]
Promos == [tier: Tiers, days: 0 .. TierDays] \* 0: the day has come, or none is set
FreeTier == Promo("free", 0)
Purchase(tier, status, opening) == [tier |-> tier, status |-> status, opening |-> opening]
NoPurchase == Purchase("free", "none", FALSE)
NoDraft == [tier |-> "none"]

PromotionsInit ==
  /\ promo = FreeTier
  /\ purchase = [p \in Purchases |-> NoPurchase]
  /\ expiry = "waiting"
  /\ mailable \in BOOLEAN
  /\ draft = [e \in Editing |-> NoDraft]

-----------------------------------------------------------------------------
(* The view, the room locked: no lower tier, and not the one that runs.     *)
Initiate(p, tier) ==
  /\ purchase[p] = NoPurchase
  /\ Rank[tier] >= Rank[promo.tier]
  /\ ~(promo.tier = tier /\ promo.days > 0)
  /\ purchase' = [purchase EXCEPT ![p] = Purchase(tier, "initiated", TRUE)]
  /\ UNCHANGED <<promo, expiry, mailable, draft>>

(* The gateway has opened a session, or refused: its status is saved, over   *)
(* what was made of the payment meanwhile.                                  *)
SaveOpened(p, new) ==
  /\ purchase[p].opening
  /\ new \in {"pending", "failed"}
  /\ purchase' = [purchase EXCEPT ![p] = Purchase(purchase[p].tier, new, FALSE)]
  /\ UNCHANGED <<promo, expiry, mailable, draft>>

(* The fail and cancel callbacks, and a success callback that is refused.   *)
Unpaid(p) == purchase[p].status \in {"initiated", "pending"}
FailPurchase(p) ==
  /\ Unpaid(p)
  /\ purchase' = [purchase EXCEPT ![p].status = "failed"]
  /\ UNCHANGED <<promo, expiry, mailable, draft>>

(* The side effects of a settled listing payment.                           *)
Grant(p) ==
  /\ Unpaid(p)
  /\ purchase' = [purchase EXCEPT ![p].status = "success"]
  /\ promo' = Promo(purchase[p].tier, TierDays)
  /\ UNCHANGED <<expiry, mailable, draft>>

-----------------------------------------------------------------------------
(* expire_listing_tiers reads the rooms that are due and mails their owners *)
Bug_ScanFeatured == \* premium listings are not looked at
  /\ expiry = "waiting"
  /\ promo.tier = "featured" /\ promo.days = 0
  /\ expiry' = "mailing"
  /\ UNCHANGED <<promo, purchase, mailable, draft>>
ScanExpired ==
  /\ expiry = "waiting"
  /\ promo.tier # "free" /\ promo.days = 0
  /\ expiry' = "mailing"
  /\ UNCHANGED <<promo, purchase, mailable, draft>>

(* ... then, every mail built, updates those rows by their keys.  Whether   *)
(* the server takes a mail does not matter.                                 *)
Revert ==
  /\ expiry = "mailing" /\ mailable
  /\ expiry' = "waiting"
  /\ promo' = FreeTier
  /\ UNCHANGED <<purchase, mailable, draft>>

(* The task dies among its mails, at the latest of one it cannot build.      *)
ExpiryLost ==
  /\ expiry = "mailing"
  /\ expiry' = "waiting"
  /\ UNCHANGED <<promo, purchase, mailable, draft>>

(* The title of a due listing or the address of its owner changes.          *)
MailsChange ==
  /\ mailable' = ~mailable
  /\ UNCHANGED <<promo, purchase, expiry, draft>>

-----------------------------------------------------------------------------
(* RoomSerializer.update: the row is read, and saved with all its columns.  *)
OpenDraft(e) ==
  /\ draft[e] = NoDraft
  /\ draft' = [draft EXCEPT ![e] = promo]
  /\ UNCHANGED <<promo, purchase, expiry, mailable>>

SaveDraft(e) ==
  /\ draft[e] # NoDraft
  /\ promo' = draft[e]
  /\ draft' = [draft EXCEPT ![e] = NoDraft]
  /\ UNCHANGED <<purchase, expiry, mailable>>

Older(p) == [p EXCEPT !.days = IF @ > 0 THEN @ - 1 ELSE @]
PassDay ==
  /\ promo' = Older(promo)
  /\ draft' = [e \in Editing |-> IF draft[e] = NoDraft THEN NoDraft ELSE Older(draft[e])]
  /\ UNCHANGED <<purchase, expiry, mailable>>

PromotionsNext ==
  \/ \E p \in Purchases :
       \/ \E tier \in Tiers \ {"free"} : Initiate(p, tier)
       \/ \E new \in {"pending", "failed"} : SaveOpened(p, new)
       \/ FailPurchase(p) \/ Grant(p)
  \/ ScanExpired \/ Revert \/ ExpiryLost \/ MailsChange
  \/ \E e \in Editing : OpenDraft(e) \/ SaveDraft(e)
  \/ PassDay

PromotionsSpec == PromotionsInit /\ [][PromotionsNext]_promoVars

(* The task is scheduled daily, and does not die every day if its mails can *)
(* be built.                                                                *)
PromotionsFairness == WF_promoVars(ScanExpired) /\ SF_promoVars(Revert)

PromotionsFairSpec == PromotionsSpec /\ PromotionsFairness

-----------------------------------------------------------------------------
(* Every variable holds a value of its kind.                                *)
PromotionsTypeOK ==
  /\ promo \in Promos
  /\ purchase \in [Purchases -> [tier: Tiers,
       status: {"none", "initiated", "pending", "success", "failed"}, opening: BOOLEAN]]
  /\ expiry \in {"waiting", "mailing"}
  /\ mailable \in BOOLEAN
  /\ draft \in [Editing -> Promos \cup {NoDraft}]

(* A tier whose days are over is taken back if from some day on the mails   *)
(* of the listings that are due can be built, though the task may die before *)
(* it writes and an edit may save the expired tier once more - unless it is *)
(* bought again.                                                            *)
TiersLapse ==
  <>[]mailable =>
    (promo.tier # "free" /\ promo.days = 0 ~> promo.tier = "free" \/ promo.days > 0)

(* Not true: the rollback "happens regardless" (rooms/services.py:16-17).   *)
LapseRegardless ==
  promo.tier # "free" /\ promo.days = 0 ~> promo.tier = "free" \/ promo.days > 0

(* Not true: what is left of a paid promotion only runs out.                *)
PaidDaysKept ==
  [][promo.days > 1 => promo'.days >= promo.days - 1]_promoVars

(* Not true: no two payments for one promotion are collected.               *)
NoSecondCharge ==
  \A p, q \in Purchases :
    p # q /\ purchase[p].status = "pending" /\ purchase[q].status = "pending" =>
      purchase[p].tier # purchase[q].tier
=============================================================================
