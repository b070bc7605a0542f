-------------------------------- MODULE Offices --------------------------------
(* Nine parts of the back end that read nothing the others write: AI        *)
(* agents, payment plans, partners' earnings, the listing autopilot,        *)
(* presence, promotions (the content and the tier of a listing are columns  *)
(* of one row, and the save of that whole row is in both modules), AI       *)
(* alerts, evaluation runs and disputes.  So one of them is at work in a    *)
(* behaviour and the others stay where they began; earnings are run for one *)
(* kind of deal at a time.                                                  *)
EXTENDS AgentRuns, Leases, Earnings, Autopilot, Presence, Promotions,
        Alerts, EvaluationRuns, Disputes

VARIABLE desk \* what is at work

Trades == [bookings |-> Bookings, orders |-> Orders, policies |-> Policies]
Desks ==
  {"agents", "leases", "autopilot", "presence", "promotions", "alerts", "evaluations", "disputes"}
    \cup DOMAIN Trades

(* What does not move begins in one way only.                               *)
SomeLease == CHOOSE l \in [in: CheckIns, out: CheckOuts] : TRUE
SomeRule == CHOOSE rates \in [Ruled -> Rates] : TRUE
SomeText == CHOOSE text \in [Fields -> Texts] : \A f, g \in Fields : text[f] = text[g]

OfficesInit ==
  /\ desk \in Desks
  /\ Init /\ EarningsInit /\ AutopilotInit /\ PresenceInit /\ PromotionsInit /\ LeasesInit
  /\ AlertsInit /\ EvaluationsInit /\ DisputesInit
  /\ desk # "leases" => lease = SomeLease
  /\ desk \notin DOMAIN Trades => rule = SomeRule
  /\ desk # "alerts" => ~breaching
  /\ desk # "autopilot" => listing.text = SomeText
  /\ desk # "promotions" => mailable

(* Nothing moves but what the desk is about.                                *)
Elsewhere ==
  /\ UNCHANGED desk
  /\ desk # "agents" => UNCHANGED vars
  /\ desk # "leases" => UNCHANGED leaseVars
  /\ desk \notin DOMAIN Trades => UNCHANGED earningVars
  /\ desk # "autopilot" => UNCHANGED autopilotVars
  /\ desk # "presence" => UNCHANGED presenceVars
  /\ desk # "promotions" => UNCHANGED promoVars
  /\ desk # "alerts" => UNCHANGED alertVars
  /\ desk # "evaluations" => UNCHANGED evaluationVars
  /\ desk # "disputes" => UNCHANGED disputeVars

OfficesNext ==
  \/ desk = "agents" /\ Next /\ Elsewhere
  \/ desk = "leases" /\ LeasesNext /\ Elsewhere
  \/ desk \in DOMAIN Trades /\ Trade(Trades[desk]) /\ Elsewhere
  \/ desk = "autopilot" /\ AutopilotNext /\ Elsewhere
  \/ desk = "presence" /\ PresenceNext /\ Elsewhere
  \/ desk = "promotions" /\ PromotionsNext /\ Elsewhere
  \/ desk = "alerts" /\ AlertsNext /\ Elsewhere
  \/ desk = "evaluations" /\ EvaluationsNext /\ Elsewhere
  \/ desk = "disputes" /\ DisputesNext /\ Elsewhere

officesVars ==
  <<desk, vars, leaseVars, earningVars, autopilotVars, presenceVars, promoVars,
    alertVars, evaluationVars, disputeVars>>

(* The fairness of each part, while it is at work.                          *)
OfficesFairness ==
  /\ \A r \in Runs : WF_vars(desk = "agents" /\ SessionStep(r))
  /\ \A t \in Sockets \cup Viewers : WF_presenceVars(desk = "presence" /\ Return(t))
  /\ \A s \in Sockets : WF_presenceVars(desk = "presence" /\ Heartbeat(s))
  /\ SF_presenceVars(desk = "presence" /\ PassInterval)
  /\ WF_promoVars(desk = "promotions" /\ ScanExpired)
  /\ SF_promoVars(desk = "promotions" /\ Revert)
  /\ \A e \in Evaluations : WF_alertVars(desk = "alerts" /\ CheckStep(e))
  /\ WF_alertVars(desk = "alerts" /\ CheckBegins)
  /\ WF_alertVars(desk = "alerts" /\ CoolDown)
  /\ WF_alertVars(desk = "alerts" /\ SaveRule)
  /\ \A n \in Evaluated : WF_evaluationVars(desk = "evaluations" /\ HourPasses(n))
  /\ WF_evaluationVars(desk = "evaluations" /\ FindStale)
  /\ \A n \in Evaluated : WF_evaluationVars(desk = "evaluations" /\ SaveStale(n))

OfficesSpec == OfficesInit /\ [][OfficesNext]_officesVars /\ OfficesFairness

(* Every variable of every part holds a value of its kind.                  *)
OfficesTypeOK ==
  /\ TypeOK /\ LeasesTypeOK /\ EarningsTypeOK
  /\ AutopilotTypeOK /\ PresenceTypeOK /\ PromotionsTypeOK
  /\ AlertsTypeOK /\ EvaluationsTypeOK /\ DisputesTypeOK

(* What ran out goes away: a socket that is gone stops making its user      *)
(* appear online, and a promotion that is over is taken back.               *)
NothingOverstays == GhostsFade /\ TiersLapse

(* No run of an agent and no evaluation run is running for ever.            *)
NothingRunsForever == RunsFinish /\ EvaluationsEnd
=============================================================================
