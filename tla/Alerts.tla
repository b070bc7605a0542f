------------------------------- MODULE Alerts -------------------------------
(***************************************************************************)
(* Alert rules of the AI dashboard (ai_intelligence/alerts.py): one rule    *)
(* that is enabled, the evaluations that watch its metric, the alerts they  *)
(* raise, and the requests of admins who handle those.  Nothing is locked:  *)
(* a rule and an alert are read, changed in memory and saved later.         *)
(***************************************************************************)
EXTENDS Naturals, FiniteSets

CONSTANTS
  Evaluations,       \* runs of evaluate_all_rules: beat's task, admins' requests
  Handlers,          \* admins' requests about an alert
  AlertIds,          \* alerts there can be at a time
  ConsecutiveChecks, \* AIAlertRule.consecutive_checks
  Cooldown,          \* AIAlertRule.cooldown_minutes, in ticks
  MaxEdits           \* bound on admins' edits of the rule

ASSUME AlertsAssumption ==
  /\ ConsecutiveChecks \in Nat \ {0} /\ Cooldown \in Nat /\ MaxEdits \in Nat
  /\ Cardinality(AlertIds) > Cardinality(Handlers)

VARIABLES
  alertRule, \* the row: breach_count; and the edits made of it
  breaching, \* what the metric would show now
  alert,     \* status of each alert
  cooling,   \* ticks until the newest alert is older than the cooldown
  check,     \* each evaluation: how far it is, the breach_count of its copy
  handling,  \* each admin's request: the alert it read, what it will save
  ruleCopy   \* an admin's copy of the rule that waits to be saved: breach_count

alertVars == <<alertRule, breaching, alert, cooling, check, handling, ruleCopy>>

(* An alert that is resolved or suppressed reads as closed; so does an id   *)
(* that is still to be given to an alert.                                   *)
AlertStatuses == {"closed", "triggered", "acknowledged"}
OpenAlerts == {a \in AlertIds : alert[a] # "closed"}

(* Breaches are counted as far as they are compared.                        *)
Streaks == 0 .. ConsecutiveChecks
NoCheck == [at |-> "nothing", breach_count |-> 0]
NoHandling == [does |-> "nothing"]
Unoccupied == {h \in Handlers : handling[h] = NoHandling}
NoRuleCopy == ConsecutiveChecks + 1

AlertsInit ==
  /\ alertRule = [breach_count |-> 0, edits |-> 0]
  /\ breaching \in BOOLEAN
  /\ alert = [a \in AlertIds |-> "closed"]
  /\ cooling = 0
  /\ check = [e \in Evaluations |-> NoCheck]
  /\ handling = [h \in Handlers |-> NoHandling]
  /\ ruleCopy = NoRuleCopy

-----------------------------------------------------------------------------
(* evaluate_all_rules reads the enabled rules; evaluate_rule works on that  *)
(* copy.                                                                    *)
LoadRule(e) ==
  /\ check[e] = NoCheck
  /\ check' = [check EXCEPT ![e] = [at |-> "loaded", breach_count |-> alertRule.breach_count]]
  /\ UNCHANGED <<alertRule, breaching, alert, cooling, handling, ruleCopy>>

(* compute_metric_value and _is_breach; a scope without data counts as well *)
(* as a metric that recovered.  The streak is saved; one that is too short  *)
(* ends the evaluation.                                                     *)
Bug_Measured(breach_count) == IF breaching THEN 1 ELSE 0 \* not counted on
Measured(breach_count) ==
  IF ~breaching THEN 0
  ELSE IF breach_count = ConsecutiveChecks THEN breach_count ELSE breach_count + 1
SaveStreak(e) ==
  /\ check[e].at = "loaded"
  /\ LET streak == Measured(check[e].breach_count) IN
       /\ alertRule' = [alertRule EXCEPT !.breach_count = streak]
       /\ check' = [check EXCEPT ![e] =
            IF streak < ConsecutiveChecks THEN NoCheck
            ELSE [at |-> "counted", breach_count |-> streak]]
  /\ UNCHANGED <<breaching, alert, cooling, handling, ruleCopy>>

(* _existing_open_alert: the breach is folded into an open alert, or        *)
FindOpen(e) ==
  /\ check[e].at = "counted"
  /\ check' = [check EXCEPT ![e] =
       IF OpenAlerts # {} THEN NoCheck ELSE [@ EXCEPT !.at = "uncovered"]]
  /\ UNCHANGED <<alertRule, breaching, alert, cooling, handling, ruleCopy>>

(* dropped within the cooldown of the newest alert, whatever its status, or *)
CheckCooldown(e) ==
  /\ check[e].at = "uncovered"
  /\ check' = [check EXCEPT ![e] =
       IF cooling > 0 THEN NoCheck ELSE [@ EXCEPT !.at = "due"]]
  /\ UNCHANGED <<alertRule, breaching, alert, cooling, handling, ruleCopy>>

(* becomes an alert.  (Its id is one of a closed alert nobody handles.)     *)
Trigger(e, a) ==
  /\ check[e].at = "due"
  /\ a \notin OpenAlerts \cup {handling[h].id : h \in Handlers \ Unoccupied}
  /\ alert' = [alert EXCEPT ![a] = "triggered"]
  /\ cooling' = Cooldown
  /\ check' = [check EXCEPT ![e] = NoCheck]
  /\ UNCHANGED <<alertRule, breaching, handling, ruleCopy>>

-----------------------------------------------------------------------------
(* acknowledge_alert; resolve_alert and suppress_alert, which take any open *)
(* alert and only ever close it.                                            *)
ReadAlert(h, a, to) ==
  /\ handling[h] = NoHandling
  /\ alert[a] # "closed"
  /\ handling' = [handling EXCEPT ![h] = [does |-> "saves", id |-> a, status |-> to]]
  /\ UNCHANGED <<alertRule, breaching, alert, cooling, check, ruleCopy>>

SaveAlert(h) ==
  /\ handling[h] # NoHandling
  /\ alert' = [alert EXCEPT ![handling[h].id] = handling[h].status]
  /\ handling' = [handling EXCEPT ![h] = NoHandling]
  /\ UNCHANGED <<alertRule, breaching, cooling, check, ruleCopy>>

(* AIAlertRuleDetailView.perform_update: the copy the request read is saved *)
(* with every column.                                                       *)
ReadRule ==
  /\ ruleCopy = NoRuleCopy
  /\ alertRule.edits < MaxEdits
  /\ ruleCopy' = alertRule.breach_count
  /\ UNCHANGED <<alertRule, breaching, alert, cooling, check, handling>>

SaveRule ==
  /\ ruleCopy # NoRuleCopy
  /\ alertRule' = [breach_count |-> ruleCopy, edits |-> alertRule.edits + 1]
  /\ ruleCopy' = NoRuleCopy
  /\ UNCHANGED <<breaching, alert, cooling, check, handling>>

(* The metric changes, and time passes.                                     *)
MetricMoves ==
  /\ breaching' = ~breaching
  /\ UNCHANGED <<alertRule, alert, cooling, check, handling, ruleCopy>>
CoolDown ==
  /\ cooling > 0
  /\ cooling' = cooling - 1
  /\ UNCHANGED <<alertRule, breaching, alert, check, handling, ruleCopy>>

CheckStep(e) ==
  \/ SaveStreak(e) \/ FindOpen(e) \/ CheckCooldown(e)
  \/ \E a \in AlertIds : Trigger(e, a)

CheckBegins == \E e \in Evaluations : LoadRule(e)
AlertsNext ==
  \/ CheckBegins \/ \E e \in Evaluations : CheckStep(e)
  \/ \E h \in Handlers :
       \/ \E a \in AlertIds, to \in {"acknowledged", "closed"} : ReadAlert(h, a, to)
       \/ SaveAlert(h)
  \/ ReadRule \/ SaveRule \/ MetricMoves \/ CoolDown

AlertsSpec == AlertsInit /\ [][AlertsNext]_alertVars

(* Every variable holds a value of its kind.                                *)
AlertsTypeOK ==
  /\ alertRule \in [breach_count : Streaks, edits : 0 .. MaxEdits]
  /\ breaching \in BOOLEAN
  /\ alert \in [AlertIds -> AlertStatuses]
  /\ cooling \in 0 .. Cooldown
  /\ check \in [Evaluations ->
       [at: {"nothing", "loaded", "counted", "uncovered", "due"}, breach_count: Streaks]]
  /\ handling \in [Handlers -> {NoHandling} \cup
       [does: {"saves"}, id: AlertIds, status: {"acknowledged", "closed"}]]
  /\ ruleCopy \in Streaks \cup {NoRuleCopy}

(* A breach that lasts has an open alert again and again: neither the       *)
(* cooldown, nor admins who close each alert at once, nor evaluations and   *)
(* edits that overwrite each other's streak keep it quiet for good.         *)
BreachAlerted == <>[]breaching => []<>(OpenAlerts # {})

(* Not true: one open alert per scope (alerts.py:14).  Two evaluations find *)
(* none and both create one; and a late acknowledgement opens an alert      *)
(* again that was resolved, when a new one is open already.                 *)
OneOpenAlert == Cardinality(OpenAlerts) <= 1
=============================================================================
