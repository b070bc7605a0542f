--------------------------- MODULE EvaluationRuns ---------------------------
(***************************************************************************)
(* Runs of the AI evaluation framework: requests and tasks that execute     *)
(* one, requests that cancel one (ai_intelligence/services.py), and the     *)
(* task that cancels those that have run for an hour                        *)
(* (ai_intelligence/tasks.py).  A run is read and saved without a lock.     *)
(***************************************************************************)
CONSTANTS
  Evaluated,  \* evaluation runs
  Executions, \* requests that execute one
  Cancels     \* requests that cancel one

VARIABLES
  evaluation, \* status of each run, and whether it started an hour ago
  executing,  \* each execution: how far it is, and of which run
  cancelling, \* each cancellation: the run it is about to save
  stale       \* stale runs the task found and has still to save

evaluationVars == <<evaluation, executing, cancelling, stale>>

NoExecution == [at |-> "nothing"]
NoCancel == [does |-> "nothing"]

EvaluationsInit ==
  /\ evaluation = [n \in Evaluated |-> [status |-> "pending", old |-> FALSE]]
  /\ executing = [x \in Executions |-> NoExecution]
  /\ cancelling = [c \in Cancels |-> NoCancel]
  /\ stale = {}

-----------------------------------------------------------------------------
(* execute_evaluation_run takes a pending run,                              *)
LoadEvaluation(x, n) ==
  /\ executing[x] = NoExecution
  /\ evaluation[n].status = "pending"
  /\ executing' = [executing EXCEPT ![x] = [at |-> "loaded", run |-> n]]
  /\ UNCHANGED <<evaluation, cancelling, stale>>

(* marks it, whatever became of it meanwhile,                               *)
StartEvaluation(x) ==
  /\ executing[x].at = "loaded"
  /\ evaluation' = [evaluation EXCEPT ![executing[x].run] = [status |-> "running", old |-> FALSE]]
  /\ executing' = [executing EXCEPT ![x].at = "working"]
  /\ UNCHANGED <<cancelling, stale>>

(* and, after its cases, marks it again.                                    *)
EndEvaluation(x, outcome) ==
  /\ executing[x].at = "working"
  /\ evaluation' = [evaluation EXCEPT ![executing[x].run].status = outcome]
  /\ executing' = [executing EXCEPT ![x] = NoExecution]
  /\ UNCHANGED <<cancelling, stale>>

(* A worker that dies leaves the run as it is.                              *)
ExecutionDies(x) ==
  /\ executing[x] # NoExecution
  /\ executing' = [executing EXCEPT ![x] = NoExecution]
  /\ UNCHANGED <<evaluation, cancelling, stale>>

-----------------------------------------------------------------------------
(* cancel_evaluation_run.                                                   *)
ReadForCancel(c, n) ==
  /\ cancelling[c] = NoCancel
  /\ evaluation[n].status \in {"pending", "running"}
  /\ cancelling' = [cancelling EXCEPT ![c] = [does |-> "saves", run |-> n]]
  /\ UNCHANGED <<evaluation, executing, stale>>

SaveCancelled(c) ==
  /\ cancelling[c] # NoCancel
  /\ evaluation' = [evaluation EXCEPT ![cancelling[c].run].status = "cancelled"]
  /\ cancelling' = [cancelling EXCEPT ![c] = NoCancel]
  /\ UNCHANGED <<executing, stale>>

(* cancel_stale_evaluation_runs, each half hour: its query, then its saves. *)
Stuck(n) == evaluation[n].status = "running" /\ evaluation[n].old
FindStale ==
  /\ stale = {}
  /\ \E n \in Evaluated : Stuck(n)
  /\ stale' = {n \in Evaluated : Stuck(n)}
  /\ UNCHANGED <<evaluation, executing, cancelling>>

SaveStale(n) ==
  /\ n \in stale
  /\ evaluation' = [evaluation EXCEPT ![n].status = "cancelled"]
  /\ stale' = stale \ {n}
  /\ UNCHANGED <<executing, cancelling>>

(* An hour passes for a run.                                                *)
HourPasses(n) ==
  /\ evaluation[n].status = "running" /\ ~evaluation[n].old
  /\ evaluation' = [evaluation EXCEPT ![n].old = TRUE]
  /\ UNCHANGED <<executing, cancelling, stale>>

EvaluationsNext ==
  \/ \E x \in Executions :
       \/ \E n \in Evaluated : LoadEvaluation(x, n)
       \/ StartEvaluation(x) \/ ExecutionDies(x)
       \/ \E outcome \in {"completed", "failed"} : EndEvaluation(x, outcome)
  \/ \E c \in Cancels : SaveCancelled(c) \/ \E n \in Evaluated : ReadForCancel(c, n)
  \/ FindStale
  \/ \E n \in Evaluated : SaveStale(n) \/ HourPasses(n)

EvaluationsSpec == EvaluationsInit /\ [][EvaluationsNext]_evaluationVars

(* Every variable holds a value of its kind.                                *)
EvaluationsTypeOK ==
  /\ evaluation \in [Evaluated ->
       [status : {"pending", "running", "completed", "failed", "cancelled"}, old : BOOLEAN]]
  /\ executing \in [Executions ->
       {NoExecution} \cup [at: {"loaded", "working"}, run: Evaluated]]
  /\ cancelling \in [Cancels -> {NoCancel} \cup [does: {"saves"}, run: Evaluated]]
  /\ stale \subseteq Evaluated

-----------------------------------------------------------------------------
(* No run is running for ever (tasks.py:86, "to prevent stuck evaluations"):*)
(* not one whose worker died, nor one that a second execution started again *)
(* behind a cancellation or behind the task's query.                        *)
EvaluationsEnd == \A n \in Evaluated :
  evaluation[n].status = "running" ~> evaluation[n].status # "running"

(* Not true: a run that was cancelled stays so (an execution that goes on   *)
(* marks it as completed, and one that had read it starts it).              *)
CancelledStays == [][\A n \in Evaluated :
  evaluation[n].status = "cancelled" => evaluation'[n].status = "cancelled"]_evaluationVars

(* Not true: one execution works on a run at a time (two requests can both  *)
(* find it pending), and neither is tasks.py:65, "re-running a completed or *)
(* failed run will re-execute from scratch": LoadEvaluation takes none.     *)
ExecutedOnce == \A x1, x2 \in Executions :
  executing[x1].at = "working" /\ executing[x1] = executing[x2] => x1 = x2
=============================================================================
