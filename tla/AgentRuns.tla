----------------------------- MODULE AgentRuns -----------------------------
(***************************************************************************)
(* agents/: the runs of one conversation with an AI agent.  A request makes *)
(* a run and stores the user's message, Celery delivers the run at least    *)
(* once, and AgentSession loops over the model's answers.  No lock is held: *)
(* messages take the next sequence number they read, and a unique           *)
(* constraint refuses the second of two that read the same.                 *)
(***************************************************************************)
EXTENDS Naturals, Sequences

CONSTANTS
  Runs,        \* runs asked for in this conversation
  MaxTurns,    \* Agent.turn_limit
  MaxCalls,    \* Agent.tool_limit
  MaxFailures, \* AGENTS_MAX_CONSECUTIVE_TOOL_FAILURES
  Window,      \* AGENTS_CONTEXT_WINDOW_MESSAGES
  MaxCrashes   \* bound on workers lost

ASSUME ConstantsAssumption ==
  /\ {MaxTurns, MaxCalls, MaxFailures, Window} \subseteq Nat \ {0}
  /\ MaxCrashes \in Nat

VARIABLES
  run,        \* AgentRun.status; "none" before the row exists
  request,    \* the POST that makes each run
  queue,      \* runs with a task message at the broker
  session,    \* the execution of each run
  transcript, \* messages of the conversation; the sequence number is the index
  proposals,  \* proposals made by each run
  crashes,
  unsaved     \* history: runs whose last execution could not save its end

vars == <<run, request, queue, session, transcript, proposals, crashes, unsaved>>

Finished == {"completed", "terminated", "failed"}
Kinds == {"user", "text", "frame", "result", "stray"}

(* A session: what it does, what its run will end as, the sequence number   *)
(* it last read, its counters, and the messages it has yet to store.        *)
Idle == [pc |-> "idle", outcome |-> "running", seen |-> 0,
         turns |-> 0, calls |-> 0, failures |-> 0, out |-> <<>>]

Init ==
  /\ run = [r \in Runs |-> "none"]
  /\ request = [r \in Runs |-> [pc |-> "none", seen |-> 0]]
  /\ queue = {}
  /\ session = [r \in Runs |-> Idle]
  /\ transcript = <<>>
  /\ proposals = [r \in Runs |-> 0]
  /\ crashes = 0
  /\ unsaved = {}

Message(r, kind) == [run |-> r, kind |-> kind]

-----------------------------------------------------------------------------
(* POST .../messages/: create_run commits the run, append_message reads the *)
(* last sequence number and inserts the next one, then the task is sent.    *)
Post(r) ==
  /\ run[r] = "none"
  /\ run' = [run EXCEPT ![r] = "pending"]
  /\ request' = [request EXCEPT ![r].pc = "reading"]
  /\ UNCHANGED <<queue, session, transcript, proposals, crashes, unsaved>>

PostRead(r) ==
  /\ request[r].pc = "reading"
  /\ request' = [request EXCEPT ![r] = [pc |-> "inserting", seen |-> Len(transcript)]]
  /\ UNCHANGED <<run, queue, session, transcript, proposals, crashes, unsaved>>

Bug_PostInsertGoesOn(r) == \* the integrity error of the insert is swallowed
  /\ request[r].pc = "inserting"
  /\ transcript' = IF request[r].seen = Len(transcript)
                     THEN Append(transcript, Message(r, "user")) ELSE transcript
  /\ request' = [request EXCEPT ![r].pc = "sending"]
  /\ UNCHANGED <<run, queue, session, proposals, crashes, unsaved>>
PostInsert(r) ==
  /\ request[r].pc = "inserting"
  /\ IF request[r].seen = Len(transcript)
       THEN /\ transcript' = Append(transcript, Message(r, "user"))
            /\ request' = [request EXCEPT ![r].pc = "sending"]
       ELSE /\ request' = [request EXCEPT ![r].pc = "refused"]
            /\ UNCHANGED transcript
  /\ UNCHANGED <<run, queue, session, proposals, crashes, unsaved>>

PostSend(r) ==
  /\ request[r].pc = "sending"
  /\ queue' = queue \cup {r}
  /\ request' = [request EXCEPT ![r].pc = "done"]
  /\ UNCHANGED <<run, session, transcript, proposals, crashes, unsaved>>

-----------------------------------------------------------------------------
(* execute_agent_run: a finished run is not executed again; any other one   *)
(* starts from the beginning, or fails _validate_run or its set-up.         *)
Bug_DeliverFinished(r) == \* without the idempotency guard
  /\ r \in queue
  /\ queue' = queue \ {r} /\ unsaved' = unsaved \ {r}
  /\ run' = [run EXCEPT ![r] = "running"]
  /\ \E ready \in BOOLEAN :
       session' = [session EXCEPT ![r] =
         IF ready THEN [Idle EXCEPT !.pc = "turn"]
                  ELSE [Idle EXCEPT !.pc = "finishing", !.outcome = "failed"]]
  /\ UNCHANGED <<request, transcript, proposals, crashes>>
Bug_DeliverPendingOnly(r) == \* the guard takes a running run for a finished one
  /\ r \in queue
  /\ queue' = queue \ {r} /\ unsaved' = unsaved \ {r}
  /\ IF run[r] = "pending"
       THEN /\ run' = [run EXCEPT ![r] = "running"]
            /\ session' = [session EXCEPT ![r] = [Idle EXCEPT !.pc = "turn"]]
       ELSE UNCHANGED <<run, session>>
  /\ UNCHANGED <<request, transcript, proposals, crashes>>
Deliver(r) ==
  /\ r \in queue
  /\ queue' = queue \ {r} /\ unsaved' = unsaved \ {r}
  /\ IF run[r] \in {"pending", "running"}
       THEN /\ run' = [run EXCEPT ![r] = "running"]
            /\ \E ready \in BOOLEAN :
                 session' = [session EXCEPT ![r] =
                   IF ready THEN [Idle EXCEPT !.pc = "turn"]
                            ELSE [Idle EXCEPT !.pc = "finishing", !.outcome = "failed"]]
       ELSE UNCHANGED <<run, session>>
  /\ UNCHANGED <<request, transcript, proposals, crashes>>

Become(r, s) == session' = [session EXCEPT ![r] = s]
Store(s, kinds) == [s EXCEPT !.pc = "reading", !.out = kinds]
InTurn(r) == session[r].pc = "turn"

(* _guardrail_reason, before every turn; time, tokens and cost may run out  *)
(* at any of them.                                                          *)
Exhausted(s) ==
  s.turns >= MaxTurns \/ s.calls >= MaxCalls \/ s.failures >= MaxFailures

Guardrail(r) ==
  /\ InTurn(r)
  /\ Become(r, [Store(session[r], <<"text">>) EXCEPT !.outcome = "terminated"])
  /\ UNCHANGED <<run, request, queue, transcript, proposals, crashes, unsaved>>

(* One turn: the model's answer, and what the session makes of it.          *)
Answer(r) ==
  LET s == session[r]
      t == [s EXCEPT !.turns = @ + 1]
      failed == [t EXCEPT !.failures = @ + 1] IN
  /\ InTurn(r) /\ ~Exhausted(s)
  /\ \/ Become(r, [t EXCEPT !.pc = "finishing", !.outcome = "failed"])       \* provider failure
     \/ Become(r, [Store(t, <<"text">>) EXCEPT !.outcome = "completed"])     \* text
     \/ Become(r, t)                                                         \* pass
     \/ Become(r, Store(failed, <<"frame", "result">>))                      \* denied tool
     \/ \E ok \in BOOLEAN :                                                  \* read-only tool
          Become(r, Store([t EXCEPT !.calls = @ + 1,
                                    !.failures = IF ok THEN 0 ELSE @ + 1],
                          <<"frame", "result">>))
     \/ Become(r, Store(failed, <<"stray">>))                                \* unknown answer
  /\ UNCHANGED <<run, request, queue, transcript, proposals, crashes, unsaved>>

(* A state-changing tool: the proposal is committed before its messages.    *)
Bug_ResultBeforeFrame(r) == \* the tool result is stored before its call
  /\ InTurn(r) /\ ~Exhausted(session[r])
  /\ proposals' = [proposals EXCEPT ![r] = @ + 1]
  /\ Become(r, Store([session[r] EXCEPT !.turns = @ + 1, !.calls = @ + 1],
                     <<"result", "frame">>))
  /\ UNCHANGED <<run, request, queue, transcript, crashes, unsaved>>
Propose(r) ==
  /\ InTurn(r) /\ ~Exhausted(session[r])
  /\ proposals' = [proposals EXCEPT ![r] = @ + 1]
  /\ Become(r, Store([session[r] EXCEPT !.turns = @ + 1, !.calls = @ + 1],
                     <<"frame", "result">>))
  /\ UNCHANGED <<run, request, queue, transcript, crashes, unsaved>>

(* _persist_message: read the last sequence number, insert the next one.    *)
StoreRead(r) ==
  /\ session[r].pc = "reading"
  /\ Become(r, [session[r] EXCEPT !.pc = "inserting", !.seen = Len(transcript)])
  /\ UNCHANGED <<run, request, queue, transcript, proposals, crashes, unsaved>>

(* An integrity error ends the run as failed, internal_error.               *)
Bug_StoreSuppressed(r) == \* the error suppressed, as in _finalize
  LET s == session[r]
      rest == Tail(s.out) IN
  /\ s.pc = "inserting"
  /\ transcript' = IF s.seen = Len(transcript)
                     THEN Append(transcript, Message(r, Head(s.out))) ELSE transcript
  /\ Become(r, [s EXCEPT !.out = rest,
                  !.pc = IF rest # <<>> THEN "reading"
                         ELSE IF s.outcome = "running" THEN "turn" ELSE "finishing"])
  /\ UNCHANGED <<run, request, queue, proposals, crashes, unsaved>>
StoreInsert(r) ==
  LET s == session[r]
      rest == Tail(s.out) IN
  /\ s.pc = "inserting"
  /\ IF s.seen = Len(transcript)
       THEN /\ transcript' = Append(transcript, Message(r, Head(s.out)))
            /\ Become(r, [s EXCEPT !.out = rest,
                            !.pc = IF rest # <<>> THEN "reading"
                                   ELSE IF s.outcome = "running" THEN "turn" ELSE "finishing"])
       ELSE /\ Become(r, [s EXCEPT !.pc = "finishing", !.outcome = "failed", !.out = <<>>])
            /\ UNCHANGED transcript
  /\ UNCHANGED <<run, request, queue, proposals, crashes, unsaved>>

(* _finalize, and the acknowledgement once the task has returned: whatever  *)
(* goes wrong with the update is suppressed, and the session returns all    *)
(* the same.                                                                *)
Finalize(r) ==
  /\ session[r].pc = "finishing"
  /\ run' = [run EXCEPT ![r] = session[r].outcome]
  /\ Become(r, [session[r] EXCEPT !.pc = "returning"])
  /\ UNCHANGED <<request, queue, transcript, proposals, crashes, unsaved>>

FinalizeLost(r) ==
  /\ session[r].pc = "finishing"
  /\ Become(r, [session[r] EXCEPT !.pc = "returning"])
  /\ unsaved' = unsaved \cup {r}
  /\ UNCHANGED <<run, request, queue, transcript, proposals, crashes>>

Acknowledge(r) ==
  /\ session[r].pc = "returning"
  /\ Become(r, Idle)
  /\ UNCHANGED <<run, request, queue, transcript, proposals, crashes, unsaved>>

(* The worker is lost before its late acknowledgement: the broker delivers  *)
(* the task again (ACKS_LATE, REJECT_ON_WORKER_LOST).                       *)
WorkerLost(r) ==
  /\ session[r].pc # "idle"
  /\ crashes < MaxCrashes
  /\ crashes' = crashes + 1
  /\ Become(r, Idle)
  /\ queue' = queue \cup {r}
  /\ UNCHANGED <<run, request, transcript, proposals, unsaved>>

-----------------------------------------------------------------------------
SessionStep(r) ==
  \/ Deliver(r) \/ Guardrail(r) \/ Answer(r) \/ Propose(r)
  \/ StoreRead(r) \/ StoreInsert(r) \/ Finalize(r) \/ FinalizeLost(r) \/ Acknowledge(r)

Next == \E r \in Runs :
  \/ Post(r) \/ PostRead(r) \/ PostInsert(r) \/ PostSend(r)
  \/ SessionStep(r) \/ WorkerLost(r)

Spec == Init /\ [][Next]_vars

(* Celery delivers what is queued and a session keeps running; nothing      *)
(* makes the model give one kind of answer rather than another.             *)
FairSpec == Spec /\ \A r \in Runs : WF_vars(SessionStep(r))

-----------------------------------------------------------------------------
RunStatus == {"none", "pending", "running"} \cup Finished
Requests == [pc: {"none", "reading", "inserting", "sending", "done", "refused"}, seen: Nat]
Sessions == [pc: {"idle", "turn", "reading", "inserting", "finishing", "returning"},
             outcome: {"running"} \cup Finished, seen: Nat, turns: 0..MaxTurns,
             calls: 0..MaxCalls, failures: 0..MaxFailures, out: Seq(Kinds)]
Messages == [run: Runs, kind: Kinds]

(* Every variable holds a value of its kind.                                *)
TypeOK ==
  /\ run \in [Runs -> RunStatus]
  /\ request \in [Runs -> Requests]
  /\ queue \subseteq Runs
  /\ session \in [Runs -> Sessions]
  /\ transcript \in Seq(Messages)
  /\ proposals \in [Runs -> Nat]
  /\ crashes \in Nat
  /\ unsaved \subseteq Runs

(* "A completed/failed run must not be re-executed": redelivered tasks and  *)
(* late workers leave a finished run, and what it proposed, as it is.       *)
FinishedStays ==
  [][\A r \in Runs : run[r] \in Finished =>
       run'[r] = run[r] /\ proposals'[r] = proposals[r]]_vars

Holds(r, kind) == \E i \in DOMAIN transcript : transcript[i] = Message(r, kind)

(* A run only ever starts once its user's message is in the transcript, and *)
(* completes only with an answer there.                                     *)
AskedBeforeRunning == \A r \in Runs : run[r] \notin {"none", "pending"} => Holds(r, "user")
AnsweredWhenComplete == \A r \in Runs : run[r] = "completed" => Holds(r, "text")

(* "Assistant frame always precedes its tool result": however the messages  *)
(* of runs, retries and requests mix, each result follows a frame of its    *)
(* run that no other message of the run comes after.                        *)
FramePrecedesResult ==
  \A i \in DOMAIN transcript : transcript[i].kind = "result" =>
    \E j \in 1..(i - 1) :
      /\ transcript[j] = Message(transcript[i].run, "frame")
      /\ \A k \in (j + 1)..(i - 1) : transcript[k].run # transcript[i].run

(* "Retrying an agent run could ... duplicate proposals": a run never makes *)
(* more of them than its agent's limit of tool calls.                       *)
ProposalsWithinLimit == \A r \in Runs : proposals[r] <= MaxCalls

(* The wire rebuilt from the transcript when a session starts: the last     *)
(* Window messages, a trailing frame made plain text.                       *)
Wire ==
  LET n == Len(transcript)
      w == SubSeq(transcript, IF n > Window THEN n - Window + 1 ELSE 1, n)
      m == Len(w) IN
  IF m > 0 /\ w[m].kind = "frame" THEN [w EXCEPT ![m].kind = "text"] ELSE w

(* The wire protocol: a frame is followed by its result, and a result       *)
(* follows its frame.                                                       *)
WellFormed(w) ==
  \A i \in DOMAIN w :
    /\ w[i].kind = "frame" => i < Len(w) /\ w[i + 1] = Message(w[i].run, "result")
    /\ w[i].kind = "result" => i > 1 /\ w[i - 1] = Message(w[i].run, "frame")
WireValid ==
  [][\A r \in Runs : session[r].pc = "idle" /\ session'[r].pc = "turn" => WellFormed(Wire)]_vars

(* Whatever the model answers, a run that was started finishes, also when   *)
(* its worker is lost a bounded number of times; or its end could not be    *)
(* saved.                                                                   *)
RunsFinish == \A r \in Runs : run[r] = "running" ~> run[r] \in Finished \/ r \in unsaved

(* Not true: it finishes in any case.  A task that has returned is          *)
(* acknowledged, and nothing looks for runs left behind as running.         *)
RunsAlwaysFinish == \A r \in Runs : run[r] = "running" ~> run[r] \in Finished
=============================================================================
