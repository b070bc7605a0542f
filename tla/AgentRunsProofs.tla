--------------------------- MODULE AgentRunsProofs ---------------------------
(***************************************************************************)
(* Proofs about AgentRuns, for any number of runs of a conversation, any    *)
(* limits and any number of lost workers.                                   *)
(***************************************************************************)
EXTENDS AgentRuns, TLAPS

(* What a session may have left to store, and whether the run's last        *)
(* message so far is a frame.                                               *)
Batches == {<<"text">>, <<"frame", "result">>, <<"result">>, <<"stray">>}
FrameLast(r) ==
  \E j \in DOMAIN transcript :
    /\ transcript[j] = Message(r, "frame")
    /\ \A k \in (j + 1)..Len(transcript) : transcript[k].run # r

(* One delivery at a time: while a run has a session its task is not at the *)
(* broker, and its request is over.                                         *)
SessionSound(r) ==
  LET s == session[r] IN
  /\ s.pc # "idle" => r \notin queue /\ request[r].pc = "done"
  /\ s.pc \in {"turn", "reading", "inserting", "finishing"} => run[r] = "running"
  /\ s.pc \in {"reading", "inserting"} => s.out \in Batches
  /\ s.outcome = "completed" =>
       \/ s.pc \in {"reading", "inserting"} /\ s.out = <<"text">>
       \/ Holds(r, "text")
  /\ s.pc = "turn" => s.outcome # "completed"
  /\ s.pc \in {"reading", "inserting"} /\ s.out = <<"result">> => FrameLast(r)

RequestSound(r) ==
  /\ request[r].pc # "done" => r \notin queue /\ run[r] \in {"none", "pending"}
  /\ request[r].pc = "none" <=> run[r] = "none"
  /\ request[r].pc \in {"sending", "done"} => Holds(r, "user")

IInv == /\ TypeOK
        /\ \A r \in Runs : SessionSound(r) /\ RequestSound(r)
        /\ AnsweredWhenComplete /\ FramePrecedesResult

-----------------------------------------------------------------------------
LEMMA LimitsNat == /\ MaxTurns \in Nat /\ MaxCalls \in Nat /\ MaxFailures \in Nat
  BY ConstantsAssumption

LEMMA IdleTyped == Idle \in Sessions /\ Idle.pc = "idle" /\ Idle.outcome = "running"
  BY LimitsNat DEF Idle, Sessions, Finished, Kinds

(* The batches, and what storing their first message leaves.                *)
LEMMA BatchesShrink ==
  ASSUME NEW out \in Batches
  PROVE  /\ out \in Seq(Kinds) /\ out # <<>> /\ Head(out) \in Kinds \ {"user"} /\ Tail(out) \in Seq(Kinds)
         /\ Tail(out) # <<>> => Head(out) = "frame" /\ Tail(out) = <<"result">>
         /\ Head(out) = "result" => out = <<"result">>
         /\ out = <<"text">> => Head(out) = "text" /\ Tail(out) = <<>>
<1>1. CASE out = <<"text">>
  BY <1>1 DEF Kinds
<1>2. CASE out = <<"frame", "result">>
  BY <1>2 DEF Kinds
<1>3. CASE out = <<"result">>
  BY <1>3 DEF Kinds
<1>4. CASE out = <<"stray">>
  BY <1>4 DEF Kinds
<1> QED
  BY <1>1, <1>2, <1>3, <1>4 DEF Batches

(* A longer transcript keeps what it held.                                  *)
LEMMA Grows ==
  ASSUME transcript \in Seq(Messages), NEW m \in Messages, transcript' = Append(transcript, m)
  PROVE  /\ transcript' \in Seq(Messages) /\ Len(transcript') = Len(transcript) + 1
         /\ DOMAIN transcript = 1..Len(transcript)
         /\ DOMAIN transcript' = 1..(Len(transcript) + 1)
         /\ \A i \in DOMAIN transcript : transcript'[i] = transcript[i]
         /\ transcript'[Len(transcript) + 1] = m
  OBVIOUS

LEMMA GrowthKeeps ==
  ASSUME transcript \in Seq(Messages), NEW m \in Messages, transcript' = Append(transcript, m)
  PROVE  /\ \A r \in Runs, kind \in Kinds : Holds(r, kind) => Holds(r, kind)'
         /\ \A r \in Runs : m = Message(r, m.kind) => Holds(r, m.kind)'
         /\ \A r \in Runs : m.run # r /\ FrameLast(r) => FrameLast(r)'
         /\ \A r \in Runs : m = Message(r, "frame") => FrameLast(r)'
<1> DEFINE n == Len(transcript)
<1>1. n \in Nat
  OBVIOUS
<1>2. /\ Len(transcript') = n + 1
      /\ DOMAIN transcript = 1..n /\ DOMAIN transcript' = 1..(n + 1)
      /\ \A i \in DOMAIN transcript : transcript'[i] = transcript[i]
      /\ transcript'[n + 1] = m
  BY Grows
<1> HIDE DEF n
<1>3. \A r \in Runs, kind \in Kinds : Holds(r, kind) => Holds(r, kind)'
  BY <1>1, <1>2 DEF Holds
<1>4. \A r \in Runs : m = Message(r, m.kind) => Holds(r, m.kind)'
  BY <1>1, <1>2 DEF Holds
<1>5. \A r \in Runs : m.run # r /\ FrameLast(r) => FrameLast(r)'
  <2> SUFFICES ASSUME NEW r \in Runs, m.run # r, FrameLast(r) PROVE FrameLast(r)'
    OBVIOUS
  <2>1. PICK j \in 1..n : /\ transcript[j] = Message(r, "frame")
                          /\ \A k \in (j + 1)..n : transcript[k].run # r
    BY <1>2 DEF FrameLast, n
  <2>2. transcript'[j] = Message(r, "frame") /\ j \in DOMAIN transcript'
    BY <1>1, <1>2, <2>1
  <2>3. \A k \in (j + 1)..(n + 1) : transcript'[k].run # r
    <3> TAKE k \in (j + 1)..(n + 1)
    <3>1. CASE k = n + 1
      BY <3>1, <1>2
    <3>2. CASE k # n + 1
      BY <3>2, <1>1, <1>2, <2>1
    <3> QED
      BY <3>1, <3>2
  <2> QED
    BY <1>2, <2>2, <2>3 DEF FrameLast, Message
<1>6. \A r \in Runs : m = Message(r, "frame") => FrameLast(r)'
  <2> SUFFICES ASSUME NEW r \in Runs, m = Message(r, "frame") PROVE FrameLast(r)'
    OBVIOUS
  <2>1. n + 1 \in DOMAIN transcript' /\ transcript'[n + 1] = Message(r, "frame")
    BY <1>1, <1>2
  <2>2. \A k \in (n + 1 + 1)..(n + 1) : transcript'[k].run # r
    BY <1>1
  <2> QED
    BY <1>2, <2>1, <2>2 DEF FrameLast, Message
<1> QED
  BY <1>3, <1>4, <1>5, <1>6

(* A new message keeps results behind their frames if it is no result, or   *)
(* its run's last message is the frame.                                     *)
LEMMA GrowthOrdered ==
  ASSUME transcript \in Seq(Messages), NEW m \in Messages, transcript' = Append(transcript, m),
         FramePrecedesResult, m.kind = "result" => FrameLast(m.run)
  PROVE  FramePrecedesResult'
<1> DEFINE n == Len(transcript)
<1>1. n \in Nat
  OBVIOUS
<1>2. /\ DOMAIN transcript = 1..n /\ DOMAIN transcript' = 1..(n + 1)
      /\ \A i \in DOMAIN transcript : transcript'[i] = transcript[i]
      /\ transcript'[n + 1] = m
  BY Grows
<1> HIDE DEF n
<1> SUFFICES ASSUME NEW i \in 1..(n + 1), transcript'[i].kind = "result"
             PROVE  \E j \in 1..(i - 1) :
                      /\ transcript'[j] = Message(transcript'[i].run, "frame")
                      /\ \A k \in (j + 1)..(i - 1) : transcript'[k].run # transcript'[i].run
  BY <1>2 DEF FramePrecedesResult, Message
<1>3. CASE i = n + 1
  <2>1. PICK j \in 1..n : /\ transcript[j] = Message(m.run, "frame")
                          /\ \A k \in (j + 1)..n : transcript[k].run # m.run
    BY <1>2, <1>3 DEF FrameLast, n
  <2> QED
    BY <1>1, <1>2, <1>3, <2>1
<1>4. CASE i # n + 1
  <2>1. i \in 1..n /\ transcript'[i] = transcript[i]
    BY <1>1, <1>2, <1>4
  <2>2. PICK j \in 1..(i - 1) : /\ transcript[j] = Message(transcript[i].run, "frame")
                                /\ \A k \in (j + 1)..(i - 1) : transcript[k].run # transcript[i].run
    BY <1>2, <2>1 DEF FramePrecedesResult
  <2> QED
    BY <1>1, <1>2, <2>1, <2>2
<1> QED
  BY <1>3, <1>4

-----------------------------------------------------------------------------
(* What a turn makes of its session: it fails, goes on, or has a batch of   *)
(* messages to store, "completed" only with the answer's text.              *)
TurnEnd(t) ==
  /\ t \in Sessions
  /\ \/ t.pc = "finishing" /\ t.outcome = "failed"
     \/ t.pc = "turn" /\ t.outcome # "completed"
     \/ /\ t.pc = "reading" /\ t.out \in Batches /\ t.out # <<"result">>
        /\ t.outcome = "completed" => t.out = <<"text">>

LEMMA BatchesDiffer ==
  /\ <<"text">> \in Batches /\ <<"text">> # <<"result">>
  /\ <<"frame", "result">> \in Batches /\ <<"frame", "result">> # <<"result">>
  /\ <<"stray">> \in Batches /\ <<"stray">> # <<"result">>
<1>1. Len(<<"frame", "result">>) = 2 /\ Len(<<"result">>) = 1
  OBVIOUS
<1>2. <<"text">>[1] = "text" /\ <<"result">>[1] = "result" /\ <<"stray">>[1] = "stray"
  OBVIOUS
<1> QED
  BY <1>1, <1>2 DEF Batches

LEMMA StoreEnds ==
  ASSUME NEW t \in Sessions, t.outcome # "completed",
         NEW out \in {<<"text">>, <<"frame", "result">>, <<"stray">>}
  PROVE  TurnEnd(Store(t, out))
<1>1. out \in Batches /\ out # <<"result">> /\ out \in Seq(Kinds)
  BY BatchesDiffer, BatchesShrink
<1> QED
  BY <1>1 DEF Store, TurnEnd, Sessions

LEMMA StoreTextEnds ==
  ASSUME NEW t \in Sessions, NEW outcome \in {"completed", "terminated"}
  PROVE  TurnEnd([Store(t, <<"text">>) EXCEPT !.outcome = outcome])
<1>1. <<"text">> \in Batches /\ <<"text">> # <<"result">> /\ <<"text">> \in Seq(Kinds)
  BY BatchesDiffer, BatchesShrink
<1> DEFINE u == Store(t, <<"text">>)
<1>2. u \in Sessions /\ u.pc = "reading" /\ u.out = <<"text">>
  BY <1>1 DEF Store, Sessions
<1> HIDE DEF u
<1>3. [u EXCEPT !.outcome = outcome] \in Sessions /\ [u EXCEPT !.outcome = outcome].pc = "reading"
      /\ [u EXCEPT !.outcome = outcome].out = <<"text">>
  BY <1>2 DEF Sessions, Finished
<1> QED
  BY <1>1, <1>3 DEF TurnEnd, u

(* A session whose counters stay within their limits is a session.          *)
LEMMA Counted ==
  ASSUME NEW s \in Sessions, NEW turns \in 0..MaxTurns,
         NEW calls \in 0..MaxCalls, NEW failures \in 0..MaxFailures
  PROVE  /\ [s EXCEPT !.turns = turns] \in Sessions
         /\ [s EXCEPT !.turns = turns].outcome = s.outcome
         /\ [s EXCEPT !.failures = failures] \in Sessions
         /\ [s EXCEPT !.failures = failures].outcome = s.outcome
         /\ [s EXCEPT !.turns = turns, !.calls = calls] \in Sessions
         /\ [s EXCEPT !.turns = turns, !.calls = calls].outcome = s.outcome
  BY DEF Sessions

(* Every answer of the model ends its turn one of these ways.               *)
LEMMA TurnEnds ==
  ASSUME TypeOK, NEW r \in Runs, SessionSound(r), Guardrail(r) \/ Answer(r) \/ Propose(r)
  PROVE  \E t \in Sessions : TurnEnd(t) /\ session' = [session EXCEPT ![r] = t]
<1> DEFINE s == session[r]
           t == [s EXCEPT !.turns = @ + 1]
<1>1. s \in Sessions /\ s.pc = "turn" /\ s.outcome # "completed"
  BY DEF TypeOK, Sessions, SessionSound, InTurn, Guardrail, Answer, Propose
<1>2. CASE Guardrail(r)
  <2>1. TurnEnd([Store(s, <<"text">>) EXCEPT !.outcome = "terminated"])
    BY <1>1, StoreTextEnds
  <2> QED
    BY <1>2, <2>1 DEF Guardrail, Become, TurnEnd
<1>3. CASE Answer(r) \/ Propose(r)
  <2>1. s.turns + 1 \in 0..MaxTurns /\ s.calls + 1 \in 0..MaxCalls /\ s.failures + 1 \in 0..MaxFailures
    <3>1. ~Exhausted(s)
      BY <1>3 DEF Answer, Propose
    <3>2. s.turns \in 0..MaxTurns /\ s.calls \in 0..MaxCalls /\ s.failures \in 0..MaxFailures
      BY <1>1 DEF Sessions
    <3> QED
      BY <3>1, <3>2, LimitsNat DEF Exhausted
  <2>2. t \in Sessions /\ t.pc = "turn" /\ t.outcome # "completed"
        /\ t.calls = s.calls /\ t.failures = s.failures
    BY <1>1, <2>1, LimitsNat DEF Sessions
  <2> DEFINE failed == [t EXCEPT !.failures = @ + 1]
             called(ok) == [t EXCEPT !.calls = @ + 1, !.failures = IF ok THEN 0 ELSE @ + 1]
             proposed == [s EXCEPT !.turns = @ + 1, !.calls = @ + 1]
  <2>3. failed \in Sessions /\ failed.outcome # "completed"
    <3> HIDE DEF t
    <3> QED
      BY <2>1, <2>2, Counted, LimitsNat
  <2>4. \A ok \in BOOLEAN : called(ok) \in Sessions /\ called(ok).outcome # "completed"
    <3> HIDE DEF t
    <3> TAKE ok \in BOOLEAN
    <3>1. PICK n \in 0..MaxFailures : n = IF ok THEN 0 ELSE t.failures + 1
      BY <2>1, <2>2, LimitsNat
    <3>2. PICK c \in 0..MaxCalls : c = t.calls + 1
      BY <2>1, <2>2
    <3>3. called(ok) = [t EXCEPT !.calls = c, !.failures = n]
      BY <3>1, <3>2
    <3>4. [t EXCEPT !.calls = c, !.failures = n] \in Sessions
          /\ [t EXCEPT !.calls = c, !.failures = n].outcome # "completed"
      <4>1. c \in 0..MaxCalls /\ n \in 0..MaxFailures
        BY <3>1, <3>2
      <4> QED
        BY <2>2, <4>1 DEF Sessions
    <3> HIDE DEF called
    <3> QED
      BY <3>3, <3>4
  <2>5. proposed \in Sessions /\ proposed.outcome # "completed"
    <3> HIDE DEF s
    <3> QED
      BY <1>1, <2>1, Counted
  <2>6. TurnEnd([t EXCEPT !.pc = "finishing", !.outcome = "failed"])
    BY <2>2 DEF TurnEnd, Sessions, Finished
  <2>7. TurnEnd([Store(t, <<"text">>) EXCEPT !.outcome = "completed"])
    BY <2>2, StoreTextEnds
  <2>8. TurnEnd(t)
    BY <2>2 DEF TurnEnd
  <2>9. /\ TurnEnd(Store(failed, <<"frame", "result">>)) /\ TurnEnd(Store(failed, <<"stray">>))
        /\ \A ok \in BOOLEAN : TurnEnd(Store(called(ok), <<"frame", "result">>))
        /\ TurnEnd(Store(proposed, <<"frame", "result">>))
    <3> HIDE DEF failed, called, proposed
    <3> QED
      BY <2>3, <2>4, <2>5, StoreEnds
  <2>10. \E u : TurnEnd(u) /\ session' = [session EXCEPT ![r] = u]
    <3>1. CASE Propose(r)
      BY <3>1, <2>9 DEF Propose, Become
    <3>2. CASE Answer(r)
      <4> HIDE DEF t
      <4>1. CASE Become(r, [t EXCEPT !.pc = "finishing", !.outcome = "failed"])
        BY <4>1, <2>6 DEF Become
      <4>2. CASE Become(r, [Store(t, <<"text">>) EXCEPT !.outcome = "completed"])
        BY <4>2, <2>7 DEF Become
      <4>3. CASE Become(r, t)
        BY <4>3, <2>8 DEF Become
      <4>4. CASE Become(r, Store(failed, <<"frame", "result">>))
        BY <4>4, <2>9 DEF Become
      <4>5. CASE \E ok \in BOOLEAN : Become(r, Store(called(ok), <<"frame", "result">>))
        BY <4>5, <2>9 DEF Become
      <4>6. CASE Become(r, Store(failed, <<"stray">>))
        BY <4>6, <2>9 DEF Become
      <4> QED
        BY <3>2, <4>1, <4>2, <4>3, <4>4, <4>5, <4>6 DEF Answer, t
    <3> QED
      BY <1>3, <3>1, <3>2
  <2> QED
    BY <2>10 DEF TurnEnd
<1> QED
  BY <1>2, <1>3

-----------------------------------------------------------------------------
(* A step of one run leaves the others alone and appends one message of its *)
(* own at most.                                                             *)
OnlyRun(r) ==
  \A q \in Runs \ {r} :
    /\ run'[q] = run[q] /\ request'[q] = request[q] /\ session'[q] = session[q]
    /\ q \in queue' <=> q \in queue
Appends(r) ==
  \/ transcript' = transcript
  \/ \E kind \in Kinds : transcript' = Append(transcript, Message(r, kind))

(* What has to be shown of a step of a run.                                 *)
KeepsSound(r) ==
  /\ TypeOK' /\ OnlyRun(r) /\ Appends(r)
  /\ SessionSound(r)' /\ RequestSound(r)' /\ FramePrecedesResult'
  /\ run'[r] = "completed" => run[r] = "completed" \/ Holds(r, "text")

(* A transcript that stands still.                                          *)
LEMMA Still ==
  ASSUME transcript' = transcript
  PROVE  /\ \A r \in Runs, kind \in Kinds : Holds(r, kind)' <=> Holds(r, kind)
         /\ \A r \in Runs : FrameLast(r)' <=> FrameLast(r)
         /\ FramePrecedesResult' <=> FramePrecedesResult
  BY DEF Holds, FrameLast, FramePrecedesResult

(* Whoever appends, nothing that was there is lost, and the last message of *)
(* another run is still its last.                                           *)
LEMMA Remembered ==
  ASSUME TypeOK, NEW r \in Runs, Appends(r)
  PROVE  /\ \A q \in Runs, kind \in Kinds : Holds(q, kind) => Holds(q, kind)'
         /\ \A q \in Runs \ {r} : FrameLast(q) => FrameLast(q)'
<1>1. CASE transcript' = transcript
  BY <1>1, Still
<1>2. CASE transcript' # transcript
  <2>1. PICK kind \in Kinds : transcript' = Append(transcript, Message(r, kind))
    BY <1>2 DEF Appends
  <2>2. PICK m \in Messages : m = Message(r, kind)
    BY DEF Messages, Message
  <2>3. m.run = r
    BY <2>2 DEF Message
  <2>4. transcript \in Seq(Messages) /\ transcript' = Append(transcript, m)
    BY <2>1, <2>2 DEF TypeOK
  <2> QED
    BY <2>3, <2>4, GrowthKeeps
<1> QED
  BY <1>1, <1>2

LEMMA SoundTogether ==
  ASSUME IInv, NEW r \in Runs, KeepsSound(r)
  PROVE  IInv'
<1>1. /\ \A q \in Runs, kind \in Kinds : Holds(q, kind) => Holds(q, kind)'
      /\ \A q \in Runs \ {r} : FrameLast(q) => FrameLast(q)'
  BY Remembered DEF IInv, KeepsSound
<1>2. \A q \in Runs : /\ Holds(q, "user") => Holds(q, "user")'
                      /\ Holds(q, "text") => Holds(q, "text")'
  BY <1>1 DEF Kinds
<1>3. ASSUME NEW q \in Runs \ {r} PROVE SessionSound(q)' /\ RequestSound(q)'
  <2>1. SessionSound(q) /\ RequestSound(q)
    BY DEF IInv
  <2>2. /\ run'[q] = run[q] /\ request'[q] = request[q] /\ session'[q] = session[q]
        /\ q \in queue' <=> q \in queue
    BY DEF KeepsSound, OnlyRun
  <2>3. SessionSound(q)'
    BY <1>1, <1>2, <2>1, <2>2 DEF SessionSound
  <2>4. RequestSound(q)'
    BY <1>2, <2>1, <2>2 DEF RequestSound
  <2> QED
    BY <2>3, <2>4
<1>4. AnsweredWhenComplete'
  <2> SUFFICES ASSUME NEW q \in Runs, run'[q] = "completed" PROVE Holds(q, "text")'
    BY DEF AnsweredWhenComplete
  <2>1. run[q] = "completed" \/ Holds(q, "text")
    BY DEF KeepsSound, OnlyRun
  <2> QED
    BY <1>2, <2>1 DEF IInv, AnsweredWhenComplete
<1> QED
  BY <1>3, <1>4 DEF IInv, KeepsSound

-----------------------------------------------------------------------------
LEMMA RequestMoved ==
  ASSUME NEW q \in Requests, NEW pc \in {"reading", "sending", "done", "refused"}
  PROVE  [q EXCEPT !.pc = pc] \in Requests /\ [q EXCEPT !.pc = pc].pc = pc
  BY DEF Requests

(* A request works before its task is sent, so its run has no session.      *)
LEMMA PostsSound ==
  ASSUME IInv, NEW r \in Runs, Post(r) \/ PostRead(r) \/ PostInsert(r) \/ PostSend(r)
  PROVE  KeepsSound(r)
<1> USE DEF TypeOK
<1>1. TypeOK /\ SessionSound(r) /\ RequestSound(r) /\ FramePrecedesResult
  BY DEF IInv
<1>2. /\ request[r].pc # "done" /\ request[r] \in Requests
      /\ session[r].pc = "idle" /\ r \notin queue
      /\ session[r].outcome = "completed" => Holds(r, "text")
  BY <1>1 DEF SessionSound, RequestSound, Post, PostRead, PostInsert, PostSend
<1>3. session' = session /\ OnlyRun(r)
  BY <1>1 DEF OnlyRun, Post, PostRead, PostInsert, PostSend
<1>4. CASE Post(r)
  <2>1. run' = [run EXCEPT ![r] = "pending"] /\ UNCHANGED <<queue, transcript, proposals, crashes, unsaved>>
    BY <1>4 DEF Post
  <2>2. PICK q \in Requests : request' = [request EXCEPT ![r] = q] /\ q.pc = "reading"
    BY <1>2, <1>4, RequestMoved DEF Post
  <2>3. TypeOK'
    BY <1>1, <1>3, <2>1, <2>2 DEF RunStatus
  <2>4. request'[r].pc = "reading" /\ run'[r] = "pending" /\ queue' = queue
    BY <1>1, <2>1, <2>2
  <2>5. SessionSound(r)'
    BY <1>2, <1>3, <2>1, <2>4, Still DEF SessionSound, Kinds
  <2>6. RequestSound(r)'
    BY <1>2, <2>4 DEF RequestSound
  <2> QED
    BY <1>1, <1>3, <2>1, <2>3, <2>4, <2>5, <2>6, Still DEF KeepsSound, Appends
<1>5. CASE PostRead(r)
  <2>1. UNCHANGED <<run, queue, transcript, proposals, crashes, unsaved>> /\ request[r].pc = "reading"
    BY <1>5 DEF PostRead
  <2>2. Len(transcript) \in Nat
    BY <1>1
  <2>3. PICK q \in Requests : request' = [request EXCEPT ![r] = q] /\ q.pc = "inserting"
    <3>1. [pc |-> "inserting", seen |-> Len(transcript)] \in Requests
      BY <2>2 DEF Requests
    <3> QED
      BY <1>5, <3>1 DEF PostRead
  <2>4. TypeOK'
    BY <1>1, <1>3, <2>1, <2>3
  <2>5. request'[r].pc = "inserting"
    BY <1>1, <2>3
  <2>6. SessionSound(r)'
    BY <1>2, <1>3, <2>1, <2>5, Still DEF SessionSound, Kinds
  <2>7. RequestSound(r)'
    BY <1>1, <1>2, <2>1, <2>5 DEF RequestSound
  <2> QED
    BY <1>1, <1>3, <2>1, <2>4, <2>6, <2>7, Still DEF KeepsSound, Appends
<1>6. CASE PostInsert(r)
  <2>1. UNCHANGED <<run, queue, proposals, crashes, unsaved>> /\ request[r].pc = "inserting"
    BY <1>6 DEF PostInsert
  <2>2. PICK q \in Requests :
          /\ request' = [request EXCEPT ![r] = q]
          /\ \/ q.pc = "sending" /\ transcript' = Append(transcript, Message(r, "user"))
             \/ q.pc = "refused" /\ transcript' = transcript
    BY <1>2, <1>6, RequestMoved DEF PostInsert
  <2>3. request'[r] = q
    BY <1>1, <2>2
  <2>4. CASE q.pc = "sending" /\ transcript' = Append(transcript, Message(r, "user"))
    <3>1. PICK m \in Messages : m = Message(r, "user")
      BY DEF Messages, Message, Kinds
    <3>2. m.kind = "user" /\ m.run = r
      BY <3>1 DEF Message
    <3>3. transcript \in Seq(Messages) /\ transcript' = Append(transcript, m)
      BY <1>1, <2>4, <3>1
    <3>4. transcript' \in Seq(Messages) /\ Holds(r, "user")' /\ (Holds(r, "text") => Holds(r, "text")')
      BY <3>1, <3>2, <3>3, GrowthKeeps DEF Kinds
    <3>5. FramePrecedesResult'
      BY <1>1, <3>2, <3>3, GrowthOrdered
    <3>6. SessionSound(r)'
      BY <1>2, <1>3, <3>4, <2>1, <2>3 DEF SessionSound
    <3>7. RequestSound(r)'
      BY <1>1, <1>2, <2>1, <2>3, <2>4, <3>4 DEF RequestSound
    <3>8. TypeOK'
      BY <1>1, <1>3, <2>1, <2>2, <3>4
    <3>9. Appends(r)
      BY <2>4 DEF Appends, Kinds
    <3> QED
      BY <1>3, <2>1, <3>5, <3>6, <3>7, <3>8, <3>9 DEF KeepsSound
  <2>5. CASE q.pc = "refused" /\ transcript' = transcript
    <3>1. TypeOK'
      BY <1>1, <1>3, <2>1, <2>2, <2>5
    <3>2. SessionSound(r)'
      BY <1>2, <1>3, <2>1, <2>3, <2>5, Still DEF SessionSound, Kinds
    <3>3. RequestSound(r)'
      BY <1>1, <1>2, <2>1, <2>3, <2>5 DEF RequestSound
    <3> QED
      BY <1>1, <1>3, <2>1, <2>5, <3>1, <3>2, <3>3, Still DEF KeepsSound, Appends
  <2> QED
    BY <2>2, <2>4, <2>5
<1>7. CASE PostSend(r)
  <2>1. /\ UNCHANGED <<run, transcript, proposals, crashes, unsaved>>
        /\ request[r].pc = "sending" /\ queue' = queue \cup {r}
    BY <1>7 DEF PostSend
  <2>2. PICK q \in Requests : request' = [request EXCEPT ![r] = q] /\ q.pc = "done"
    BY <1>2, <1>7, RequestMoved DEF PostSend
  <2>3. TypeOK'
    BY <1>1, <1>3, <2>1, <2>2
  <2>4. request'[r].pc = "done"
    BY <1>1, <2>2
  <2>5. SessionSound(r)'
    BY <1>2, <1>3, <2>1, <2>4, Still DEF SessionSound, Kinds
  <2>6. RequestSound(r)'
    BY <1>1, <1>2, <2>1, <2>4, Still DEF RequestSound, Kinds
  <2> QED
    BY <1>1, <1>3, <2>1, <2>3, <2>5, <2>6, Still DEF KeepsSound, Appends
<1> QED
  BY <1>4, <1>5, <1>6, <1>7

-----------------------------------------------------------------------------
LEMMA SessionMoved ==
  ASSUME NEW s \in Sessions
  PROVE  /\ [s EXCEPT !.pc = "returning"] \in Sessions
         /\ [s EXCEPT !.pc = "returning"].pc = "returning"
         /\ [s EXCEPT !.pc = "returning"].outcome = s.outcome
         /\ \A n \in Nat :
              /\ [s EXCEPT !.pc = "inserting", !.seen = n] \in Sessions
              /\ [s EXCEPT !.pc = "inserting", !.seen = n].pc = "inserting"
              /\ [s EXCEPT !.pc = "inserting", !.seen = n].outcome = s.outcome
              /\ [s EXCEPT !.pc = "inserting", !.seen = n].out = s.out
  BY DEF Sessions

LEMMA SessionFailed ==
  ASSUME NEW s \in Sessions, NEW out \in Seq(Kinds)
  PROVE  /\ [s EXCEPT !.pc = "finishing", !.outcome = "failed", !.out = out] \in Sessions
         /\ [s EXCEPT !.pc = "finishing", !.outcome = "failed", !.out = out].pc = "finishing"
         /\ [s EXCEPT !.pc = "finishing", !.outcome = "failed", !.out = out].outcome = "failed"
  BY DEF Sessions, Finished

LEMMA SessionStarted ==
  /\ [Idle EXCEPT !.pc = "turn"] \in Sessions
  /\ [Idle EXCEPT !.pc = "turn"].pc = "turn"
  /\ [Idle EXCEPT !.pc = "turn"].outcome = "running"
  /\ [Idle EXCEPT !.pc = "finishing", !.outcome = "failed"] \in Sessions
  /\ [Idle EXCEPT !.pc = "finishing", !.outcome = "failed"].pc = "finishing"
  /\ [Idle EXCEPT !.pc = "finishing", !.outcome = "failed"].outcome = "failed"
  BY IdleTyped DEF Sessions, Finished

(* A delivery finds no session, and starts one only for an unfinished run.  *)
LEMMA DeliverSound ==
  ASSUME IInv, NEW r \in Runs, Deliver(r)
  PROVE  KeepsSound(r)
<1> USE DEF TypeOK
<1>1. TypeOK /\ SessionSound(r) /\ RequestSound(r) /\ FramePrecedesResult
  BY DEF IInv
<1>2. /\ queue' = queue \ {r} /\ unsaved' = unsaved \ {r}
      /\ UNCHANGED <<request, transcript, proposals, crashes>>
      /\ r \in queue /\ request[r].pc = "done" /\ session[r].pc = "idle"
  BY <1>1 DEF Deliver, SessionSound, RequestSound
<1>3. CASE run[r] \in {"pending", "running"}
  <2>1. run' = [run EXCEPT ![r] = "running"]
    BY <1>3 DEF Deliver
  <2>2. PICK s \in Sessions :
          /\ session' = [session EXCEPT ![r] = s]
          /\ s.pc \in {"turn", "finishing"} /\ s.outcome # "completed"
    <3>1. PICK ready \in BOOLEAN :
            session' = [session EXCEPT ![r] =
              IF ready THEN [Idle EXCEPT !.pc = "turn"]
                       ELSE [Idle EXCEPT !.pc = "finishing", !.outcome = "failed"]]
      BY <1>3 DEF Deliver
    <3> HIDE DEF Idle
    <3> QED
      BY <3>1, SessionStarted
  <2>3. session'[r] = s /\ run'[r] = "running"
    BY <1>1, <2>1, <2>2
  <2>4. TypeOK'
    BY <1>1, <1>2, <2>1, <2>2 DEF RunStatus
  <2>5. SessionSound(r)'
    BY <1>2, <2>2, <2>3 DEF SessionSound
  <2>6. RequestSound(r)'
    BY <1>1, <1>2, <2>3, Still DEF RequestSound, Kinds
  <2>7. OnlyRun(r)
    BY <1>1, <1>2, <2>1, <2>2 DEF OnlyRun
  <2> QED
    BY <1>1, <1>2, <2>3, <2>4, <2>5, <2>6, <2>7, Still DEF KeepsSound, Appends
<1>4. CASE run[r] \notin {"pending", "running"}
  <2>1. UNCHANGED <<run, session>>
    BY <1>4 DEF Deliver
  <2>2. TypeOK'
    BY <1>1, <1>2, <2>1
  <2>3. SessionSound(r)'
    BY <1>1, <1>2, <2>1, Still DEF SessionSound, Kinds
  <2>4. RequestSound(r)'
    BY <1>1, <1>2, <2>1, Still DEF RequestSound, Kinds
  <2>5. OnlyRun(r)
    BY <1>2, <2>1 DEF OnlyRun
  <2> QED
    BY <1>1, <1>2, <2>1, <2>2, <2>3, <2>4, <2>5, Still DEF KeepsSound, Appends
<1> QED
  BY <1>3, <1>4

(* Turns only change the session; what they want stored is a batch.         *)
LEMMA TurnSound ==
  ASSUME IInv, NEW r \in Runs, Guardrail(r) \/ Answer(r) \/ Propose(r)
  PROVE  KeepsSound(r)
<1> USE DEF TypeOK
<1>1. TypeOK /\ SessionSound(r) /\ RequestSound(r) /\ FramePrecedesResult
  BY DEF IInv
<1>2. /\ UNCHANGED <<run, request, queue, transcript, crashes, unsaved>>
      /\ session[r].pc = "turn" /\ proposals' \in [Runs -> Nat]
  <2>1. CASE Guardrail(r)
    BY <1>1, <2>1 DEF Guardrail, InTurn
  <2>2. CASE Answer(r)
    <3>1. UNCHANGED <<run, request, queue, transcript, proposals, crashes, unsaved>> /\ InTurn(r)
      BY <2>2 DEF Answer
    <3> QED
      BY <1>1, <3>1 DEF InTurn
  <2>3. CASE Propose(r)
    <3>1. /\ UNCHANGED <<run, request, queue, transcript, crashes, unsaved>> /\ InTurn(r)
          /\ proposals' = [proposals EXCEPT ![r] = @ + 1]
      BY <2>3 DEF Propose
    <3> QED
      BY <1>1, <3>1 DEF InTurn
  <2> QED
    BY <2>1, <2>2, <2>3
<1>3. r \notin queue /\ request[r].pc = "done" /\ run[r] = "running"
  BY <1>1, <1>2 DEF SessionSound
<1>4. PICK t \in Sessions : TurnEnd(t) /\ session' = [session EXCEPT ![r] = t]
  BY <1>1, TurnEnds
<1>5. session'[r] = t
  BY <1>1, <1>4
<1>6. TypeOK'
  BY <1>1, <1>2, <1>4
<1>7. SessionSound(r)'
  BY <1>2, <1>3, <1>4, <1>5 DEF SessionSound, TurnEnd
<1>8. RequestSound(r)'
  BY <1>1, <1>2, Still DEF RequestSound, Kinds
<1>9. OnlyRun(r)
  BY <1>1, <1>2, <1>4 DEF OnlyRun
<1> QED
  BY <1>1, <1>2, <1>6, <1>7, <1>8, <1>9, Still DEF KeepsSound, Appends

-----------------------------------------------------------------------------
(* Storing a message: read the last sequence number, ...                    *)
LEMMA StoreReadSound ==
  ASSUME IInv, NEW r \in Runs, StoreRead(r)
  PROVE  KeepsSound(r)
<1> USE DEF TypeOK
<1>1. TypeOK /\ SessionSound(r) /\ RequestSound(r) /\ FramePrecedesResult
  BY DEF IInv
<1>2. UNCHANGED <<run, request, queue, transcript, proposals, crashes, unsaved>> /\ session[r].pc = "reading"
  BY DEF StoreRead
<1>3. Len(transcript) \in Nat /\ session[r] \in Sessions
  BY <1>1
<1>4. PICK s \in Sessions :
        /\ session' = [session EXCEPT ![r] = s]
        /\ s.pc = "inserting" /\ s.outcome = session[r].outcome /\ s.out = session[r].out
  <2>1. PICK n \in Nat : n = Len(transcript)
    BY <1>3
  <2> DEFINE s == [session[r] EXCEPT !.pc = "inserting", !.seen = n]
  <2>2. s \in Sessions /\ s.pc = "inserting" /\ s.outcome = session[r].outcome /\ s.out = session[r].out
    BY <1>3, SessionMoved
  <2>3. session' = [session EXCEPT ![r] = s]
    BY <2>1 DEF StoreRead, Become
  <2> HIDE DEF s
  <2> QED
    BY <2>2, <2>3
<1>5. session'[r] = s
  BY <1>1, <1>4
<1>6. TypeOK'
  BY <1>1, <1>2, <1>4
<1>7. SessionSound(r)'
  BY <1>1, <1>2, <1>4, <1>5, Still DEF SessionSound, Kinds
<1>8. RequestSound(r)'
  BY <1>1, <1>2, Still DEF RequestSound, Kinds
<1>9. OnlyRun(r)
  BY <1>1, <1>2, <1>4 DEF OnlyRun
<1> QED
  BY <1>1, <1>2, <1>6, <1>7, <1>8, <1>9, Still DEF KeepsSound, Appends

(* ... and insert the next one, if nobody else did.  A batch's result comes *)
(* right after its frame, as far as this run is concerned.                  *)
LEMMA StoreInsertSound ==
  ASSUME IInv, NEW r \in Runs, StoreInsert(r)
  PROVE  KeepsSound(r)
<1> USE DEF TypeOK
<1>1. TypeOK /\ SessionSound(r) /\ RequestSound(r) /\ FramePrecedesResult
  BY DEF IInv
<1> DEFINE s == session[r]
           rest == Tail(s.out)
           pc == IF rest # <<>> THEN "reading"
                 ELSE IF s.outcome = "running" THEN "turn" ELSE "finishing"
<1>2. /\ UNCHANGED <<run, request, queue, proposals, crashes, unsaved>> /\ s.pc = "inserting"
      /\ s \in Sessions /\ s.out \in Batches /\ r \notin queue
      /\ request[r].pc = "done" /\ run[r] = "running"
  BY <1>1 DEF StoreInsert, SessionSound
<1>3. /\ Head(s.out) \in Kinds \ {"user"} /\ rest \in Seq(Kinds)
      /\ rest # <<>> => Head(s.out) = "frame" /\ rest = <<"result">>
      /\ Head(s.out) = "result" => s.out = <<"result">>
      /\ s.out = <<"text">> => Head(s.out) = "text" /\ rest = <<>>
  BY <1>2, BatchesShrink
<1>4. CASE s.seen = Len(transcript)
  <2>1. /\ transcript' = Append(transcript, Message(r, Head(s.out)))
        /\ session' = [session EXCEPT ![r] = [s EXCEPT !.out = rest, !.pc = pc]]
    BY <1>4 DEF StoreInsert, Become
  <2>2. PICK t \in Sessions :
          /\ session' = [session EXCEPT ![r] = t]
          /\ t.pc = pc /\ t.out = rest /\ t.outcome = s.outcome
    <3>1. pc \in {"reading", "turn", "finishing"}
      OBVIOUS
    <3> HIDE DEF s, rest, pc
    <3>2. /\ [s EXCEPT !.out = rest, !.pc = pc] \in Sessions
          /\ [s EXCEPT !.out = rest, !.pc = pc].pc = pc
          /\ [s EXCEPT !.out = rest, !.pc = pc].out = rest
          /\ [s EXCEPT !.out = rest, !.pc = pc].outcome = s.outcome
      BY <1>2, <1>3, <3>1 DEF Sessions
    <3> QED
      BY <2>1, <3>2
  <2>3. session'[r] = t
    BY <1>1, <2>2
  <2>4. PICK m \in Messages : m = Message(r, Head(s.out))
    BY <1>3 DEF Messages, Message
  <2>5. m.kind = Head(s.out) /\ m.run = r /\ transcript \in Seq(Messages)
        /\ transcript' = Append(transcript, m)
    BY <1>1, <2>1, <2>4 DEF Message
  <2>6. /\ Holds(r, "user") => Holds(r, "user")'
        /\ Holds(r, "text") => Holds(r, "text")'
        /\ Head(s.out) = "text" => Holds(r, "text")'
        /\ Head(s.out) = "frame" => FrameLast(r)'
        /\ transcript' \in Seq(Messages)
    BY <2>4, <2>5, GrowthKeeps DEF Kinds
  <2>7. FramePrecedesResult'
    <3>1. m.kind = "result" => FrameLast(m.run)
      BY <1>1, <1>2, <1>3, <2>5 DEF SessionSound
    <3> QED
      BY <1>1, <2>5, <3>1, GrowthOrdered
  <2>8. TypeOK'
    BY <1>1, <1>2, <2>2, <2>6
  <2>9. SessionSound(r)'
    <3>1. t.outcome = "completed" => Holds(r, "text")'
      BY <1>1, <1>2, <1>3, <2>2, <2>6 DEF SessionSound
    <3>2. t.pc = "reading" => t.out = <<"result">> /\ FrameLast(r)'
      BY <1>3, <2>2, <2>6
    <3>3. t.pc \in {"reading", "turn", "finishing"} /\ (t.pc = "turn" => t.outcome = "running")
      BY <2>2
    <3>4. <<"result">> \in Batches
      BY DEF Batches
    <3> HIDE DEF s, rest, pc
    <3> QED
      BY <1>2, <2>3, <3>1, <3>2, <3>3, <3>4 DEF SessionSound
  <2>10. RequestSound(r)'
    BY <1>1, <1>2, <2>6 DEF RequestSound
  <2>11. OnlyRun(r) /\ Appends(r)
    BY <1>1, <1>2, <1>3, <2>1, <2>2 DEF OnlyRun, Appends
  <2> QED
    BY <1>2, <2>7, <2>8, <2>9, <2>10, <2>11 DEF KeepsSound
<1>5. CASE s.seen # Len(transcript)
  <2>1. /\ transcript' = transcript
        /\ session' = [session EXCEPT ![r] =
             [s EXCEPT !.pc = "finishing", !.outcome = "failed", !.out = <<>>]]
    BY <1>5 DEF StoreInsert, Become
  <2>2. PICK t \in Sessions :
          session' = [session EXCEPT ![r] = t] /\ t.pc = "finishing" /\ t.outcome = "failed"
    <3> DEFINE t == [s EXCEPT !.pc = "finishing", !.outcome = "failed", !.out = <<>>]
    <3>1. t \in Sessions /\ t.pc = "finishing" /\ t.outcome = "failed"
      <4>1. PICK out \in Seq(Kinds) : out = <<>>
        <5>1. <<>> \in Seq(Kinds)
          BY IdleTyped DEF Idle, Sessions
        <5> QED
          BY <5>1
      <4> QED
        BY <1>2, <4>1, SessionFailed
    <3>2. session' = [session EXCEPT ![r] = t]
      BY <2>1
    <3> HIDE DEF t
    <3> QED
      BY <3>1, <3>2
  <2>3. session'[r] = t
    BY <1>1, <2>2
  <2>4. TypeOK'
    BY <1>1, <1>2, <2>1, <2>2
  <2>5. SessionSound(r)'
    BY <1>2, <2>2, <2>3 DEF SessionSound
  <2>6. RequestSound(r)'
    BY <1>1, <1>2, <2>1, Still DEF RequestSound, Kinds
  <2>7. OnlyRun(r)
    BY <1>1, <1>2, <2>2 DEF OnlyRun
  <2> QED
    BY <1>1, <1>2, <2>1, <2>4, <2>5, <2>6, <2>7, Still DEF KeepsSound, Appends
<1> QED
  BY <1>4, <1>5

(* Only a session that has its answer on record ends a run as completed.    *)
LEMMA EndSound ==
  ASSUME IInv, NEW r \in Runs,
         Finalize(r) \/ FinalizeLost(r) \/ Acknowledge(r) \/ WorkerLost(r)
  PROVE  KeepsSound(r)
<1> USE DEF TypeOK
<1>1. TypeOK /\ SessionSound(r) /\ RequestSound(r) /\ FramePrecedesResult /\ AnsweredWhenComplete
  BY DEF IInv
<1>2. UNCHANGED <<request, transcript, proposals>> /\ session[r].pc # "idle" /\ session[r] \in Sessions
  BY <1>1 DEF Finalize, FinalizeLost, Acknowledge, WorkerLost
<1>3. r \notin queue /\ request[r].pc = "done" /\ run[r] \notin {"none"}
  BY <1>1, <1>2 DEF SessionSound, RequestSound
<1>4. CASE Finalize(r)
  <2>1. /\ session[r].pc = "finishing" /\ run' = [run EXCEPT ![r] = session[r].outcome]
        /\ UNCHANGED <<queue, crashes, unsaved>>
    BY <1>4 DEF Finalize
  <2>2. session[r].outcome = "completed" => Holds(r, "text")
    BY <1>1, <2>1 DEF SessionSound
  <2>3. PICK s \in Sessions : /\ session' = [session EXCEPT ![r] = s]
                              /\ s.pc = "returning" /\ s.outcome = session[r].outcome
    BY <1>2, <1>4, SessionMoved DEF Finalize, Become
  <2>4. session'[r] = s /\ run'[r] = session[r].outcome
    BY <1>1, <2>1, <2>3
  <2>5. session[r].outcome \in RunStatus \ {"none", "pending"}
    BY <1>2 DEF Sessions, RunStatus, Finished
  <2>6. TypeOK'
    BY <1>1, <1>2, <2>1, <2>3, <2>5
  <2>7. SessionSound(r)'
    BY <1>2, <1>3, <2>1, <2>2, <2>3, <2>4, Still DEF SessionSound, Kinds
  <2>8. RequestSound(r)'
    BY <1>1, <1>2, <1>3, <2>1, <2>4, <2>5, Still DEF RequestSound, Kinds
  <2>9. OnlyRun(r)
    BY <1>1, <1>2, <2>1, <2>3 DEF OnlyRun
  <2> QED
    BY <1>1, <1>2, <2>2, <2>4, <2>6, <2>7, <2>8, <2>9, Still DEF KeepsSound, Appends
<1>6. CASE FinalizeLost(r)
  <2>1. session[r].pc = "finishing" /\ UNCHANGED <<run, queue, crashes>> /\ unsaved' = unsaved \cup {r}
    BY <1>6 DEF FinalizeLost
  <2>2. PICK s \in Sessions : /\ session' = [session EXCEPT ![r] = s]
                              /\ s.pc = "returning" /\ s.outcome = session[r].outcome
    BY <1>2, <1>6, SessionMoved DEF FinalizeLost, Become
  <2>3. session'[r] = s
    BY <1>1, <2>2
  <2>4. TypeOK'
    BY <1>1, <1>2, <2>1, <2>2
  <2>5. SessionSound(r)'
    BY <1>1, <1>2, <1>3, <2>1, <2>2, <2>3, Still DEF SessionSound, Kinds
  <2>6. RequestSound(r)'
    BY <1>1, <1>2, <2>1, Still DEF RequestSound, Kinds
  <2>7. OnlyRun(r)
    BY <1>1, <1>2, <2>1, <2>2 DEF OnlyRun
  <2> QED
    BY <1>1, <1>2, <2>1, <2>4, <2>5, <2>6, <2>7, Still DEF KeepsSound, Appends
<1>5. CASE Acknowledge(r) \/ WorkerLost(r)
  <2>1. /\ run' = run /\ session' = [session EXCEPT ![r] = Idle]
        /\ queue' = queue \/ queue' = queue \cup {r}
        /\ crashes' \in Nat /\ unsaved' = unsaved
    BY <1>1, <1>5 DEF Acknowledge, WorkerLost, Become
  <2> HIDE DEF Idle
  <2>2. session'[r] = Idle /\ session' \in [Runs -> Sessions]
    BY <1>1, <2>1, IdleTyped
  <2>3. TypeOK'
    BY <1>1, <1>2, <2>1, <2>2
  <2>4. SessionSound(r)'
    BY <2>2, IdleTyped DEF SessionSound
  <2>5. RequestSound(r)'
    BY <1>1, <1>2, <1>3, <2>1, Still DEF RequestSound, Kinds
  <2>6. OnlyRun(r)
    BY <1>1, <1>2, <2>1 DEF OnlyRun
  <2> QED
    BY <1>1, <1>2, <2>1, <2>3, <2>4, <2>5, <2>6, Still DEF KeepsSound, Appends
<1> QED
  BY <1>4, <1>5, <1>6

-----------------------------------------------------------------------------
LEMMA InitSound == Init => IInv
<1> SUFFICES ASSUME Init PROVE IInv
  OBVIOUS
<1> USE DEF Init
<1>1. TypeOK
  BY IdleTyped DEF TypeOK, RunStatus, Requests
<1>2. ASSUME NEW r \in Runs PROVE SessionSound(r) /\ RequestSound(r)
  BY IdleTyped DEF SessionSound, RequestSound
<1>3. AnsweredWhenComplete /\ FramePrecedesResult
  BY DEF AnsweredWhenComplete, FramePrecedesResult
<1> QED
  BY <1>1, <1>2, <1>3 DEF IInv

LEMMA StepSound == IInv /\ [Next]_vars => IInv'
<1> SUFFICES ASSUME IInv, [Next]_vars PROVE IInv'
  OBVIOUS
<1>1. CASE Next
  <2>1. PICK r \in Runs :
          \/ Post(r) \/ PostRead(r) \/ PostInsert(r) \/ PostSend(r)
          \/ SessionStep(r) \/ WorkerLost(r)
    BY <1>1 DEF Next
  <2>2. KeepsSound(r)
    BY <2>1, PostsSound, DeliverSound, TurnSound, StoreReadSound, StoreInsertSound, EndSound
       DEF SessionStep
  <2> QED
    BY <2>2, SoundTogether
<1>2. CASE UNCHANGED vars
  <2>1. UNCHANGED <<run, request, queue, session, transcript, proposals, crashes, unsaved>>
    BY <1>2 DEF vars
  <2>2. TypeOK'
    BY <2>1 DEF IInv, TypeOK
  <2>3. ASSUME NEW r \in Runs PROVE SessionSound(r)' /\ RequestSound(r)'
    BY <2>1, Still DEF IInv, SessionSound, RequestSound, Kinds
  <2>4. AnsweredWhenComplete' /\ FramePrecedesResult'
    BY <2>1, Still DEF IInv, AnsweredWhenComplete, Kinds
  <2> QED
    BY <2>2, <2>3, <2>4 DEF IInv
<1> QED
  BY <1>1, <1>2

LEMMA Invariance == Spec => []IInv
  BY InitSound, StepSound, PTL DEF Spec

(* Type correctness: the counters of a session never pass the limits of its *)
(* agent, at any of the turns it is checked or not.                         *)
THEOREM TypeCorrect == Spec => []TypeOK
<1>1. IInv => TypeOK
  BY DEF IInv
<1> QED
  BY <1>1, Invariance, PTL

(* A run starts only with its user's message in the transcript, whatever    *)
(* the requests of other runs collide with.                                 *)
THEOREM AskedFirst == Spec => []AskedBeforeRunning
<1>1. IInv => AskedBeforeRunning
  <2> SUFFICES ASSUME IInv, NEW r \in Runs, run[r] \notin {"none", "pending"}
               PROVE  Holds(r, "user")
    BY DEF AskedBeforeRunning
  <2> QED
    BY DEF IInv, RequestSound
<1> QED
  BY <1>1, Invariance, PTL

(* A completed run has its answer in the transcript, although messages are  *)
(* numbered without a lock and a collision makes one of them fail.          *)
THEOREM AnsweredFirst == Spec => []AnsweredWhenComplete
<1>1. IInv => AnsweredWhenComplete
  BY DEF IInv
<1> QED
  BY <1>1, Invariance, PTL

(* However runs, requests and redeliveries mix their messages, a tool's     *)
(* result is the first message of its run after its frame.                  *)
THEOREM ResultsFollowFrames == Spec => []FramePrecedesResult
<1>1. IInv => FramePrecedesResult
  BY DEF IInv
<1> QED
  BY <1>1, Invariance, PTL

(* Only a session whose run is under way ends it or proposes.              *)
LEMMA FinishedStep ==
  IInv /\ [Next]_vars =>
    [\A r \in Runs : run[r] \in Finished => run'[r] = run[r] /\ proposals'[r] = proposals[r]]_vars
<1> SUFFICES ASSUME IInv, Next, NEW r \in Runs, run[r] \in Finished
             PROVE  run'[r] = run[r] /\ proposals'[r] = proposals[r]
  BY DEF vars
<1>1. TypeOK /\ run[r] \notin {"none", "pending", "running"}
  BY DEF IInv, Finished
<1>2. PICK q \in Runs :
        \/ Post(q) \/ PostRead(q) \/ PostInsert(q) \/ PostSend(q)
        \/ SessionStep(q) \/ WorkerLost(q)
  BY DEF Next
<1>3. session[r].pc \notin {"turn", "reading", "inserting", "finishing"}
  BY <1>1 DEF IInv, SessionSound
<1>4. CASE Post(q)
  BY <1>1, <1>4 DEF Post, TypeOK
<1>5. CASE PostRead(q) \/ PostInsert(q) \/ PostSend(q) \/ WorkerLost(q)
  BY <1>5 DEF PostRead, PostInsert, PostSend, WorkerLost
<1>6. CASE Deliver(q)
  BY <1>1, <1>6 DEF Deliver, TypeOK
<1>7. CASE Guardrail(q) \/ StoreRead(q) \/ StoreInsert(q) \/ FinalizeLost(q) \/ Acknowledge(q)
  BY <1>7 DEF Guardrail, StoreRead, StoreInsert, FinalizeLost, Acknowledge
<1>8. CASE Answer(q)
  BY <1>8 DEF Answer
<1>9. CASE Propose(q)
  <2>1. proposals' = [proposals EXCEPT ![q] = @ + 1] /\ run' = run /\ q # r
    BY <1>3, <1>9 DEF Propose, InTurn
  <2> QED
    BY <1>1, <2>1 DEF TypeOK
<1>10. CASE Finalize(q)
  <2>1. run' = [run EXCEPT ![q] = session[q].outcome] /\ proposals' = proposals /\ q # r
    BY <1>3, <1>10 DEF Finalize
  <2> QED
    BY <1>1, <2>1 DEF TypeOK
<1> QED
  BY <1>2, <1>4, <1>5, <1>6, <1>7, <1>8, <1>9, <1>10 DEF SessionStep

(* A run that is finished proposes nothing more and is never finished       *)
(* another way, however often its task is delivered.                        *)
THEOREM FinishedForGood == Spec => FinishedStays
<1>1. IInv /\ [Next]_vars =>
        [\A r \in Runs : run[r] \in Finished => run'[r] = run[r] /\ proposals'[r] = proposals[r]]_vars
  BY FinishedStep
<1> QED
  BY <1>1, Invariance, PTL DEF Spec, FinishedStays
=============================================================================
