------------------------------- MODULE Presence -------------------------------
(***************************************************************************)
(* Who is online (chat/presence.py, driven by chat/consumers.py): each      *)
(* socket of a user has a lease in one cache entry, which is read, changed  *)
(* and written back without a lock by the threads of any worker process.    *)
(* Users do not share entries: this is one of them.  Time is counted in     *)
(* heartbeats; a cache round trip takes less than one.                      *)
(***************************************************************************)
EXTENDS Naturals

CONSTANTS
  Sockets,  \* ChatConsumer instances of the user, each with its connection_id
  Viewers,  \* requests that ask whether the user is online
  LeaseTTL  \* PRESENCE_CONNECTION_TTL in heartbeats

ASSUME PresenceAssumption ==
  LeaseTTL \in Nat \ {0} /\ Sockets \cap Viewers = {}

VARIABLES
  socket, \* life of each socket
  online, \* the cache entry: age of each lease, or NoLease
  call,   \* the presence function each thread is in, and what it has read
  beating \* sockets whose heartbeat is due

presenceVars == <<socket, online, call, beating>>

NoLease == LeaseTTL + 1 \* not in the entry; a lease as old as LeaseTTL is stale
Beating == {"open", "failed"} \* with a heartbeat task
Entries == [Sockets -> 0 .. NoLease]
NoCall == [does |-> "nothing"]

(* _prune.                                                                  *)
Bug_Unpruned(cached) == cached \* the reference count this model replaced
Pruned(cached) == [s \in Sockets |-> IF cached[s] >= LeaseTTL THEN NoLease ELSE cached[s]]

(* bulk_online_status: the sockets that make the user appear online.        *)
Fresh(cached) == {s \in Sockets : Pruned(cached)[s] # NoLease}

PresenceInit ==
  /\ socket = [s \in Sockets |-> "new"]
  /\ online = [s \in Sockets |-> NoLease]
  /\ call = [t \in Sockets \cup Viewers |-> NoCall]
  /\ beating = {}

-----------------------------------------------------------------------------
(* A thread reads the entry.                                                *)
Fetch(t, does) ==
  /\ call[t] = NoCall
  /\ call' = [call EXCEPT ![t] = [does |-> does, read |-> online]]
  /\ UNCHANGED online

(* connect: mark_online.                                                    *)
Connect(s) ==
  /\ socket[s] = "new"
  /\ socket' = [socket EXCEPT ![s] = "open"]
  /\ Fetch(s, "mark_online")
  /\ UNCHANGED beating

(* _heartbeat: touch.                                                       *)
Heartbeat(s) ==
  /\ socket[s] \in Beating /\ s \in beating
  /\ beating' = beating \ {s}
  /\ Fetch(s, "touch")
  /\ UNCHANGED socket

(* disconnect, handled after connect has returned, cancels the heartbeat; a *)
(* touch in its thread goes on.                                             *)
Bug_HeartbeatGoesOn(s) == \* heartbeat_task.cancel() is forgotten
  /\ socket[s] = "open" /\ call[s].does # "mark_online"
  /\ socket' = [socket EXCEPT ![s] = "closing"]
  /\ UNCHANGED <<online, call, beating>>
Disconnect(s) ==
  /\ socket[s] = "open" /\ call[s].does # "mark_online"
  /\ socket' = [socket EXCEPT ![s] = "closing"]
  /\ beating' = beating \ {s}
  /\ UNCHANGED <<online, call>>

(* A handler raises: the consumer ends without disconnect, and nothing      *)
(* cancels its heartbeat.                                                   *)
Fail(s) ==
  /\ socket[s] = "open" /\ call[s].does # "mark_online"
  /\ socket' = [socket EXCEPT ![s] = "failed"]
  /\ UNCHANGED <<online, call, beating>>

(* _delayed_mark_offline.                                                   *)
MarkOffline(s) ==
  /\ socket[s] = "closing"
  /\ socket' = [socket EXCEPT ![s] = "closed"]
  /\ Fetch(s, "mark_offline")
  /\ UNCHANGED beating

(* is_online.                                                               *)
Look(v) ==
  /\ Fetch(v, "look")
  /\ UNCHANGED <<socket, beating>>

(* What the call writes back, the cleanup of _read included.                *)
Written(t) ==
  LET cached == Pruned(call[t].read)
      does == call[t].does
  IN  IF does = "mark_online" \/ (does = "touch" /\ cached[t] # NoLease)
      THEN [cached EXCEPT ![t] = 0]
      ELSE IF does = "mark_offline" THEN [cached EXCEPT ![t] = NoLease]
      ELSE cached

(* The rest of the call: nothing is written if nothing has changed.         *)
Return(t) ==
  /\ call[t] # NoCall
  /\ online' = IF call[t].does # "mark_online" /\ Written(t) = call[t].read
              THEN online ELSE Written(t)
  /\ call' = [call EXCEPT ![t] = NoCall]
  /\ UNCHANGED <<socket, beating>>

(* The worker process of a socket is killed: no disconnect, no write.       *)
Kill(s) ==
  /\ socket[s] \in {"open", "failed", "closing", "closed"}
  /\ socket' = [socket EXCEPT ![s] = "dead"]
  /\ call' = [call EXCEPT ![s] = NoCall]
  /\ beating' = beating \ {s}
  /\ UNCHANGED online

(* A heartbeat interval passes: calls are over, heartbeats were made.       *)
PassInterval ==
  /\ \A t \in DOMAIN call : call[t] = NoCall
  /\ beating = {}
  /\ beating' = {s \in Sockets : socket[s] \in Beating}
  /\ online' = [s \in Sockets |-> IF online[s] >= LeaseTTL THEN online[s] ELSE online[s] + 1]
  /\ UNCHANGED <<socket, call>>

PresenceNext ==
  \/ \E s \in Sockets : \/ Connect(s) \/ Heartbeat(s) \/ Disconnect(s) \/ Fail(s)
                        \/ MarkOffline(s) \/ Kill(s)
  \/ \E v \in Viewers : Look(v)
  \/ \E t \in Sockets \cup Viewers : Return(t)
  \/ PassInterval

PresenceSpec == PresenceInit /\ [][PresenceNext]_presenceVars

(* Threads return, timers fire, and time passes.                            *)
PresenceFairness ==
  /\ \A t \in Sockets \cup Viewers : WF_presenceVars(Return(t))
  /\ \A s \in Sockets : WF_presenceVars(Heartbeat(s))
  /\ SF_presenceVars(PassInterval)

PresenceFairSpec == PresenceSpec /\ PresenceFairness

-----------------------------------------------------------------------------
(* Every variable holds a value of its kind.                                *)
PresenceTypeOK ==
  /\ socket \in [Sockets -> {"new", "open", "failed", "closing", "closed", "dead"}]
  /\ online \in Entries
  /\ call \in [Sockets \cup Viewers -> {NoCall} \cup
       [does: {"mark_online", "touch", "mark_offline", "look"}, read: Entries]]
  /\ beating \subseteq {s \in Sockets : socket[s] \in Beating}

(* A worker killed without a disconnect "can never leave a user permanently  *)
(* stuck online": a socket that is closed or dead stops counting for ever,   *)
(* though calls that were under way may write its lease once more and other  *)
(* sockets keep the entry alive.                                            *)
GhostsFade ==
  \A s \in Sockets :
    socket[s] \in {"closing", "closed", "dead"} ~> [](s \notin Fresh(online))

(* Not true: nor does a socket whose consumer failed count for ever.         *)
FailedFades ==
  \A s \in Sockets : socket[s] = "failed" ~> s \notin Fresh(online)

(* Not true: "correct regardless of how many worker processes serve          *)
(* sockets": a user with an open socket and no call under way is online.     *)
ConnectedIsOnline ==
  (\E s \in Sockets : socket[s] = "open") /\ (\A t \in DOMAIN call : call[t] = NoCall)
    => Fresh(online) # {}
=============================================================================
