---------------------------- MODULE MCAgentRuns ----------------------------
(* Small instances of AgentRuns: one or two runs of a conversation.         *)
EXTENDS AgentRuns, TLC

RunSymmetry == Permutations(Runs)

(* A user who sends a message only when nothing of the last one is left.    *)
OneAtATime ==
  \A r \in Runs : run'[r] # run[r] /\ run[r] = "none" =>
    /\ queue = {}
    /\ \A s \in Runs : /\ request[s].pc \in {"none", "done", "refused"}
                       /\ session[s].pc = "idle"
SerialSpec == Init /\ [][Next /\ OneAtATime]_vars
=============================================================================
