------------------------------ MODULE MCCrowd ------------------------------
(* Crowds and queues for TLC.  One iteration stands for 20 of the code's:   *)
(* `near' is found by the quick search, `far' in one Update of the queue,   *)
(* `slow' in none, and `island' cannot be reached.                          *)
EXTENDS Crowd
CONSTANTS near, far, slow, island
MCWork == [q \in Requests |-> CASE q.goal = near -> 1 [] q.goal = far -> 4
                                [] q.goal = slow -> 7 [] OTHER -> 1]
MCEnd == [q \in Requests |-> IF q.goal = island THEN "drained" ELSE "goal"]
\* The places of `far' and of agent 2 may be rebuilt.
MCOutdates == {{q \in Requests : q.goal = far}, {q \in Requests : q.agent = 2}}
MCRequests == [agent : 1..MaxAgents, goal : Goals]
=============================================================================
