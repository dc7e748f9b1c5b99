------------------------------- MODULE Crowd -------------------------------
(***************************************************************************)
(* Move requests of a detour_crowd.Crowd: what becomes of a target between  *)
(* RequestMoveTarget and a corridor that leads there.                       *)
(*                                                                          *)
(* Crowd.Update is one call.  `pc' is its phase and `next' the agent whose  *)
(* turn it is in a loop over the agents; client calls need pc = "idle".     *)
(* Steering, avoidance and movement keep target state, queue and search as  *)
(* they are and are left out.  A corridor is the request whose search found *)
(* it, or NoRequest for just the polygon the agent stands on.  A request may *)
(* be out of date, for an agent keeps its polygon and its target while tiles *)
(* are rebuilt; `lost' is history: the agent's last search was refused.      *)
(***************************************************************************)
EXTENDS PathQueue

CONSTANTS
    MaxAgents,   \* maxAgents
    Goals,       \* target polygons (and positions)
    QuickIters,  \* 20: iterations of the quick search of updateMoveRequest
    TopoIters,   \* 32: iterations of OptimizePathTopology
    Calls,       \* bound of the model: client calls
    Changes,     \* bound of the model: changes of the mesh, noticed or not
    NoGoal       \* targetRef == 0

Agent == 1..MaxAgents
Targets == {"none", "failed", "valid", "requesting", "waitqueue", "waitpath", "velocity"}

ASSUME CrowdAssumption ==
    /\ MaxAgents \in Nat \ {0}
    /\ NoGoal \notin Goals
    /\ Requests = [agent : Agent, goal : Goals]
    /\ QuickIters \in Nat \ {0} /\ TopoIters \in Nat \ {0}
    /\ Calls \in Nat /\ Changes \in Nat

VARIABLES
    agents,  \* agents[a]: active, walking (state), target, goal, pathq, corridor,
             \* and lost
    pc,      \* phase of Update
    next,    \* the agent whose turn it is in the phase's loop
    calls,   \* client calls so far
    changes  \* changes of the mesh so far

crowdVars == <<agents, pc, next, calls, changes>>
vars == <<queueVars, crowdVars>>

TypeOK ==
    /\ QueueTypeOK
    /\ agents \in [Agent -> [active : BOOLEAN, walking : BOOLEAN, target : Targets,
                             goal : Goals \cup {NoGoal}, pathq : 0..(HandleMod - 1),
                             corridor : Requests \cup {NoRequest}, lost : BOOLEAN]]
    /\ pc \in {"idle", "check", "fire", "submit", "visit", "results", "optimize"}
    /\ next \in 1..(MaxAgents + 1)
    /\ calls \in 0..Calls /\ changes \in 0..Changes

Own(a) == [agent |-> a, goal |-> agents[a].goal]
Moves(ag) == ag.target \notin {"none", "velocity"}

\* RequestMoveTarget(Replan), on the agent's record.
Requesting(ag, goal) ==
    [ag EXCEPT !.goal = goal, !.pathq = 0,
               !.target = IF goal # NoGoal THEN "requesting" ELSE "failed"]

----------------------------------------------------------------------------
(* Client calls.  Only RemoveAgent is limited to agents in use, for it does  *)
(* nothing to others; the code checks no more than the index.               *)

ClientCall(a, ag) ==
    /\ pc = "idle" /\ calls < Calls
    /\ calls' = calls + 1
    /\ agents' = [agents EXCEPT ![a] = ag]
    /\ UNCHANGED <<queueVars, pc, next, changes>>

\* Tiles are removed, rebuilt or put back, and what agents ask for is out of date.
RefuseRequests ==
    /\ pc = "idle" /\ changes < Changes
    /\ changes' = changes + 1
    /\ MeshChange
    /\ UNCHANGED <<agents, pc, next, calls>>

\* The first free slot; nothing but the target request of its last user stays.
AddAgent(placed) ==
    \E a \in Agent :
        /\ ~agents[a].active /\ \A b \in Agent : b < a => agents[b].active
        /\ ClientCall(a, [agents[a] EXCEPT !.active = TRUE, !.walking = placed,
                             !.target = "none", !.corridor = NoRequest])

RemoveAgent(a) ==
    /\ agents[a].active
    /\ ClientCall(a, [agents[a] EXCEPT !.active = FALSE])

RequestMoveTarget(a, goal) == ClientCall(a, Requesting(agents[a], goal))

RequestMoveVelocity(a) ==
    ClientCall(a, [agents[a] EXCEPT !.goal = NoGoal, !.pathq = 0, !.target = "velocity"])

ResetMoveTarget(a) ==
    ClientCall(a, [agents[a] EXCEPT !.goal = NoGoal, !.pathq = 0, !.target = "none"])

----------------------------------------------------------------------------
(* Update *)

Phase(p) == pc = p /\ next \in Agent

\* End of a loop over the agents: on to the next phase.
Turn(from, to) ==
    /\ pc = from /\ next > MaxAgents
    /\ pc' = to /\ next' = 1
    /\ UNCHANGED <<queueVars, agents, calls, changes>>

Update ==
    /\ pc = "idle"
    /\ pc' = "check" /\ next' = 1
    /\ UNCHANGED <<queueVars, agents, calls, changes>>

\* What checkPathValidity may find for a walking agent: a repositioned agent,
\* a broken corridor or one that ends short of the target (replan), a target
\* that moved or is gone, or no mesh near the agent at all.
Noticed(ag) ==
    LET replanned == IF ag.target = "none" THEN ag ELSE Requesting(ag, ag.goal) IN
    {[ag EXCEPT !.walking = FALSE, !.corridor = NoRequest]}
    \cup IF ~Moves(ag) THEN {}
         ELSE {replanned}
              \cup IF ag.target = "failed" THEN {}
                   ELSE {Requesting(ag, g) : g \in Goals}
                        \cup {[ag EXCEPT !.goal = NoGoal, !.target = "none",
                                         !.corridor = NoRequest]}

CheckPathValidity ==
    /\ Phase("check")
    /\ next' = next + 1
    /\ LET ag == agents[next] IN
       \/ UNCHANGED <<agents, changes>>
       \/ /\ ag.active /\ ag.walking /\ changes < Changes
          /\ \E new \in Noticed(ag) : agents' = [agents EXCEPT ![next] = new]
          /\ changes' = changes + 1
    /\ UNCHANGED <<queueVars, pc, calls>>

Reaches(path, goal) == path # NoRequest /\ path.goal = goal /\ End[path] = "goal"

\* The quick search of an agent whose target is new, with the shared query.
\* The corridor becomes the path found, unless the search is not through.  The
\* error of a search that is refused is dropped: the path is another's then.
FireRequest ==
    /\ Phase("fire")
    /\ next' = next + 1
    /\ LET ag == agents[next] IN
       IF ag.active /\ ag.walking /\ ag.target = "requesting"
       THEN LET sq == UpdateSlicedPath(FindPathSliced(search, Own(next)), QuickIters)
                path == IF sq.err = "nil" THEN sq.req ELSE NoRequest IN
            /\ search' = sq
            /\ agents' = [agents EXCEPT ![next].corridor = path, ![next].lost = (Own(next) \in stale),
                   ![next].target = IF Reaches(path, ag.goal) THEN "valid" ELSE "waitqueue"]
       ELSE UNCHANGED <<search, agents>>
    /\ UNCHANGED <<queue, nextHandle, queueHead, visits, iterCount, stale, pc, calls, changes>>

\* Agents that wait for the queue ask it, in turn; a full queue returns 0.
SubmitRequest ==
    /\ Phase("submit")
    /\ next' = next + 1
    /\ LET ag == agents[next] IN
       IF ag.active /\ ag.walking /\ ag.target = "waitqueue"
       THEN IF EmptySlot # {}
            THEN /\ Submit(Own(next))
                 /\ agents' = [agents EXCEPT ![next].pathq = nextHandle,
                                             ![next].target = "waitpath"]
            ELSE /\ agents' = [agents EXCEPT ![next].pathq = 0]
                 /\ UNCHANGED <<queue, nextHandle>>
       ELSE UNCHANGED <<queue, nextHandle, agents>>
    /\ UNCHANGED <<queueHead, search, visits, iterCount, stale, pc, calls, changes>>

\* pathQueue.Update(maxItersPerUpdate)
QueueCall ==
    /\ pc = "submit" /\ next > MaxAgents
    /\ UpdateCall
    /\ pc' = "visit"
    /\ UNCHANGED <<agents, next, calls, changes>>

QueueVisit ==
    /\ pc = "visit"
    /\ Visit
    /\ UNCHANGED crowdVars

QueueReturn ==
    /\ pc = "visit" /\ visits = 0
    /\ pc' = "results" /\ next' = 1
    /\ UNCHANGED <<queueVars, agents, calls, changes>>

\* What an agent makes of its answer: any error of the request, "in progress"
\* too, sends it back to Requesting; a path is good if it starts where the
\* corridor ends.
Answered(a, s) ==
    LET path == queue[s].path IN
    IF path # NoRequest /\ path.agent = a
    THEN [agents[a] EXCEPT !.target = "valid", !.corridor = path]
    ELSE [agents[a] EXCEPT !.target = "failed"]

RetryMut(ag) == ag
Retry(ag) == Requesting(ag, ag.goal)

TakeResult ==
    /\ Phase("results")
    /\ next' = next + 1
    /\ LET ag == agents[next] IN
       IF ag.active /\ ag.target = "waitpath"
       THEN IF GetRequestErr(ag.pathq) # "nil"
            THEN /\ agents' = [agents EXCEPT ![next] = Retry(ag)]
                 /\ UNCHANGED queue
            ELSE \E s \in Holding(ag.pathq) :
                    /\ agents' = [agents EXCEPT ![next] = Answered(next, s)]
                    /\ queue' = Released(s)
       ELSE UNCHANGED <<agents, queue>>
    /\ UNCHANGED <<nextHandle, queueHead, search, visits, iterCount, stale, pc, calls, changes>>

\* OptimizePathTopology, when its time has come, searches with the shared
\* query once more; the corridor keeps its end.  Agents without a target end
\* the update with a corridor of one polygon.
Optimize ==
    /\ Phase("optimize")
    /\ next' = next + 1
    /\ LET ag == agents[next] IN
       \/ /\ ag.active /\ ag.walking /\ Moves(ag) /\ ag.corridor # NoRequest
          /\ search' = UpdateSlicedPath(FindPathSliced(search, ag.corridor), TopoIters)
          /\ agents' = [agents EXCEPT ![next].lost = @ \/ ag.corridor \in stale]
       \/ /\ agents' = IF ag.active /\ ag.walking /\ ~Moves(ag)
                       THEN [agents EXCEPT ![next].corridor = NoRequest] ELSE agents
          /\ UNCHANGED search
    /\ UNCHANGED <<queue, nextHandle, queueHead, visits, iterCount, stale, pc, calls, changes>>

----------------------------------------------------------------------------

Init ==
    /\ QueueInit
    /\ agents = [a \in Agent |-> [active |-> FALSE, walking |-> FALSE, target |-> "none",
                                  goal |-> NoGoal, pathq |-> 0, corridor |-> NoRequest,
                                  lost |-> FALSE]]
    /\ pc = "idle" /\ next = 1 /\ calls = 0 /\ changes = 0

UpdateStep ==
    \/ CheckPathValidity \/ Turn("check", "fire")
    \/ FireRequest \/ Turn("fire", "submit")
    \/ SubmitRequest
    \/ QueueCall \/ QueueVisit \/ QueueReturn
    \/ TakeResult \/ Turn("results", "optimize")
    \/ Optimize \/ Turn("optimize", "idle")

ClientStep ==
    \/ \E placed \in BOOLEAN : AddAgent(placed)
    \/ \E a \in Agent : RemoveAgent(a) \/ RequestMoveVelocity(a) \/ ResetMoveTarget(a)
    \/ \E a \in Agent, goal \in Goals : RequestMoveTarget(a, goal)

Next == ClientStep \/ RefuseRequests \/ Update \/ UpdateStep

Spec == Init /\ [][Next]_vars

\* The game loop calls Update every frame and a call returns.
FairSpec == Spec /\ WF_vars(Update) /\ WF_vars(UpdateStep)

----------------------------------------------------------------------------
(* Properties *)

\* An agent with a valid target follows a path to that target, and one that was
\* searched for it, although all searches share one query that each of them
\* takes from the others.  An agent whose own search was refused may be given
\* another's path; searches refused to others do it no harm (updateMoveRequest).
FollowsOwnPath ==
    \A a \in Agent : agents[a].active /\ agents[a].walking /\ agents[a].target = "valid"
        => /\ agents[a].corridor # NoRequest /\ agents[a].corridor.goal = agents[a].goal
           /\ agents[a].lost \/ agents[a].corridor = Own(a)

\* "Quick search towards the goal": the path an agent goes by after a quick
\* search was searched for from where that agent is (updateMoveRequest).  The code
\* does not keep this for a search that is refused (README, section 7).
QuickSearchOwn ==
    \A a \in Agent : agents[a].active /\ agents[a].walking
                     /\ agents[a].target \in {"waitqueue", "valid"}
        => agents[a].corridor = NoRequest \/ agents[a].corridor.agent = a

\* Agents that wait for a path wait for a request of their own that is in the
\* queue: slots given up by others or freed by age never answer them.
WaitsForOwnRequest ==
    \A a \in Agent : agents[a].active /\ agents[a].target = "waitpath" =>
        \E s \in Holding(agents[a].pathq) : queue[s].req = Own(a)

\* No agent is left waiting for an answer when Update returns.
NobodyForgotten ==
    pc = "idle" => \A a \in Agent : agents[a].active => agents[a].target # "waitpath"

\* Slots whose agents lost interest come back: every slot is free again and
\* again, however searches are taken over (RemoveAgent, RequestMoveTarget,
\* PathQueue.Update).
SlotsComeBack == \A s \in Slot : []<>(queue[s].ref = 0)

\* "Update async move request and path finder": a request is decided sooner
\* or later, however long its search takes.
RequestsDecided ==
    \A a \in Agent :
        agents[a].active /\ agents[a].walking /\ agents[a].target = "requesting"
            ~> ~agents[a].active \/ ~agents[a].walking
               \/ agents[a].target \in {"valid", "failed", "none", "velocity"}
=============================================================================
