----------------------------- MODULE CrowdProofs -----------------------------
(***************************************************************************)
(* Theorems about Crowd and the path queue it uses.                         *)
(***************************************************************************)
EXTENDS Crowd, TLAPS

----------------------------------------------------------------------------
(* Type correctness *)

PathQuery == [ref : 0..(HandleMod - 1), req : Requests \cup {NoRequest},
              err : {"nil", "busy", "failed"}, path : Requests \cup {NoRequest},
              keepAlive : 0..(MaxKeepAlive + 1)]
Search == [req : Requests \cup {NoRequest}, left : Nat, err : {"nil", "busy", "failed"}]
CrowdAgent == [active : BOOLEAN, walking : BOOLEAN, target : Targets,
               goal : Goals \cup {NoGoal}, pathq : 0..(HandleMod - 1),
               corridor : Requests \cup {NoRequest}, lost : BOOLEAN]

\* A slot in use holds a request, and has not outlived its answer.
QueueSound ==
    \A s \in Slot : queue[s].ref # 0 =>
        queue[s].req \in Requests /\ queue[s].keepAlive <= MaxKeepAlive

\* An agent with something to look for has a goal.
GoalsKnown ==
    \A a \in Agent : agents[a].target \in {"valid", "requesting", "waitqueue", "waitpath"}
        => agents[a].goal \in Goals

TypeInv == TypeOK /\ QueueSound /\ GoalsKnown

\* The declared types, by the names above.
LEMMA TypeNames ==
    /\ QueueTypeOK <=>
          /\ queue \in [Slot -> PathQuery] /\ nextHandle \in 1..(HandleMod - 1)
          /\ queueHead \in Slot /\ search \in Search
          /\ visits \in 0..Slots /\ iterCount \in 0..MaxIters /\ stale \subseteq Requests
    /\ TypeOK <=>
          /\ QueueTypeOK /\ agents \in [Agent -> CrowdAgent]
          /\ pc \in {"idle", "check", "fire", "submit", "visit", "results", "optimize"}
          /\ next \in 1..(MaxAgents + 1)
          /\ calls \in 0..Calls /\ changes \in 0..Changes
  BY DEF QueueTypeOK, TypeOK, PathQuery, Search, CrowdAgent

\* The constants, in the form the proofs use.
LEMMA Constants ==
    /\ Slots \in Nat \ {0} /\ MaxIters \in Nat \ {0} /\ HandleMod \in Nat /\ HandleMod >= 3
    /\ MaxAgents \in Nat \ {0} /\ QuickIters \in Nat \ {0} /\ TopoIters \in Nat \ {0}
    /\ Calls \in Nat /\ Changes \in Nat
    /\ NoRequest \notin Requests /\ NoGoal \notin Goals
    /\ \A q \in Requests : Work[q] \in Nat \ {0}
  BY PathQueueAssumption, CrowdAssumption

\* An agent's own request, when it has a goal.
LEMMA OwnRequest ==
    ASSUME NEW a \in Agent, agents[a].goal \in Goals
    PROVE  Own(a) \in Requests
  BY CrowdAssumption DEF Own

\* Starting and advancing a search keeps it a search.
LEMMA SearchType ==
    /\ \A sq \in Search, q \in Requests : FindPathSliced(sq, q) \in Search
    /\ \A sq \in Search, n \in Nat :
          /\ UpdateSlicedPath(sq, n) \in Search
          /\ UpdateSlicedPath(sq, n).req = sq.req
          /\ SliceErr(sq, n) \in {"nil", "busy", "failed"}
<1>1. ASSUME NEW sq \in Search, NEW q \in Requests PROVE FindPathSliced(sq, q) \in Search
  BY Constants DEF FindPathSliced, Search
<1>2. ASSUME NEW sq \in Search, NEW n \in Nat
      PROVE  /\ UpdateSlicedPath(sq, n) \in Search
             /\ UpdateSlicedPath(sq, n).req = sq.req
  <2>1. CASE sq.err # "busy"
    BY <2>1 DEF UpdateSlicedPath
  <2>2. CASE sq.err = "busy" /\ sq.left > n
    <3>1. UpdateSlicedPath(sq, n) = [sq EXCEPT !.left = @ - n]
      BY <2>2 DEF UpdateSlicedPath
    <3>2. sq.left - n \in Nat
      BY <2>2 DEF Search
    <3> QED
      BY <3>1, <3>2 DEF Search
  <2>3. CASE sq.err = "busy" /\ ~(sq.left > n)
    <3> DEFINE e == IF End[sq.req] = "nodes" THEN "failed" ELSE "nil"
    <3>1. e \in {"failed", "nil"}
      OBVIOUS
    <3>2. UpdateSlicedPath(sq, n) = [sq EXCEPT !.left = 0, !.err = e]
      BY <2>3 DEF UpdateSlicedPath
    <3> HIDE DEF e
    <3>3. ASSUME NEW ended \in Search
          PROVE  [ended EXCEPT !.err = e] \in Search /\ [ended EXCEPT !.err = e].req = ended.req
      BY <3>1 DEF Search
    <3>4. [sq EXCEPT !.left = 0] \in Search /\ [sq EXCEPT !.left = 0].req = sq.req
      BY DEF Search
    <3>5. UpdateSlicedPath(sq, n) = [[sq EXCEPT !.left = 0] EXCEPT !.err = e]
      BY <3>2
    <3> QED
      BY <3>3, <3>4, <3>5
  <2> QED
    BY <2>1, <2>2, <2>3
<1>3. ASSUME NEW sq \in Search, NEW n \in Nat
      PROVE  SliceErr(sq, n) \in {"nil", "busy", "failed"}
  BY DEF SliceErr, Search
<1> QED
  BY <1>1, <1>2, <1>3

\* The next handle is a handle, and not the one before it.
LEMMA HandleType ==
    ASSUME nextHandle \in 1..(HandleMod - 1)
    PROVE  NextHandle \in 1..(HandleMod - 1) /\ NextHandle # nextHandle
  BY Constants DEF NextHandle

\* The constants give the initial state its types.
LEMMA InitType == Init => TypeInv
<1> SUFFICES ASSUME Init PROVE TypeInv
  OBVIOUS
<1>1. FreeSlot \in PathQuery
  BY Constants DEF FreeSlot, PathQuery, MaxKeepAlive
<1>2. queue \in [Slot -> PathQuery] /\ QueueSound
  BY <1>1 DEF Init, QueueInit, QueueSound, FreeSlot
<1>3. search \in Search
  BY DEF Init, QueueInit, Search
<1>4. /\ nextHandle \in 1..(HandleMod - 1) /\ queueHead \in Slot
      /\ visits \in 0..Slots /\ iterCount \in 0..MaxIters /\ stale \subseteq Requests
  BY Constants DEF Init, QueueInit, Slot
<1>5. agents \in [Agent -> CrowdAgent] /\ GoalsKnown
  BY Constants DEF Init, CrowdAgent, Targets, GoalsKnown
<1>6. /\ pc = "idle" /\ next \in 1..(MaxAgents + 1)
      /\ calls \in 0..Calls /\ changes \in 0..Changes
  BY Constants DEF Init
<1> QED
  BY <1>2, <1>3, <1>4, <1>5, <1>6, TypeNames DEF TypeInv

\* What the queue writes into a slot keeps it a query.
LEMMA QueryUpdates ==
    ASSUME NEW pq \in PathQuery
    PROVE  /\ \A e \in {"nil", "busy", "failed"} :
                 /\ [pq EXCEPT !.err = e] \in PathQuery
                 /\ [pq EXCEPT !.err = e].ref = pq.ref
                 /\ [pq EXCEPT !.err = e].req = pq.req
                 /\ [pq EXCEPT !.err = e].path = pq.path
                 /\ [pq EXCEPT !.err = e].keepAlive = pq.keepAlive
                 /\ [pq EXCEPT !.err = e].err = e
           /\ \A p \in Requests \cup {NoRequest} :
                 /\ [pq EXCEPT !.path = p] \in PathQuery
                 /\ [pq EXCEPT !.path = p].ref = pq.ref
                 /\ [pq EXCEPT !.path = p].req = pq.req
                 /\ [pq EXCEPT !.path = p].err = pq.err
                 /\ [pq EXCEPT !.path = p].path = p
                 /\ [pq EXCEPT !.path = p].keepAlive = pq.keepAlive
           /\ [pq EXCEPT !.ref = 0] \in PathQuery /\ [pq EXCEPT !.ref = 0].ref = 0
           /\ pq.keepAlive <= MaxKeepAlive =>
                 /\ [pq EXCEPT !.keepAlive = @ + 1] \in PathQuery
                 /\ [pq EXCEPT !.keepAlive = @ + 1].ref = pq.ref
                 /\ [pq EXCEPT !.keepAlive = @ + 1].req = pq.req
                 /\ [pq EXCEPT !.keepAlive = @ + 1].keepAlive = pq.keepAlive + 1
<1>1. ASSUME NEW e \in {"nil", "busy", "failed"}
      PROVE  /\ [pq EXCEPT !.err = e] \in PathQuery
             /\ [pq EXCEPT !.err = e].ref = pq.ref
             /\ [pq EXCEPT !.err = e].req = pq.req
             /\ [pq EXCEPT !.err = e].path = pq.path
             /\ [pq EXCEPT !.err = e].keepAlive = pq.keepAlive
             /\ [pq EXCEPT !.err = e].err = e
  BY DEF PathQuery
<1>2. ASSUME NEW p \in Requests \cup {NoRequest}
      PROVE  /\ [pq EXCEPT !.path = p] \in PathQuery
             /\ [pq EXCEPT !.path = p].ref = pq.ref
             /\ [pq EXCEPT !.path = p].req = pq.req
             /\ [pq EXCEPT !.path = p].err = pq.err
             /\ [pq EXCEPT !.path = p].path = p
             /\ [pq EXCEPT !.path = p].keepAlive = pq.keepAlive
  BY DEF PathQuery
<1>3. [pq EXCEPT !.ref = 0] \in PathQuery /\ [pq EXCEPT !.ref = 0].ref = 0
  BY Constants DEF PathQuery
<1>4. ASSUME pq.keepAlive <= MaxKeepAlive
      PROVE  /\ [pq EXCEPT !.keepAlive = @ + 1] \in PathQuery
             /\ [pq EXCEPT !.keepAlive = @ + 1].ref = pq.ref
             /\ [pq EXCEPT !.keepAlive = @ + 1].req = pq.req
             /\ [pq EXCEPT !.keepAlive = @ + 1].keepAlive = pq.keepAlive + 1
  <2>1. pq.keepAlive + 1 \in 0..(MaxKeepAlive + 1)
    BY <1>4 DEF PathQuery, MaxKeepAlive
  <2> QED
    BY <2>1 DEF PathQuery
<1> QED
  BY <1>1, <1>2, <1>3, <1>4

\* A query that is kept on after its answer ages, and gives up its slot in time.
LEMMA KeptType ==
    ASSUME NEW pq \in PathQuery, pq.keepAlive <= MaxKeepAlive
    PROVE  /\ Kept(pq) \in PathQuery
           /\ Kept(pq).ref # 0 => /\ Kept(pq).req = pq.req
                                  /\ Kept(pq).keepAlive <= MaxKeepAlive
<1> DEFINE older == [pq EXCEPT !.keepAlive = @ + 1]
<1>1. /\ older \in PathQuery /\ older.req = pq.req
      /\ older.keepAlive = pq.keepAlive + 1
  BY QueryUpdates
<1>2. CASE pq.keepAlive < MaxKeepAlive
  <2>1. Kept(pq) = older
    BY <1>2 DEF Kept
  <2>2. pq.keepAlive \in Nat
    BY DEF PathQuery
  <2> HIDE DEF older
  <2> QED
    BY <1>1, <1>2, <2>1, <2>2 DEF MaxKeepAlive
<1>3. CASE ~(pq.keepAlive < MaxKeepAlive)
  <2>1. Kept(pq) = [[[older EXCEPT !.ref = 0] EXCEPT !.err = "nil"] EXCEPT !.path = NoRequest]
    <3>1. Kept(pq) = [pq EXCEPT !.keepAlive = @ + 1, !.ref = 0, !.err = "nil", !.path = NoRequest]
      BY <1>3 DEF Kept
    <3> QED
      BY <3>1
  <2> HIDE DEF older
  <2>2. [older EXCEPT !.ref = 0] \in PathQuery /\ [older EXCEPT !.ref = 0].ref = 0
    BY <1>1, QueryUpdates
  <2>3. /\ [[older EXCEPT !.ref = 0] EXCEPT !.err = "nil"] \in PathQuery
        /\ [[older EXCEPT !.ref = 0] EXCEPT !.err = "nil"].ref = 0
    BY <2>2, QueryUpdates
  <2> DEFINE freed == [[older EXCEPT !.ref = 0] EXCEPT !.err = "nil"]
  <2>4. /\ freed \in PathQuery /\ freed.ref = 0
        /\ Kept(pq) = [freed EXCEPT !.path = NoRequest]
    BY <2>1, <2>3
  <2> HIDE DEF freed
  <2>5. /\ [freed EXCEPT !.path = NoRequest] \in PathQuery
        /\ [freed EXCEPT !.path = NoRequest].ref = freed.ref
    <3>1. NoRequest \in Requests \cup {NoRequest}
      OBVIOUS
    <3> QED
      BY <2>4, <3>1, QueryUpdates
  <2> QED
    BY <2>4, <2>5
<1> QED
  BY <1>2, <1>3

\* A new request fills a free slot.
LEMMA SubmitType ==
    ASSUME TypeInv, NEW q \in Requests, Submit(q)
    PROVE  /\ queue' \in [Slot -> PathQuery] /\ QueueSound'
           /\ nextHandle' \in 1..(HandleMod - 1)
<1> DEFINE new == [ref |-> nextHandle, req |-> q, err |-> "nil", path |-> NoRequest,
                   keepAlive |-> 0]
<1>1. queue \in [Slot -> PathQuery] /\ nextHandle \in 1..(HandleMod - 1)
  BY TypeNames DEF TypeInv
<1>2. PICK s \in Slot : queue' = [queue EXCEPT ![s] = new]
  BY DEF Submit, EmptySlot
<1>3. new \in PathQuery /\ new.req \in Requests /\ new.keepAlive <= MaxKeepAlive
  BY <1>1, Constants DEF PathQuery, MaxKeepAlive
<1> HIDE DEF new
<1>4. queue' \in [Slot -> PathQuery]
  BY <1>1, <1>2, <1>3
<1>5. QueueSound'
  BY <1>1, <1>2, <1>3 DEF QueueSound, TypeInv
<1> QED
  BY <1>1, <1>4, <1>5, HandleType DEF Submit

\* The search a visit works on is a search.
LEMMA StartedType ==
    ASSUME TypeInv, NEW s \in Slot, queue[s].ref # 0
    PROVE  /\ Started(queue[s]) \in Search
           /\ ErrStarted(queue[s]) \in {"nil", "busy", "failed"}
  BY SearchType, TypeNames DEF TypeInv, QueueSound, Started, ErrStarted, StartErr, PathQuery

\* One round of the loop of PathQueue.Update, by what becomes of its slot.
LEMMA VisitType ==
    ASSUME TypeInv, Visit
    PROVE  QueueTypeOK' /\ QueueSound'
<1>1. /\ queue \in [Slot -> PathQuery] /\ search \in Search /\ queueHead \in Slot
      /\ visits \in 1..Slots /\ iterCount \in 0..MaxIters
      /\ nextHandle \in 1..(HandleMod - 1)
  BY TypeNames, Constants DEF TypeInv, Visit
<1> DEFINE s == queueHead
           pq == queue[s]
<1>2. pq \in PathQuery /\ (pq.ref # 0 => pq.req \in Requests /\ pq.keepAlive <= MaxKeepAlive)
  BY <1>1 DEF TypeInv, QueueSound
<1>3. /\ queueHead' \in Slot /\ visits' \in 0..Slots /\ nextHandle' = nextHandle
  <2>1. (s + 1) % Slots \in Slot
    BY <1>1, Constants DEF Slot
  <2> QED
    BY <1>1, <2>1, Constants DEF Visit
<1>4. ASSUME NEW new \in PathQuery, queue' = [queue EXCEPT ![s] = new],
             new.ref # 0 => new.req \in Requests /\ new.keepAlive <= MaxKeepAlive
      PROVE  queue' \in [Slot -> PathQuery] /\ QueueSound'
  <2>1. queue' \in [Slot -> PathQuery]
    BY <1>1, <1>4
  <2>2. QueueSound'
    BY <1>1, <1>4 DEF TypeInv, QueueSound
  <2> QED
    BY <2>1, <2>2
<1> DEFINE active == pq.ref # 0 /\ ~Terminal(pq)
           stop == active /\ ErrStarted(pq) = "busy" /\ ItersLeft <= 0
           Goal == /\ queue' \in [Slot -> PathQuery] /\ QueueSound'
                   /\ search' \in Search /\ iterCount' \in 0..MaxIters
<1>5. ASSUME stop PROVE Goal
  <2>1. /\ queue' = [queue EXCEPT ![s] = [pq EXCEPT !.err = "busy"]]
        /\ search' = Started(pq) /\ iterCount' = iterCount
    BY <1>1, <1>5 DEF Visit
  <2>2. queue' \in [Slot -> PathQuery] /\ QueueSound'
    <3> DEFINE new == [pq EXCEPT !.err = "busy"]
    <3>1. new \in PathQuery /\ new.ref = pq.ref /\ new.req = pq.req /\ new.keepAlive = pq.keepAlive
      BY <1>2, QueryUpdates
    <3> HIDE DEF new, pq
    <3> QED
      BY <1>2, <1>4, <2>1, <3>1 DEF new
  <2>3. search' \in Search
    BY <1>1, <1>5, <2>1, StartedType
  <2> QED
    BY <1>1, <2>1, <2>2, <2>3
<1>6. ASSUME active /\ ~stop PROVE Goal
  <2>1. Advance(s)
    BY <1>6 DEF Visit
  <2>2. /\ Started(pq) \in Search
        /\ ErrStarted(pq) \in {"nil", "busy", "failed"}
    BY <1>1, <1>6, StartedType
  <2>3. CASE ErrStarted(pq) # "busy"
    <3>1. /\ queue' = [queue EXCEPT ![s] = [pq EXCEPT !.err = ErrStarted(pq)]]
          /\ search' = search /\ iterCount' = iterCount
      BY <1>1, <2>1, <2>3 DEF Advance
    <3> DEFINE new == [pq EXCEPT !.err = ErrStarted(pq)]
    <3>2. new \in PathQuery /\ new.ref = pq.ref /\ new.req = pq.req /\ new.keepAlive = pq.keepAlive
      BY <1>2, <2>2, QueryUpdates
    <3> HIDE DEF new, pq
    <3>3. queue' \in [Slot -> PathQuery] /\ QueueSound'
      BY <1>2, <1>4, <3>1, <3>2 DEF new
    <3> QED
      BY <1>1, <3>1, <3>3
  <2>4. CASE ErrStarted(pq) = "busy"
    <3>1. ItersLeft \in Nat /\ iterCount + 1 \in 0..MaxIters
      BY <1>1, <1>6, <2>4, Constants DEF ItersLeft
    <3> DEFINE slice == UpdateSlicedPath(Started(pq), ItersLeft)
               sliceErr == SliceErr(Started(pq), ItersLeft)
               path == IF sliceErr = "nil" THEN slice.req ELSE pq.path
               new == [[pq EXCEPT !.err = sliceErr] EXCEPT !.path = path]
    <3>2. /\ queue' = [queue EXCEPT ![s] = new] /\ search' = slice
          /\ iterCount' \in {iterCount, iterCount + 1}
      BY <1>1, <2>1, <2>4 DEF Advance
    <3>3. /\ slice \in Search /\ sliceErr \in {"nil", "busy", "failed"}
      BY <2>2, <3>1, SearchType
    <3>4. path \in Requests \cup {NoRequest}
      BY <1>2, <3>3 DEF Search, PathQuery
    <3> HIDE DEF slice, sliceErr, path
    <3>5. new \in PathQuery /\ new.ref = pq.ref /\ new.req = pq.req /\ new.keepAlive = pq.keepAlive
      <4> DEFINE done == [pq EXCEPT !.err = sliceErr]
      <4>1. /\ done \in PathQuery /\ done.ref = pq.ref /\ done.req = pq.req
            /\ done.keepAlive = pq.keepAlive
        BY <1>2, <3>3, QueryUpdates
      <4> HIDE DEF done
      <4>2. /\ [done EXCEPT !.path = path] \in PathQuery /\ [done EXCEPT !.path = path].ref = done.ref
            /\ [done EXCEPT !.path = path].req = done.req
            /\ [done EXCEPT !.path = path].keepAlive = done.keepAlive
        BY <3>4, <4>1, QueryUpdates
      <4> QED
        BY <4>1, <4>2 DEF done
    <3> HIDE DEF new, pq
    <3>6. queue' \in [Slot -> PathQuery] /\ QueueSound'
      BY <1>2, <1>4, <3>2, <3>5
    <3> QED
      BY <1>1, <3>1, <3>2, <3>3, <3>6
  <2> QED
    BY <2>3, <2>4
<1>7. ASSUME ~active /\ pq.ref = 0 PROVE Goal
  <2>1. queue' = queue /\ search' = search /\ iterCount' = iterCount
    BY <1>7 DEF Visit
  <2> QED
    BY <1>1, <2>1 DEF TypeInv, QueueSound
<1>8. ASSUME ~active /\ pq.ref # 0 PROVE Goal
  <2>1. queue' = [queue EXCEPT ![s] = Kept(pq)] /\ search' = search /\ iterCount' = iterCount
    BY <1>8 DEF Visit
  <2>2. /\ Kept(pq) \in PathQuery
        /\ Kept(pq).ref # 0 => Kept(pq).req \in Requests /\ Kept(pq).keepAlive <= MaxKeepAlive
    BY <1>2, <1>8, KeptType
  <2> HIDE DEF pq
  <2> QED
    BY <1>1, <1>4, <2>1, <2>2
<1>9. Goal
  BY <1>5, <1>6, <1>7, <1>8
<1>10. stale' = stale /\ stale \subseteq Requests
  BY TypeNames DEF TypeInv, Visit
<1> QED
  BY <1>1, <1>3, <1>9, <1>10 DEF QueueTypeOK, PathQuery, Search

\* A new record for one agent keeps the agents' types.
LEMMA AgentType ==
    ASSUME TypeInv, NEW a \in Agent, NEW new \in CrowdAgent,
           agents' = [agents EXCEPT ![a] = new],
           new.target \in {"valid", "requesting", "waitqueue", "waitpath"} => new.goal \in Goals
    PROVE  agents' \in [Agent -> CrowdAgent] /\ GoalsKnown'
<1>1. agents \in [Agent -> CrowdAgent]
  BY TypeNames DEF TypeInv
<1> QED
  BY <1>1 DEF TypeInv, GoalsKnown

\* What a request for a goal makes of an agent.
LEMMA RequestingType ==
    ASSUME NEW ag \in CrowdAgent, NEW goal \in Goals \cup {NoGoal}
    PROVE  /\ Requesting(ag, goal) \in CrowdAgent
           /\ Requesting(ag, goal).active = ag.active
           /\ Requesting(ag, goal).walking = ag.walking
           /\ Requesting(ag, goal).corridor = ag.corridor
           /\ Requesting(ag, goal).target \in {"requesting", "failed"}
           /\ Requesting(ag, goal).target = "requesting" => Requesting(ag, goal).goal \in Goals
<1>1. PICK tg \in {"requesting", "failed"} :
         /\ Requesting(ag, goal) = [ag EXCEPT !.goal = goal, !.pathq = 0, !.target = tg]
         /\ tg = "requesting" => goal # NoGoal
  <2>1. PICK tg : tg = IF goal # NoGoal THEN "requesting" ELSE "failed"
    OBVIOUS
  <2>2. Requesting(ag, goal) = [ag EXCEPT !.goal = goal, !.pathq = 0, !.target = tg]
    BY <2>1 DEF Requesting
  <2>3. tg \in {"requesting", "failed"} /\ (tg = "requesting" => goal # NoGoal)
    BY <2>1
  <2> QED
    BY <2>2, <2>3
<1> DEFINE new == [ag EXCEPT !.goal = goal, !.pathq = 0, !.target = tg]
<1>2. 0 \in 0..(HandleMod - 1)
  BY Constants
<1>3. /\ new \in CrowdAgent /\ new.active = ag.active /\ new.walking = ag.walking
      /\ new.corridor = ag.corridor /\ new.target = tg /\ new.goal = goal
  BY <1>2 DEF CrowdAgent, Targets
<1> HIDE DEF new
<1>4. Requesting(ag, goal) = new
  BY <1>1 DEF new
<1> QED
  BY <1>1, <1>3, <1>4

\* A client call that leaves a typed record behind keeps the types.
LEMMA ClientType ==
    ASSUME TypeInv, NEW a \in Agent, NEW new \in CrowdAgent, ClientCall(a, new),
           new.target \in {"valid", "requesting", "waitqueue", "waitpath"} => new.goal \in Goals
    PROVE  TypeInv'
<1>1. agents' = [agents EXCEPT ![a] = new] /\ UNCHANGED <<queueVars, pc, next, changes>>
  BY DEF ClientCall
<1>2. agents' \in [Agent -> CrowdAgent] /\ GoalsKnown'
  BY <1>1, AgentType
<1>3. calls' \in 0..Calls
  BY TypeNames, Constants DEF TypeInv, ClientCall
<1>4. QueueTypeOK' /\ QueueSound'
  BY <1>1 DEF TypeInv, TypeOK, QueueTypeOK, QueueSound, queueVars
<1> QED
  BY <1>1, <1>2, <1>3, <1>4 DEF TypeInv, TypeOK, CrowdAgent

\* Every client call keeps the types.
LEMMA ClientStepType == ASSUME TypeInv, ClientStep PROVE TypeInv'
<1>1. agents \in [Agent -> CrowdAgent] /\ 0 \in 0..(HandleMod - 1)
  BY TypeNames, Constants DEF TypeInv
<1>2. ASSUME NEW placed \in BOOLEAN, AddAgent(placed) PROVE TypeInv'
  <2>1. PICK a \in Agent : ClientCall(a, [agents[a] EXCEPT !.active = TRUE, !.walking = placed,
                                              !.target = "none", !.corridor = NoRequest])
    BY <1>2 DEF AddAgent
  <2> DEFINE new == [agents[a] EXCEPT !.active = TRUE, !.walking = placed,
                                      !.target = "none", !.corridor = NoRequest]
  <2>2. new \in CrowdAgent /\ new.target = "none"
    BY <1>1 DEF CrowdAgent, Targets
  <2> HIDE DEF new
  <2> QED
    BY <2>1, <2>2, ClientType DEF new
<1>3. ASSUME NEW a \in Agent, RemoveAgent(a) PROVE TypeInv'
  <2> DEFINE new == [agents[a] EXCEPT !.active = FALSE]
  <2>1. new \in CrowdAgent /\ new.target = agents[a].target /\ new.goal = agents[a].goal
    BY <1>1 DEF CrowdAgent
  <2>2. ClientCall(a, new)
    BY <1>3 DEF RemoveAgent
  <2> HIDE DEF new
  <2> QED
    BY <2>1, <2>2, ClientType DEF TypeInv, GoalsKnown
<1>4. ASSUME NEW a \in Agent, RequestMoveVelocity(a) \/ ResetMoveTarget(a) PROVE TypeInv'
  <2>1. PICK tg \in {"velocity", "none"} :
           ClientCall(a, [agents[a] EXCEPT !.goal = NoGoal, !.pathq = 0, !.target = tg])
    BY <1>4 DEF RequestMoveVelocity, ResetMoveTarget
  <2> DEFINE new == [agents[a] EXCEPT !.goal = NoGoal, !.pathq = 0, !.target = tg]
  <2>2. new \in CrowdAgent /\ new.target = tg
    BY <1>1 DEF CrowdAgent, Targets
  <2> HIDE DEF new
  <2> QED
    BY <2>1, <2>2, ClientType DEF new
<1>5. ASSUME NEW a \in Agent, NEW goal \in Goals, RequestMoveTarget(a, goal) PROVE TypeInv'
  <2>1. PICK new : new = Requesting(agents[a], goal)
    OBVIOUS
  <2>2. /\ new \in CrowdAgent /\ new.target \in {"requesting", "failed"}
        /\ new.target = "requesting" => new.goal \in Goals
    BY <1>1, <2>1, RequestingType
  <2> QED
    BY <1>5, <2>1, <2>2, ClientType DEF RequestMoveTarget
<1> QED
  BY <1>2, <1>3, <1>4, <1>5 DEF ClientStep

\* What the queue does not change keeps its type.
LEMMA QueueKept ==
    ASSUME TypeInv, UNCHANGED queue
    PROVE  queue' \in [Slot -> PathQuery] /\ QueueSound'
  BY TypeNames DEF TypeInv, QueueSound

\* What CheckPathValidity makes of an agent.
LEMMA NoticedType ==
    ASSUME TypeInv, NEW a \in Agent, NEW new \in Noticed(agents[a])
    PROVE  /\ new \in CrowdAgent
           /\ new.target \in {"valid", "requesting", "waitqueue", "waitpath"} =>
                 new.goal \in Goals
           /\ new.active = agents[a].active
           /\ new.target \in {"valid", "waitqueue", "waitpath"} =>
                 new.target = agents[a].target /\ ~new.walking
<1> PICK ag \in CrowdAgent : ag = agents[a]
  BY TypeNames DEF TypeInv
<1>1. CASE new = [ag EXCEPT !.walking = FALSE, !.corridor = NoRequest]
  <2>1. /\ new \in CrowdAgent /\ new.target = ag.target /\ new.goal = ag.goal
        /\ new.active = ag.active /\ new.walking = FALSE
    BY <1>1 DEF CrowdAgent
  <2> QED
    BY <2>1 DEF TypeInv, GoalsKnown
<1>2. CASE \E goal \in Goals \cup {NoGoal} : new = Requesting(ag, goal)
  BY <1>2, RequestingType
<1>3. CASE new = [ag EXCEPT !.goal = NoGoal, !.target = "none", !.corridor = NoRequest]
  BY <1>3 DEF CrowdAgent, Targets
<1>4. ag.goal \in Goals \cup {NoGoal} /\ NoGoal \in Goals \cup {NoGoal}
  BY DEF CrowdAgent
<1>5. \/ new = [ag EXCEPT !.walking = FALSE, !.corridor = NoRequest]
      \/ \E goal \in Goals \cup {NoGoal} : new = Requesting(ag, goal)
      \/ new = [ag EXCEPT !.goal = NoGoal, !.target = "none", !.corridor = NoRequest]
  <2>1. new \in Noticed(ag)
    OBVIOUS
  <2>2. CASE ~Moves(ag)
    BY <2>1, <2>2 DEF Noticed
  <2>3. CASE Moves(ag)
    <3>1. (IF ag.target = "none" THEN ag ELSE Requesting(ag, ag.goal)) = Requesting(ag, ag.goal)
      BY <2>3 DEF Moves
    <3> QED
      BY <1>4, <2>1, <2>3, <3>1 DEF Noticed
  <2> QED
    BY <2>2, <2>3
<1> QED
  BY <1>1, <1>2, <1>3, <1>5

\* The quick search of an agent, the search it leaves and the path it finds.
LEMMA QuickSearch ==
    ASSUME TypeInv, NEW q \in Requests, NEW n \in Nat
    PROVE  LET sq == UpdateSlicedPath(FindPathSliced(search, q), n) IN
           /\ sq \in Search
           /\ q \notin stale => sq.req = q
<1>1. search \in Search
  BY TypeNames DEF TypeInv
<1>2. FindPathSliced(search, q) \in Search
  BY <1>1, SearchType
<1>3. q \notin stale => FindPathSliced(search, q).req = q
  BY DEF FindPathSliced
<1> QED
  BY <1>2, <1>3, SearchType

\* An agent with a path to its goal, its own path unless its search was refused.
HasPath(ag, own) ==
    /\ ag.corridor # NoRequest /\ ag.corridor.goal = ag.goal
    /\ ag.lost \/ ag.corridor = own

\* What FireRequest does to the agent whose turn it is.
LEMMA FireEffect ==
    ASSUME TypeInv, FireRequest
    PROVE  /\ UNCHANGED <<queue, nextHandle, queueHead, visits, iterCount, stale, pc, calls, changes>>
           /\ pc = "fire" /\ next \in Agent /\ next' = next + 1
           /\ search' \in Search
           /\ \/ agents' = agents
              \/ \E new \in CrowdAgent :
                    /\ agents' = [agents EXCEPT ![next] = new]
                    /\ new.goal = agents[next].goal /\ new.goal \in Goals
                    /\ new.target \in {"valid", "waitqueue"}
                    /\ new.target = "valid" => HasPath(new, Own(next))
<1>1. /\ agents \in [Agent -> CrowdAgent] /\ search \in Search
      /\ pc = "fire" /\ next \in Agent /\ next' = next + 1
      /\ UNCHANGED <<queue, nextHandle, queueHead, visits, iterCount, stale, pc, calls, changes>>
  BY TypeNames DEF TypeInv, FireRequest, Phase
<1> PICK ag \in CrowdAgent : ag = agents[next]
  BY <1>1
<1>2. CASE ~(ag.active /\ ag.walking /\ ag.target = "requesting")
  BY <1>1, <1>2 DEF FireRequest
<1>3. CASE ag.active /\ ag.walking /\ ag.target = "requesting"
  <2>1. ag.goal \in Goals /\ Own(next) \in Requests
    BY <1>1, <1>3, OwnRequest DEF TypeInv, GoalsKnown
  <2>2. PICK sq : sq = UpdateSlicedPath(FindPathSliced(search, Own(next)), QuickIters)
    OBVIOUS
  <2>3. sq \in Search /\ (Own(next) \notin stale => sq.req = Own(next))
    BY <2>1, <2>2, QuickSearch, Constants
  <2>4. PICK path \in Requests \cup {NoRequest} : path = IF sq.err = "nil" THEN sq.req ELSE NoRequest
    BY <2>3 DEF Search
  <2>5. PICK tg \in {"valid", "waitqueue"} : tg = IF Reaches(path, ag.goal) THEN "valid" ELSE "waitqueue"
    OBVIOUS
  <2>6. PICK refused \in BOOLEAN : refused = (Own(next) \in stale)
    <3>1. CASE Own(next) \in stale
      <4>1. TRUE = (Own(next) \in stale)
        BY <3>1, Zenon
      <4> QED
        BY <4>1, Zenon
    <3>2. CASE ~(Own(next) \in stale)
      <4>1. FALSE = (Own(next) \in stale)
        BY <3>2, SMT
      <4> QED
        BY <4>1, Zenon
    <3> QED
      BY <3>1, <3>2
  <2>7. /\ search' = sq
        /\ agents' = [agents EXCEPT ![next].corridor = path, ![next].lost = refused,
                                    ![next].target = tg]
    BY <1>3, <2>2, <2>4, <2>5, <2>6 DEF FireRequest
  <2> DEFINE new == [[[ag EXCEPT !.corridor = path] EXCEPT !.lost = refused] EXCEPT !.target = tg]
  <2>8. agents' = [agents EXCEPT ![next] = new]
    BY <1>1, <2>7
  <2>9. /\ new \in CrowdAgent /\ new.goal = ag.goal /\ new.target = tg /\ new.corridor = path
        /\ new.lost = refused
    BY DEF CrowdAgent, Targets
  <2> HIDE DEF new
  <2>10. ASSUME new.target = "valid" PROVE HasPath(new, Own(next))
    <3>1. path # NoRequest /\ path.goal = ag.goal /\ path = sq.req
      BY <2>4, <2>5, <2>9, <2>10 DEF Reaches
    <3>2. CASE Own(next) \in stale
      <4>1. new.lost
        BY <2>6, <2>9, <3>2, Zenon
      <4> QED
        BY <2>9, <3>1, <4>1 DEF HasPath
    <3>3. CASE Own(next) \notin stale
      BY <2>3, <2>9, <3>1, <3>3 DEF HasPath
    <3> QED
      BY <3>2, <3>3
  <2> QED
    BY <1>1, <2>1, <2>3, <2>7, <2>8, <2>9, <2>10
<1> QED
  BY <1>2, <1>3

\* The slot a new request is written into.
NewQuery(q) == [ref |-> nextHandle, req |-> q, err |-> "nil", path |-> NoRequest, keepAlive |-> 0]

\* What SubmitRequest does to the queue and to the agent whose turn it is.
LEMMA SubmitEffect ==
    ASSUME TypeInv, SubmitRequest
    PROVE  /\ UNCHANGED <<queueHead, search, visits, iterCount, stale, pc, calls, changes>>
           /\ pc = "submit" /\ next \in Agent /\ next' = next + 1
           /\ \/ UNCHANGED <<queue, nextHandle>> /\ agents' = agents
              \/ /\ UNCHANGED <<queue, nextHandle>>
                 /\ \E new \in CrowdAgent :
                       /\ agents' = [agents EXCEPT ![next] = new]
                       /\ new.goal = agents[next].goal /\ new.goal \in Goals
                       /\ new.target = "waitqueue"
              \/ /\ Submit(Own(next)) /\ Own(next) \in Requests /\ nextHandle' = NextHandle
                 /\ \E s \in Slot : queue[s].ref = 0
                                    /\ queue' = [queue EXCEPT ![s] = NewQuery(Own(next))]
                 /\ \E new \in CrowdAgent :
                       /\ agents' = [agents EXCEPT ![next] = new]
                       /\ new.goal = agents[next].goal /\ new.goal \in Goals
                       /\ new.target = "waitpath" /\ new.pathq = nextHandle
                       /\ new.active /\ new.walking
<1>1. /\ agents \in [Agent -> CrowdAgent] /\ nextHandle \in 1..(HandleMod - 1)
      /\ pc = "submit" /\ next \in Agent /\ next' = next + 1
      /\ UNCHANGED <<queueHead, search, visits, iterCount, stale, pc, calls, changes>>
  BY TypeNames DEF TypeInv, SubmitRequest, Phase
<1> PICK ag \in CrowdAgent : ag = agents[next]
  BY <1>1
<1>2. CASE ~(ag.active /\ ag.walking /\ ag.target = "waitqueue")
  BY <1>1, <1>2 DEF SubmitRequest
<1>3. CASE ag.active /\ ag.walking /\ ag.target = "waitqueue"
  <2>1. ag.goal \in Goals /\ Own(next) \in Requests
    BY <1>1, <1>3, OwnRequest DEF TypeInv, GoalsKnown
  <2>2. CASE EmptySlot = {}
    <3> DEFINE new == [ag EXCEPT !.pathq = 0]
    <3>1. agents' = [agents EXCEPT ![next] = new] /\ UNCHANGED <<queue, nextHandle>>
      BY <1>1, <1>3, <2>2 DEF SubmitRequest
    <3>2. new \in CrowdAgent /\ new.goal = ag.goal /\ new.target = "waitqueue"
      BY <1>3, Constants DEF CrowdAgent
    <3> HIDE DEF new
    <3> QED
      BY <1>1, <2>1, <3>1, <3>2
  <2>3. CASE EmptySlot # {}
    <3> DEFINE new == [[ag EXCEPT !.pathq = nextHandle] EXCEPT !.target = "waitpath"]
    <3>1. agents' = [agents EXCEPT ![next] = new] /\ Submit(Own(next))
      BY <1>1, <1>3, <2>3 DEF SubmitRequest
    <3>2. /\ new \in CrowdAgent /\ new.goal = ag.goal /\ new.target = "waitpath"
          /\ new.pathq = nextHandle /\ new.active = ag.active /\ new.walking = ag.walking
      <4>1. nextHandle \in 0..(HandleMod - 1)
        BY <1>1, Constants
      <4> QED
        BY <4>1 DEF CrowdAgent, Targets
    <3>3. /\ nextHandle' = NextHandle
          /\ \E s \in Slot : queue[s].ref = 0
                             /\ queue' = [queue EXCEPT ![s] = NewQuery(Own(next))]
      BY <3>1 DEF Submit, EmptySlot, NewQuery
    <3> HIDE DEF new
    <3> QED
      BY <1>1, <1>3, <2>1, <3>1, <3>2, <3>3
  <2> QED
    BY <2>2, <2>3
<1> QED
  BY <1>2, <1>3

\* What TakeResult does to the queue and to the agent whose turn it is.
LEMMA ResultEffect ==
    ASSUME TypeInv, TakeResult
    PROVE  /\ UNCHANGED <<nextHandle, queueHead, search, visits, iterCount, stale, pc, calls, changes>>
           /\ pc = "results" /\ next \in Agent /\ next' = next + 1
           /\ \/ /\ UNCHANGED <<agents, queue>>
                 /\ ~(agents[next].active /\ agents[next].target = "waitpath")
              \/ /\ UNCHANGED queue
                 /\ \E new \in CrowdAgent :
                       /\ agents' = [agents EXCEPT ![next] = new]
                       /\ new.target \in {"requesting", "failed"}
                       /\ new.target = "requesting" => new.goal \in Goals
              \/ /\ agents[next].active /\ agents[next].target = "waitpath"
                 /\ \E s \in Slot, new \in CrowdAgent :
                       /\ queue[s].ref = agents[next].pathq /\ queue' = Released(s)
                       /\ agents' = [agents EXCEPT ![next] = new]
                       /\ new.goal = agents[next].goal /\ new.goal \in Goals
                       /\ new.target \in {"valid", "failed"}
                       /\ new.target = "valid" => /\ queue[s].path # NoRequest
                                                  /\ new.corridor = queue[s].path
<1>1. /\ agents \in [Agent -> CrowdAgent] /\ queue \in [Slot -> PathQuery]
      /\ pc = "results" /\ next \in Agent /\ next' = next + 1
      /\ UNCHANGED <<nextHandle, queueHead, search, visits, iterCount, stale, pc, calls, changes>>
  BY TypeNames DEF TypeInv, TakeResult, Phase
<1> PICK ag \in CrowdAgent : ag = agents[next]
  BY <1>1
<1>2. CASE ~(ag.active /\ ag.target = "waitpath")
  BY <1>1, <1>2 DEF TakeResult
<1>3. CASE ag.active /\ ag.target = "waitpath"
  <2>1. ag.goal \in Goals
    BY <1>1, <1>3 DEF TypeInv, GoalsKnown
  <2>2. CASE GetRequestErr(ag.pathq) # "nil"
    <3>1. PICK new : new = Requesting(ag, ag.goal)
      OBVIOUS
    <3>2. /\ new \in CrowdAgent /\ new.target \in {"requesting", "failed"}
          /\ new.target = "requesting" => new.goal \in Goals
      BY <2>1, <3>1, RequestingType
    <3>3. agents' = [agents EXCEPT ![next] = new] /\ UNCHANGED queue
      BY <1>3, <2>2, <3>1 DEF TakeResult, Retry
    <3> QED
      BY <1>1, <3>2, <3>3
  <2>3. CASE ~(GetRequestErr(ag.pathq) # "nil")
    <3>1. PICK s \in Slot : /\ queue[s].ref = ag.pathq /\ queue' = Released(s)
                            /\ agents' = [agents EXCEPT ![next] = Answered(next, s)]
      BY <1>3, <2>3 DEF TakeResult, Holding
    <3>2. PICK new : new = Answered(next, s)
      OBVIOUS
    <3>3. /\ new \in CrowdAgent /\ new.goal = ag.goal /\ new.target \in {"valid", "failed"}
          /\ new.target = "valid" => queue[s].path # NoRequest /\ new.corridor = queue[s].path
      <4>1. queue[s].path \in Requests \cup {NoRequest}
        BY <1>1 DEF PathQuery
      <4>2. CASE queue[s].path # NoRequest /\ queue[s].path.agent = next
        <5>1. new = [[ag EXCEPT !.target = "valid"] EXCEPT !.corridor = queue[s].path]
          BY <3>2, <4>2 DEF Answered
        <5> QED
          BY <4>1, <4>2, <5>1 DEF CrowdAgent, Targets
      <4>3. CASE ~(queue[s].path # NoRequest /\ queue[s].path.agent = next)
        <5>1. new = [ag EXCEPT !.target = "failed"]
          BY <3>2, <4>3 DEF Answered
        <5> QED
          BY <5>1 DEF CrowdAgent, Targets
      <4> QED
        BY <4>2, <4>3
    <3>4. agents' = [agents EXCEPT ![next] = new]
      BY <3>1, <3>2
    <3> QED
      BY <1>1, <1>3, <2>1, <3>1, <3>3, <3>4
  <2> QED
    BY <2>2, <2>3
<1> QED
  BY <1>2, <1>3

\* What Optimize does to the search and to the agent whose turn it is.
LEMMA OptimizeEffect ==
    ASSUME TypeInv, Optimize
    PROVE  /\ UNCHANGED <<queue, nextHandle, queueHead, visits, iterCount, stale>>
           /\ UNCHANGED <<pc, calls, changes>>
           /\ pc = "optimize" /\ next \in Agent /\ next' = next + 1
           /\ search' \in Search
           /\ \/ agents' = agents
              \/ \E new \in CrowdAgent :
                    /\ agents' = [agents EXCEPT ![next] = new]
                    /\ new.goal = agents[next].goal /\ new.target = agents[next].target
                    /\ new.target \in {"valid", "requesting", "waitqueue", "waitpath"} =>
                          new.goal \in Goals
                    /\ new.target \notin {"none", "velocity"} =>
                          /\ new.corridor = agents[next].corridor
                          /\ new.active = agents[next].active
                          /\ new.walking = agents[next].walking
                          /\ agents[next].lost => new.lost
<1>1. /\ agents \in [Agent -> CrowdAgent] /\ search \in Search
      /\ pc = "optimize" /\ next \in Agent /\ next' = next + 1
      /\ UNCHANGED <<queue, nextHandle, queueHead, visits, iterCount, stale>>
      /\ UNCHANGED <<pc, calls, changes>>
  BY TypeNames DEF TypeInv, Optimize, Phase
<1> PICK ag \in CrowdAgent : ag = agents[next]
  BY <1>1
<1>2. CASE /\ ag.corridor # NoRequest
           /\ agents' = [agents EXCEPT ![next].lost = @ \/ ag.corridor \in stale]
           /\ search' = UpdateSlicedPath(FindPathSliced(search, ag.corridor), TopoIters)
  <2>1. ag.corridor \in Requests
    BY <1>2 DEF CrowdAgent
  <2>2. PICK l \in BOOLEAN : l = (ag.lost \/ ag.corridor \in stale)
    OBVIOUS
  <2> DEFINE new == [ag EXCEPT !.lost = l]
  <2>3. agents' = [agents EXCEPT ![next] = new]
    BY <1>1, <1>2, <2>2
  <2>4. /\ new \in CrowdAgent /\ new.goal = ag.goal /\ new.target = ag.target
        /\ new.corridor = ag.corridor /\ new.active = ag.active /\ new.walking = ag.walking
        /\ new.lost = l
    BY DEF CrowdAgent
  <2>5. ag.lost => new.lost
    BY <2>2, <2>4, Zenon
  <2>6. new.target \in {"valid", "requesting", "waitqueue", "waitpath"} => new.goal \in Goals
    BY <1>1, <2>4 DEF TypeInv, GoalsKnown
  <2>7. search' \in Search
    BY <1>2, <2>1, QuickSearch, Constants
  <2> HIDE DEF new
  <2> QED
    BY <1>1, <2>3, <2>4, <2>5, <2>6, <2>7
<1>3. CASE /\ agents' = IF ag.active /\ ag.walking /\ ~Moves(ag)
                        THEN [agents EXCEPT ![next].corridor = NoRequest] ELSE agents
           /\ search' = search
  <2>1. CASE ag.active /\ ag.walking /\ ~Moves(ag)
    <3> DEFINE new == [ag EXCEPT !.corridor = NoRequest]
    <3>1. agents' = [agents EXCEPT ![next] = new]
      BY <1>1, <1>3, <2>1
    <3>2. /\ new \in CrowdAgent /\ new.goal = ag.goal /\ new.target = ag.target
          /\ ag.target \in {"none", "velocity"}
      BY <2>1 DEF CrowdAgent, Moves
    <3> HIDE DEF new
    <3> QED
      BY <1>1, <1>3, <3>1, <3>2
  <2> QED
    BY <1>1, <1>3, <2>1
<1> QED
  BY <1>1, <1>2, <1>3 DEF Optimize

\* What CheckPathValidity does to the agent whose turn it is.
LEMMA CheckEffect ==
    ASSUME TypeInv, CheckPathValidity
    PROVE  /\ UNCHANGED <<queueVars, pc, calls>>
           /\ pc = "check" /\ next \in Agent /\ next' = next + 1
           /\ changes' \in 0..Changes
           /\ \/ agents' = agents
              \/ \E new \in CrowdAgent :
                    /\ agents' = [agents EXCEPT ![next] = new]
                    /\ new.target \in {"valid", "requesting", "waitqueue", "waitpath"} =>
                          new.goal \in Goals
                    /\ new.active = agents[next].active
                    /\ new.target \in {"valid", "waitqueue", "waitpath"} =>
                          new.target = agents[next].target /\ ~new.walking
<1>1. /\ agents \in [Agent -> CrowdAgent] /\ changes \in 0..Changes
      /\ pc = "check" /\ next \in Agent /\ next' = next + 1
      /\ UNCHANGED <<queueVars, pc, calls>>
  BY TypeNames DEF TypeInv, CheckPathValidity, Phase
<1>2. CASE UNCHANGED <<agents, changes>>
  BY <1>1, <1>2
<1>3. CASE ~UNCHANGED <<agents, changes>>
  <2>1. /\ changes < Changes /\ changes' = changes + 1
        /\ \E new \in Noticed(agents[next]) : agents' = [agents EXCEPT ![next] = new]
    BY <1>3 DEF CheckPathValidity
  <2>2. changes' \in 0..Changes
    BY <1>1, <2>1, Constants
  <2> QED
    BY <1>1, <2>1, <2>2, NoticedType
<1> QED
  BY <1>2, <1>3

\* Every step of an update keeps the types.
LEMMA UpdateStepType == ASSUME TypeInv, Update \/ UpdateStep PROVE TypeInv'
<1> USE DEF CrowdAgent
<1>1. /\ QueueTypeOK /\ QueueSound /\ GoalsKnown /\ agents \in [Agent -> CrowdAgent]
      /\ queue \in [Slot -> PathQuery] /\ search \in Search
      /\ pc \in {"idle", "check", "fire", "submit", "visit", "results", "optimize"}
      /\ next \in 1..(MaxAgents + 1) /\ visits \in 0..Slots
      /\ calls \in 0..Calls /\ changes \in 0..Changes
  BY TypeNames DEF TypeInv
<1> HIDE DEF CrowdAgent
<1> DEFINE Queued == QueueTypeOK' /\ QueueSound'
           Crowded == agents' \in [Agent -> CrowdAgent] /\ GoalsKnown'
           Placed == /\ pc' \in {"idle", "check", "fire", "submit", "visit", "results", "optimize"}
                     /\ next' \in 1..(MaxAgents + 1)
                     /\ calls' \in 0..Calls /\ changes' \in 0..Changes
<1>2. ASSUME Queued, Crowded, Placed PROVE TypeInv'
  BY <1>2 DEF TypeInv, TypeOK, CrowdAgent
<1>3. UNCHANGED queueVars => Queued
  BY <1>1 DEF queueVars, QueueTypeOK, QueueSound
<1>4. agents' = agents => Crowded
  BY <1>1 DEF GoalsKnown
<1>5. ASSUME UNCHANGED <<visits, iterCount, queueHead, stale>>, search' \in Search,
             nextHandle' \in 1..(HandleMod - 1), queue' \in [Slot -> PathQuery] /\ QueueSound'
      PROVE  Queued
  BY <1>1, <1>5 DEF QueueTypeOK, PathQuery, Search
<1>6. 1 \in 1..(MaxAgents + 1) /\ (next \in Agent => next + 1 \in 1..(MaxAgents + 1))
  BY Constants DEF Agent
<1> HIDE DEF Queued, Crowded
<1>7. CASE Update
  BY <1>1, <1>2, <1>3, <1>4, <1>6, <1>7 DEF Update
<1>8. ASSUME NEW from \in {"check", "fire", "results", "optimize"},
             NEW to \in {"fire", "submit", "optimize", "idle"}, Turn(from, to)
      PROVE  TypeInv'
  <2>1. UNCHANGED <<queueVars, agents, calls, changes>> /\ pc' = to /\ next' = 1
    BY <1>8 DEF Turn
  <2> QED
    BY <1>1, <1>2, <1>3, <1>4, <1>6, <2>1
<1>9. CASE CheckPathValidity
  BY <1>1, <1>2, <1>3, <1>4, <1>6, <1>9, CheckEffect, AgentType DEF Crowded
<1>10. CASE FireRequest
  <2>1. Queued
    BY <1>1, <1>5, <1>10, FireEffect, QueueKept DEF QueueTypeOK
  <2>2. Crowded
    BY <1>1, <1>4, <1>10, FireEffect, AgentType DEF Crowded
  <2> QED
    BY <1>1, <1>2, <1>6, <1>10, <2>1, <2>2, FireEffect
<1>11. CASE SubmitRequest
  <2>1. Queued
    BY <1>1, <1>5, <1>11, SubmitEffect, QueueKept, SubmitType DEF QueueTypeOK
  <2>2. Crowded
    BY <1>1, <1>4, <1>11, SubmitEffect, AgentType DEF Crowded
  <2> QED
    BY <1>1, <1>2, <1>6, <1>11, <2>1, <2>2, SubmitEffect
<1>12. CASE QueueCall
  <2>1. Queued
    BY <1>1, <1>12, QueueKept, Constants DEF QueueCall, UpdateCall, Queued, QueueTypeOK, PathQuery
  <2> QED
    BY <1>1, <1>2, <1>4, <1>12, <2>1 DEF QueueCall
<1>13. CASE QueueVisit
  <2>1. Queued
    BY <1>13, VisitType DEF QueueVisit, Queued
  <2> QED
    BY <1>1, <1>2, <1>4, <1>13, <2>1 DEF QueueVisit, crowdVars
<1>14. CASE QueueReturn
  BY <1>1, <1>2, <1>3, <1>4, <1>6, <1>14 DEF QueueReturn
<1>15. CASE TakeResult
  <2>1. Queued
    <3>1. queue' = queue \/ \E s \in Slot : queue' = Released(s)
      BY <1>15, ResultEffect
    <3>2. ASSUME NEW s \in Slot, queue' = Released(s)
          PROVE  queue' \in [Slot -> PathQuery] /\ QueueSound'
      <4> DEFINE new == [[queue[s] EXCEPT !.ref = 0] EXCEPT !.err = "nil"]
      <4>1. queue' = [queue EXCEPT ![s] = new]
        BY <1>1, <3>2 DEF Released
      <4>2. new \in PathQuery /\ new.ref = 0
        <5>1. PICK pq \in PathQuery : pq = queue[s]
          BY <1>1
        <5>2. [pq EXCEPT !.ref = 0] \in PathQuery /\ [pq EXCEPT !.ref = 0].ref = 0
          BY QueryUpdates
        <5>3. PICK freed \in PathQuery : freed = [pq EXCEPT !.ref = 0] /\ freed.ref = 0
          BY <5>2
        <5>4. [freed EXCEPT !.err = "nil"] \in PathQuery /\ [freed EXCEPT !.err = "nil"].ref = freed.ref
          BY QueryUpdates
        <5> QED
          BY <5>1, <5>3, <5>4
      <4> HIDE DEF new
      <4> QED
        BY <1>1, <4>1, <4>2 DEF QueueSound
    <3> QED
      BY <1>1, <1>5, <1>15, <3>1, <3>2, ResultEffect, QueueKept DEF QueueTypeOK
  <2>2. Crowded
    BY <1>1, <1>4, <1>15, ResultEffect, AgentType DEF Crowded
  <2> QED
    BY <1>1, <1>2, <1>6, <1>15, <2>1, <2>2, ResultEffect
<1>16. CASE Optimize
  <2>1. Queued
    BY <1>1, <1>5, <1>16, OptimizeEffect, QueueKept DEF QueueTypeOK
  <2>2. Crowded
    BY <1>1, <1>4, <1>16, OptimizeEffect, AgentType DEF Crowded
  <2> QED
    BY <1>1, <1>2, <1>6, <1>16, <2>1, <2>2, OptimizeEffect
<1> QED
  BY <1>7, <1>8, <1>9, <1>10, <1>11, <1>12, <1>13, <1>14, <1>15, <1>16 DEF UpdateStep

\* The mesh makes requests out of date, and nothing else.
LEMMA RefuseEffect ==
    ASSUME TypeInv, RefuseRequests
    PROVE  /\ TypeInv' /\ pc = "idle"
           /\ UNCHANGED <<queue, nextHandle, queueHead, search, visits, iterCount>>
           /\ UNCHANGED <<agents, pc, next>>
<1>1. /\ UNCHANGED <<queue, nextHandle, queueHead, search, visits, iterCount>>
      /\ UNCHANGED <<agents, pc, next, calls>> /\ pc = "idle"
      /\ stale' \in Outdates /\ changes < Changes /\ changes' = changes + 1
  BY DEF RefuseRequests, MeshChange
<1>2. changes' \in 0..Changes
  BY <1>1, Constants DEF TypeInv, TypeOK
<1>3. stale' \subseteq Requests
  BY <1>1, PathQueueAssumption
<1> QED
  BY <1>1, <1>2, <1>3 DEF TypeInv, TypeOK, QueueTypeOK, QueueSound, GoalsKnown

\* The variables have their types, slots in use hold a request, and agents that
\* look for something know what (Update, updateMoveRequest, PathQueue.Update).
THEOREM CrowdTypes == Spec => []TypeInv
<1>1. ASSUME TypeInv, UNCHANGED vars PROVE TypeInv'
  BY <1>1 DEF vars, queueVars, crowdVars, TypeInv, TypeOK, QueueTypeOK, QueueSound, GoalsKnown
<1>2. TypeInv /\ [Next]_vars => TypeInv'
  BY <1>1, ClientStepType, UpdateStepType, RefuseEffect DEF Next
<1> QED
  BY InitType, <1>2, PTL DEF Spec

----------------------------------------------------------------------------
(* Nobody is forgotten *)

Waiting(a) == agents[a].target = "waitpath"

\* Where in an update an agent can be found waiting for its answer.
ItsTurn(a) ==
    \/ pc = "submit" /\ a < next
    \/ pc = "visit"
    \/ pc = "results" /\ a >= next

\* Agents wait only from the moment they asked to the moment they are answered,
\* and meanwhile nobody removes them.
TurnInv == \A a \in Agent : Waiting(a) => agents[a].active /\ agents[a].walking /\ ItsTurn(a)

\* Client calls come when no update runs, and make nobody wait.
LEMMA ClientTurn ==
    ASSUME TypeInv, TurnInv, ClientStep
    PROVE  /\ pc = "idle" /\ UNCHANGED <<queueVars, pc, next>>
           /\ \A a \in Agent : ~Waiting(a) /\ ~Waiting(a)'
<1>1. agents \in [Agent -> CrowdAgent]
  BY TypeNames DEF TypeInv
<1>2. ASSUME NEW a \in Agent, NEW new, new.target # "waitpath" \/ new.target = agents[a].target,
             ClientCall(a, new)
      PROVE  /\ pc = "idle" /\ UNCHANGED <<queueVars, pc, next>>
             /\ \A b \in Agent : ~Waiting(b) /\ ~Waiting(b)'
  <2>1. /\ pc = "idle" /\ UNCHANGED <<queueVars, pc, next>>
        /\ agents' = [agents EXCEPT ![a] = new]
    BY <1>2 DEF ClientCall
  <2>2. \A b \in Agent : ~Waiting(b)
    BY <2>1 DEF TurnInv, ItsTurn
  <2>3. ASSUME NEW b \in Agent PROVE ~Waiting(b)'
    <3>1. CASE b = a
      BY <1>1, <1>2, <2>1, <2>2, <3>1 DEF Waiting
    <3>2. CASE b # a
      BY <1>1, <2>1, <2>2, <3>2 DEF Waiting
    <3> QED
      BY <3>1, <3>2
  <2> QED
    BY <2>1, <2>2, <2>3
<1> DEFINE Goal == /\ pc = "idle" /\ UNCHANGED <<queueVars, pc, next>>
                   /\ \A b \in Agent : ~Waiting(b) /\ ~Waiting(b)'
<1> HIDE DEF Goal
<1>3. ASSUME NEW placed \in BOOLEAN, AddAgent(placed) PROVE Goal
  <2>1. PICK a \in Agent : ClientCall(a, [agents[a] EXCEPT !.active = TRUE, !.walking = placed,
                                              !.target = "none", !.corridor = NoRequest])
    BY <1>3 DEF AddAgent
  <2>2. PICK new : new = [agents[a] EXCEPT !.active = TRUE, !.walking = placed,
                                           !.target = "none", !.corridor = NoRequest]
    OBVIOUS
  <2>3. new.target = "none"
    BY <1>1, <2>2 DEF CrowdAgent
  <2> QED
    BY <1>2, <2>1, <2>2, <2>3 DEF Goal
<1>4. ASSUME NEW a \in Agent, RemoveAgent(a) PROVE Goal
  <2>1. PICK new : new = [agents[a] EXCEPT !.active = FALSE]
    OBVIOUS
  <2>2. new.target = agents[a].target
    BY <1>1, <2>1 DEF CrowdAgent
  <2> QED
    BY <1>2, <1>4, <2>1, <2>2 DEF RemoveAgent, Goal
<1>5. ASSUME NEW a \in Agent, RequestMoveVelocity(a) \/ ResetMoveTarget(a) PROVE Goal
  <2>1. PICK tg \in {"velocity", "none"} :
           ClientCall(a, [agents[a] EXCEPT !.goal = NoGoal, !.pathq = 0, !.target = tg])
    BY <1>5 DEF RequestMoveVelocity, ResetMoveTarget
  <2>2. PICK new : new = [agents[a] EXCEPT !.goal = NoGoal, !.pathq = 0, !.target = tg]
    OBVIOUS
  <2>3. new.target = tg
    BY <1>1, <2>2 DEF CrowdAgent
  <2> QED
    BY <1>2, <2>1, <2>2, <2>3 DEF Goal
<1>6. ASSUME NEW a \in Agent, NEW goal \in Goals, RequestMoveTarget(a, goal) PROVE Goal
  <2>1. PICK new : new = Requesting(agents[a], goal)
    OBVIOUS
  <2>2. new.target \in {"requesting", "failed"}
    BY <1>1, <2>1, RequestingType
  <2> QED
    BY <1>2, <1>6, <2>1, <2>2 DEF RequestMoveTarget, Goal
<1> QED
  BY <1>3, <1>4, <1>5, <1>6 DEF ClientStep, Goal

\* An agent's new record, and everyone else's old one.
LEMMA OthersKept ==
    ASSUME TypeInv, NEW a \in Agent, NEW new \in CrowdAgent, agents' = [agents EXCEPT ![a] = new]
    PROVE  \A b \in Agent : agents'[b] = IF b = a THEN new ELSE agents[b]
  BY TypeNames DEF TypeInv

\* Every step of an update leaves waiting agents where an answer will find them.
LEMMA TurnStep == ASSUME TypeInv, TurnInv, [Next]_vars PROVE TurnInv'
<1>1. next \in 1..(MaxAgents + 1) /\ MaxAgents \in Nat
  BY Constants DEF TypeInv, TypeOK
<1>2. CASE ClientStep
  BY <1>2, ClientTurn DEF TurnInv
<1>3. CASE UNCHANGED vars
  BY <1>3 DEF vars, crowdVars, TurnInv, Waiting, ItsTurn
<1>14. CASE RefuseRequests
  BY <1>14, RefuseEffect DEF TurnInv, Waiting, ItsTurn
<1>4. CASE Update
  BY <1>1, <1>4 DEF Update, TurnInv, Waiting, ItsTurn, Agent
<1>5. ASSUME NEW from \in {"check", "fire", "results", "optimize"},
             NEW to \in {"fire", "submit", "optimize", "idle"}, Turn(from, to)
      PROVE  TurnInv'
  BY <1>1, <1>5 DEF Turn, TurnInv, Waiting, ItsTurn, Agent
<1>6. CASE CheckPathValidity
  <2>1. \A a \in Agent : ~Waiting(a)
    BY <1>6, CheckEffect DEF TurnInv, ItsTurn
  <2> QED
    BY <1>6, <2>1, CheckEffect, OthersKept DEF TurnInv, Waiting
<1>7. CASE FireRequest
  <2>1. \A a \in Agent : ~Waiting(a)
    BY <1>7, FireEffect DEF TurnInv, ItsTurn
  <2> QED
    BY <1>7, <2>1, FireEffect, OthersKept DEF TurnInv, Waiting
<1>8. CASE SubmitRequest
  <2>1. pc = "submit" /\ pc' = "submit" /\ next \in Agent /\ next' = next + 1
    BY <1>8, SubmitEffect
  <2> SUFFICES ASSUME NEW a \in Agent, Waiting(a)'
               PROVE  agents'[a].active /\ agents'[a].walking /\ a <= next
    BY <1>1, <2>1 DEF TurnInv, ItsTurn, Agent
  <2>2. CASE agents'[a] = agents[a]
    BY <1>1, <2>1, <2>2 DEF TurnInv, Waiting, ItsTurn, Agent
  <2>3. CASE agents'[a] # agents[a]
    BY <1>1, <1>8, <2>1, <2>3, SubmitEffect, OthersKept DEF Waiting, Agent
  <2> QED
    BY <2>2, <2>3
<1>9. CASE QueueCall
  BY <1>9 DEF QueueCall, TurnInv, Waiting, ItsTurn
<1>10. CASE QueueVisit
  BY <1>10 DEF QueueVisit, crowdVars, TurnInv, Waiting, ItsTurn
<1>11. CASE QueueReturn
  BY <1>11 DEF QueueReturn, TurnInv, Waiting, ItsTurn, Agent
<1>12. CASE TakeResult
  <2>1. pc = "results" /\ pc' = "results" /\ next \in Agent /\ next' = next + 1
    BY <1>12, ResultEffect
  <2>2. agents'[next].target # "waitpath"
    <3>1. CASE UNCHANGED <<agents, queue>> /\ ~(agents[next].active /\ agents[next].target = "waitpath")
      BY <2>1, <3>1 DEF TurnInv, Waiting
    <3> QED
      BY <1>12, <2>1, <3>1, ResultEffect, OthersKept
  <2> SUFFICES ASSUME NEW a \in Agent, Waiting(a)'
               PROVE  agents'[a].active /\ agents'[a].walking /\ a > next
    BY <1>1, <2>1 DEF TurnInv, ItsTurn, Agent
  <2>3. a # next /\ agents'[a] = agents[a]
    <3>1. a # next
      BY <2>2 DEF Waiting
    <3> QED
      BY <1>12, <2>1, <3>1, ResultEffect, OthersKept
  <2> QED
    BY <1>1, <2>1, <2>3 DEF TurnInv, Waiting, ItsTurn, Agent
<1>13. CASE Optimize
  <2>1. \A a \in Agent : ~Waiting(a)
    BY <1>13, OptimizeEffect DEF TurnInv, ItsTurn
  <2> QED
    BY <1>13, <2>1, OptimizeEffect, OthersKept DEF TurnInv, Waiting
<1> QED
  BY <1>2, <1>3, <1>4, <1>5, <1>6, <1>7, <1>8, <1>9, <1>10, <1>11, <1>12, <1>13, <1>14 DEF Next, UpdateStep

\* Nobody waits when the crowd is set up.
LEMMA TurnInit == Init => TurnInv
  BY DEF Init, TurnInv, Waiting

\* When Update has returned no agent is left waiting for an answer that nobody
\* will bring: the asking, the calls of the queue and the taking of results are
\* one call, in which no client can interfere (Crowd.Update).
THEOREM NobodyLeftBehind == Spec => []NobodyForgotten
<1>1. TypeInv /\ TurnInv => NobodyForgotten
  BY DEF TurnInv, ItsTurn, NobodyForgotten, Waiting
<1>2. TypeInv /\ TurnInv /\ [Next]_vars => TurnInv'
  BY TurnStep
<1> QED
  BY CrowdTypes, TurnInit, <1>1, <1>2, PTL DEF Spec

----------------------------------------------------------------------------
(* Agents wait for requests of their own *)

\* How many handles have been given out since h was.
Age(h) == IF nextHandle > h THEN nextHandle - h ELSE nextHandle - h + HandleMod - 1

\* How many slots the loop of PathQueue.Update visits before s, and whether it
\* still comes to s in this update.
Ahead(s) == IF s >= queueHead THEN s - queueHead ELSE s + Slots - queueHead
Unvisited(s) == pc = "submit" \/ (pc = "visit" /\ Ahead(s) < visits)
Untouched(s) == queue[s].err = "nil" /\ queue[s].path = NoRequest

\* Slot s holds what agent a waits for, and keeps it while the update lasts: a
\* slot is given up only two visits after its answer, and this update makes one.
Serves(s, a) ==
    /\ queue[s].ref = agents[a].pathq /\ agents[a].pathq # 0
    /\ queue[s].req = Own(a)
    /\ Unvisited(s) => Untouched(s)
PathIsOwn(s, a) == queue[s].path \in {NoRequest, Own(a)}

\* The handles of waiting agents were given out in this update, so they differ
\* as long as an update does not give out all of them.
HandlesNew ==
    /\ pc = "submit" => \A a \in Agent : Waiting(a) => Age(agents[a].pathq) <= next - a
    /\ \A a, b \in Agent : Waiting(a) /\ Waiting(b) /\ agents[a].pathq = agents[b].pathq => a = b

AskInv == HandlesNew /\ \A a \in Agent : Waiting(a) => \E s \in Slot : Serves(s, a)

\* The head of the queue moves on by one slot, around the array.
LEMMA HeadMoves ==
    ASSUME NEW n \in Nat \ {0}, NEW s \in 0..(n - 1)
    PROVE  (s + 1) % n = IF s + 1 = n THEN 0 ELSE s + 1
<1>1. CASE s + 1 = n
  BY <1>1
<1>2. CASE s + 1 < n
  BY <1>2
<1> QED
  BY <1>1, <1>2

\* A slot that still has its turn has it one visit earlier after every visit, and
\* the slot just visited has no other turn in this update.
LEMMA TurnsLeft ==
    ASSUME TypeInv, Visit, pc = "visit", pc' = "visit", NEW s \in Slot, Unvisited(s)'
    PROVE  Unvisited(s) /\ s # queueHead
<1>1. /\ queueHead \in 0..(Slots - 1) /\ Slots \in Nat \ {0} /\ s \in 0..(Slots - 1)
      /\ visits \in 1..Slots
  BY Constants DEF TypeInv, TypeOK, QueueTypeOK, Slot, Visit
<1>2. visits' = visits - 1 /\ queueHead' = (queueHead + 1) % Slots
  <2>1. \/ visits' = 0
        \/ visits' = visits - 1 /\ queueHead' = (queueHead + 1) % Slots
    BY DEF Visit
  <2>2. visits' # 0
    <3>1. Ahead(s)' \in Nat
      <4>1. queueHead' \in 0..(Slots - 1)
        BY VisitType DEF QueueTypeOK, Slot
      <4>2. Ahead(s)' = IF s >= queueHead' THEN s - queueHead' ELSE s + Slots - queueHead'
        BY DEF Ahead
      <4>3. PICK h \in 0..(Slots - 1) : h = queueHead'
        BY <4>1
      <4>4. s >= h => s - h \in Nat
        BY <1>1
      <4>5. s + Slots - h \in Nat
        BY <1>1
      <4> QED
        BY <4>2, <4>3, <4>4, <4>5
    <3>2. Ahead(s)' < visits'
      BY DEF Unvisited
    <3> QED
      BY <3>1, <3>2
  <2> QED
    BY <2>1, <2>2
<1>3. queueHead' = IF queueHead + 1 = Slots THEN 0 ELSE queueHead + 1
  BY <1>1, <1>2, HeadMoves
<1>4. IF s >= queueHead' THEN s - queueHead' < visits' ELSE s + Slots - queueHead' < visits'
  BY DEF Unvisited, Ahead
<1>5. CASE queueHead + 1 = Slots
  BY <1>1, <1>2, <1>3, <1>4, <1>5 DEF Unvisited, Ahead
<1>6. CASE queueHead + 1 # Slots
  BY <1>1, <1>2, <1>3, <1>4, <1>6 DEF Unvisited, Ahead
<1> QED
  BY <1>5, <1>6

\* A visit touches one slot, and a request that waits there untouched gets its
\* search, and no path but its own.
LEMMA VisitAnswers ==
    ASSUME TypeInv, Visit
    PROVE  /\ \A t \in Slot : t # queueHead => queue'[t] = queue[t]
           /\ queue[queueHead].ref # 0 /\ Untouched(queueHead) =>
                 /\ queue'[queueHead].ref = queue[queueHead].ref
                 /\ queue'[queueHead].req = queue[queueHead].req
                 /\ queue'[queueHead].path \in {NoRequest, queue[queueHead].req}
<1>1. /\ queue \in [Slot -> PathQuery] /\ search \in Search /\ queueHead \in Slot
      /\ iterCount \in 0..MaxIters
  BY TypeNames DEF TypeInv
<1>2. PICK s \in Slot : s = queueHead
  BY <1>1
<1>3. PICK pq \in PathQuery : pq = queue[s]
  BY <1>1
<1>4. \E new : queue' = [queue EXCEPT ![s] = new]
  <2>1. \/ \E e : queue' = [queue EXCEPT ![s].err = e]
        \/ \E e, path : queue' = [queue EXCEPT ![s].err = e, ![s].path = path]
        \/ queue' = queue
        \/ queue' = [queue EXCEPT ![s] = Kept(pq)]
    BY <1>2, <1>3 DEF Visit, Advance
  <2>2. queue' = queue => queue' = [queue EXCEPT ![s] = pq]
    BY <1>1, <1>3
  <2>3. ASSUME NEW e, queue' = [queue EXCEPT ![s].err = e] PROVE \E new : queue' = [queue EXCEPT ![s] = new]
    <3>1. queue' = [queue EXCEPT ![s] = [queue[s] EXCEPT !.err = e]]
      BY <2>3
    <3> QED
      BY <3>1
  <2>4. ASSUME NEW e, NEW path, queue' = [queue EXCEPT ![s].err = e, ![s].path = path]
        PROVE  \E new : queue' = [queue EXCEPT ![s] = new]
    <3>1. queue' = [queue EXCEPT ![s] = [[queue[s] EXCEPT !.err = e] EXCEPT !.path = path]]
      BY <1>1, <2>4
    <3> QED
      BY <3>1
  <2> QED
    BY <2>1, <2>2, <2>3, <2>4
<1>5. \A t \in Slot : t # s => queue'[t] = queue[t]
  BY <1>1, <1>4
<1>6. ASSUME pq.ref # 0, Untouched(s)
      PROVE  /\ queue'[s].ref = pq.ref /\ queue'[s].req = pq.req
             /\ queue'[s].path \in {NoRequest, pq.req}
  <2>1. pq.req \in Requests /\ ~Terminal(pq) /\ pq.err = "nil" /\ pq.path = NoRequest
    BY <1>3, <1>6 DEF TypeInv, QueueSound, Untouched, Terminal
  <2>2. Started(pq) \in Search /\ (pq.req \notin stale => Started(pq).req = pq.req)
    <3>1. Started(pq) = FindPathSliced(search, pq.req)
      BY <2>1 DEF Started
    <3> QED
      BY <1>1, <2>1, <3>1, SearchType DEF FindPathSliced
  <2>3. /\ ErrStarted(pq) \in {"busy", "failed"}
        /\ ErrStarted(pq) = "busy" => pq.req \notin stale
    BY <2>1 DEF ErrStarted, StartErr
  <2>4. ASSUME NEW e \in {"busy", "failed"}, queue' = [queue EXCEPT ![s].err = e]
        PROVE  /\ queue'[s].ref = pq.ref /\ queue'[s].req = pq.req
               /\ queue'[s].path = NoRequest
    <3>1. queue'[s] = [pq EXCEPT !.err = e]
      BY <1>1, <1>3, <2>4
    <3> QED
      BY <2>1, <3>1 DEF PathQuery
  <2>5. CASE ErrStarted(pq) = "busy" /\ ItersLeft <= 0
    <3>1. queue' = [queue EXCEPT ![s] = [queue[s] EXCEPT !.err = "busy"]]
      BY <1>2, <1>3, <1>6, <2>1, <2>5 DEF Visit
    <3> QED
      BY <2>4, <3>1
  <2>6. CASE ~(ErrStarted(pq) = "busy" /\ ItersLeft <= 0)
    <3>1. Advance(s)
      BY <1>2, <1>3, <1>6, <2>1, <2>6 DEF Visit
    <3>2. CASE ErrStarted(pq) # "busy"
      <4>1. queue' = [queue EXCEPT ![s].err = ErrStarted(pq)]
        BY <1>3, <3>1, <3>2 DEF Advance
      <4> QED
        BY <2>3, <2>4, <4>1
    <3>3. CASE ErrStarted(pq) = "busy"
      <4>1. ItersLeft \in Nat
        BY <1>1, <2>6, <3>3, Constants DEF ItersLeft
      <4>2. PICK slice \in Search : slice = UpdateSlicedPath(Started(pq), ItersLeft)
                                    /\ slice.req = pq.req
        BY <2>2, <2>3, <3>3, <4>1, SearchType
      <4>3. PICK e \in {"nil", "busy", "failed"} : e = SliceErr(Started(pq), ItersLeft)
        BY <2>2, <4>1, SearchType
      <4>4. PICK path : path = IF e = "nil" THEN slice.req ELSE pq.path
        OBVIOUS
      <4>5. queue' = [queue EXCEPT ![s].err = e, ![s].path = path]
        BY <1>1, <1>3, <3>1, <3>3, <4>2, <4>3, <4>4 DEF Advance
      <4>6. queue'[s] = [[pq EXCEPT !.err = e] EXCEPT !.path = path]
        BY <1>1, <1>3, <4>5
      <4> QED
        BY <2>1, <4>2, <4>4, <4>6 DEF PathQuery
    <3> QED
      BY <3>2, <3>3
  <2> QED
    BY <2>5, <2>6
<1> QED
  BY <1>2, <1>3, <1>5, <1>6

\* A handle is one handle older after every other one that is given out.
LEMMA AgeStep ==
    ASSUME nextHandle \in 1..(HandleMod - 1), nextHandle' = NextHandle,
           NEW h \in 1..(HandleMod - 1)
    PROVE  /\ h = nextHandle => Age(h) = HandleMod - 1 /\ Age(h)' = 1
           /\ h # nextHandle => Age(h)' = Age(h) + 1 /\ Age(h) \in 1..(HandleMod - 2)
<1>1. HandleMod \in Nat /\ HandleMod >= 3
  BY Constants
<1>2. PICK m \in 1..(HandleMod - 1) : m = nextHandle
  OBVIOUS
<1>3. PICK n : n = nextHandle' /\ n = IF m = HandleMod - 1 THEN 1 ELSE m + 1
  BY <1>2 DEF NextHandle
<1>4. /\ Age(h) = IF m > h THEN m - h ELSE m - h + HandleMod - 1
      /\ Age(h)' = IF n > h THEN n - h ELSE n - h + HandleMod - 1
  BY <1>2, <1>3 DEF Age
<1>5. CASE m = HandleMod - 1
  <2>1. n = 1
    BY <1>3, <1>5
  <2> QED
    BY <1>1, <1>2, <1>4, <1>5, <2>1
<1>6. CASE m # HandleMod - 1
  <2>1. n = m + 1
    BY <1>3, <1>6
  <2> QED
    BY <1>1, <1>2, <1>4, <1>6, <2>1
<1> QED
  BY <1>5, <1>6

\* Nobody else can wait under the handle that is given out next.
LEMMA HandleUnused ==
    ASSUME TypeInv, TurnInv, HandlesNew, MaxAgents < HandleMod, pc = "submit", next \in Agent,
           NEW a \in Agent, Waiting(a)
    PROVE  agents[a].pathq # nextHandle
<1>1. nextHandle \in 1..(HandleMod - 1)
  BY DEF TypeInv, TypeOK, QueueTypeOK
<1>2. Age(nextHandle) = HandleMod - 1
  BY <1>1, Constants DEF Age
<1>3. Age(agents[a].pathq) <= next - a /\ a < next
  BY DEF HandlesNew, TurnInv, ItsTurn
<1>4. next - a < HandleMod - 1
  BY Constants DEF Agent
<1> SUFFICES ASSUME agents[a].pathq = nextHandle PROVE FALSE
  OBVIOUS
<1>5. HandleMod - 1 <= next - a
  BY <1>2, <1>3
<1> QED
  BY <1>4, <1>5, Constants DEF Agent

\* The slot an agent waits for serves it until the agent takes its answer, and
\* the path in it is the agent's own.
LEMMA ServesKept ==
    ASSUME TypeInv, TurnInv, HandlesNew, [Next]_vars,
           NEW a \in Agent, Waiting(a), Waiting(a)', NEW s \in Slot, Serves(s, a)
    PROVE  Serves(s, a)' /\ (PathIsOwn(s, a) => PathIsOwn(s, a)')
<1>1. /\ agents \in [Agent -> CrowdAgent] /\ queue \in [Slot -> PathQuery]
      /\ ItsTurn(a) /\ queue[s].ref # 0
  BY TypeNames DEF TypeInv, TurnInv, Serves
<1>2. pc \in {"submit", "visit", "results"}
  BY <1>1 DEF ItsTurn
<1>3. ASSUME agents'[a] = agents[a], queue'[s] = queue[s], Unvisited(s)' => Unvisited(s)
      PROVE  Serves(s, a)' /\ (PathIsOwn(s, a) => PathIsOwn(s, a)')
  BY <1>3 DEF Serves, PathIsOwn, Own, Untouched
<1>4. CASE UNCHANGED vars
  BY <1>3, <1>4 DEF vars, queueVars, crowdVars, Unvisited, Ahead
<1>5. CASE SubmitRequest
  <2>1. pc = "submit" /\ next \in Agent
    BY <1>5, SubmitEffect
  <2>2. a # next
    BY <1>1, <2>1 DEF ItsTurn, Agent
  <2>3. agents'[a] = agents[a]
    BY <1>5, <2>2, SubmitEffect, OthersKept
  <2>4. queue'[s] = queue[s]
    <3>1. queue' = queue \/ \E t \in Slot : queue[t].ref = 0
                                        /\ queue' = [queue EXCEPT ![t] = NewQuery(Own(next))]
      BY <1>5, SubmitEffect
    <3> QED
      BY <1>1, <3>1
  <2> QED
    BY <1>3, <2>1, <2>3, <2>4 DEF Unvisited
<1>6. CASE QueueCall
  BY <1>3, <1>6 DEF QueueCall, UpdateCall, Unvisited
<1>7. CASE QueueVisit
  <2>1. agents' = agents /\ pc = "visit" /\ pc' = "visit" /\ Visit
    BY <1>7 DEF QueueVisit, crowdVars
  <2>2. CASE s # queueHead
    <3>1. queue'[s] = queue[s]
      BY <2>1, <2>2, VisitAnswers
    <3> QED
      BY <1>3, <2>1, <3>1, TurnsLeft
  <2>3. CASE s = queueHead
    <3>1. Unvisited(s)
      <4>1. Ahead(s) = 0 /\ visits > 0 /\ visits \in Nat
        <5>1. visits > 0
          BY <2>1 DEF Visit
        <5>2. visits \in Nat /\ queueHead \in Nat
          BY TypeNames, Constants DEF TypeInv, Slot
        <5> QED
          BY <2>3, <5>1, <5>2 DEF Ahead
      <4> QED
        BY <2>1, <4>1 DEF Unvisited
    <3>2. ~Unvisited(s)'
      BY <2>1, <2>3, TurnsLeft
    <3>3. Untouched(s)
      BY <3>1 DEF Serves
    <3>4. /\ queue'[s].ref = queue[s].ref /\ queue'[s].req = queue[s].req
          /\ queue'[s].path \in {NoRequest, queue[s].req}
      BY <1>1, <2>1, <2>3, <3>3, VisitAnswers
    <3>5. Own(a)' = Own(a)
      BY <2>1 DEF Own
    <3>6. queue'[s].ref = agents'[a].pathq /\ agents'[a].pathq # 0 /\ queue'[s].req = Own(a)'
      BY <2>1, <3>4, <3>5 DEF Serves
    <3>7. Serves(s, a)'
      BY <3>2, <3>6 DEF Serves
    <3>8. queue[s].req = Own(a)
      BY DEF Serves
    <3>9. PathIsOwn(s, a)'
      BY <3>4, <3>5, <3>8 DEF PathIsOwn
    <3> QED
      BY <3>7, <3>9
  <2> QED
    BY <2>2, <2>3
<1>8. CASE QueueReturn
  BY <1>3, <1>8 DEF QueueReturn, queueVars, Unvisited
<1>9. CASE TakeResult
  <2>1. pc = "results" /\ pc' = "results" /\ next \in Agent /\ next' = next + 1
    BY <1>9, ResultEffect
  <2>2. a # next
    <3>1. TurnInv'
      BY TurnStep
    <3>2. a >= next + 1
      BY <2>1, <3>1 DEF TurnInv, ItsTurn
    <3> QED
      BY <2>1, <3>2 DEF Agent
  <2>3. agents'[a] = agents[a]
    BY <1>9, <2>2, ResultEffect, OthersKept
  <2>4. queue'[s] = queue[s]
    <3>1. CASE queue' = queue
      BY <3>1
    <3>2. CASE /\ agents[next].target = "waitpath"
               /\ \E t \in Slot : queue[t].ref = agents[next].pathq /\ queue' = Released(t)
      <4>1. PICK t \in Slot : queue[t].ref = agents[next].pathq /\ queue' = Released(t)
        BY <3>2
      <4>2. agents[a].pathq # agents[next].pathq
        BY <2>1, <2>2, <3>2 DEF HandlesNew, Waiting
      <4>3. t # s
        BY <4>1, <4>2 DEF Serves
      <4> QED
        BY <1>1, <4>1, <4>3 DEF Released
    <3> QED
      BY <1>9, <3>1, <3>2, ResultEffect
  <2> QED
    BY <1>3, <2>1, <2>3, <2>4 DEF Unvisited
<1>10. \/ UNCHANGED vars \/ SubmitRequest \/ QueueCall \/ QueueVisit \/ QueueReturn \/ TakeResult
  <2>1. ~ClientStep /\ ~RefuseRequests
    BY <1>2, ClientTurn, RefuseEffect
  <2>2. ~Update /\ ~CheckPathValidity /\ ~FireRequest /\ ~Optimize
    BY <1>2, CheckEffect, FireEffect, OptimizeEffect DEF Update
  <2>3. ~Turn("check", "fire") /\ ~Turn("fire", "submit") /\ ~Turn("optimize", "idle")
    BY <1>2 DEF Turn
  <2>4. ~Turn("results", "optimize")
    <3>1. ASSUME Turn("results", "optimize") PROVE FALSE
      BY <1>1, <3>1, Constants DEF Turn, ItsTurn, Agent, TypeInv, TypeOK
    <3> QED
      BY <3>1
  <2> QED
    BY <2>1, <2>2, <2>3, <2>4 DEF Next, UpdateStep
<1> QED
  BY <1>4, <1>5, <1>6, <1>7, <1>8, <1>9, <1>10

\* An agent that begins to wait has just been given a slot with its request.
LEMMA NewWaiter ==
    ASSUME TypeInv, TurnInv, [Next]_vars, NEW a \in Agent, ~Waiting(a), Waiting(a)'
    PROVE  /\ SubmitRequest /\ a = next
           /\ nextHandle' = NextHandle /\ agents'[a].pathq = nextHandle
           /\ \E s \in Slot : Serves(s, a)' /\ PathIsOwn(s, a)'
<1>1. /\ queue \in [Slot -> PathQuery] /\ nextHandle \in 1..(HandleMod - 1)
      /\ agents \in [Agent -> CrowdAgent]
  BY TypeNames DEF TypeInv
<1>2. agents'[a].target = "waitpath" /\ agents[a].target # "waitpath"
  BY DEF Waiting
<1>3. TurnInv'
  BY TurnStep
<1>4. SubmitRequest
  <2>1. ~ClientStep
    BY ClientTurn
  <2>2. agents' # agents
    BY <1>2
  <2>3. /\ ~UNCHANGED vars /\ ~Update /\ ~QueueCall /\ ~QueueVisit /\ ~QueueReturn
        /\ \A from, to : ~Turn(from, to)
    BY <2>2 DEF vars, crowdVars, Update, QueueCall, QueueVisit, QueueReturn, Turn
  <2>4. ~CheckPathValidity
    BY <1>3, CheckEffect DEF TurnInv, ItsTurn
  <2>5. ~FireRequest
    BY <1>3, FireEffect DEF TurnInv, ItsTurn
  <2>6. ~Optimize
    BY <1>3, OptimizeEffect DEF TurnInv, ItsTurn
  <2>7. ~TakeResult
    BY <1>2, <2>2, ResultEffect, OthersKept
  <2>8. ~RefuseRequests
    BY <2>2, RefuseEffect
  <2> QED
    BY <2>1, <2>3, <2>4, <2>5, <2>6, <2>7, <2>8 DEF Next, UpdateStep
<1>5. pc = "submit" /\ pc' = "submit" /\ next \in Agent
  BY <1>4, SubmitEffect
<1>6. /\ nextHandle' = NextHandle
      /\ \E s \in Slot : queue[s].ref = 0 /\ queue' = [queue EXCEPT ![s] = NewQuery(Own(next))]
      /\ \E new \in CrowdAgent : /\ agents' = [agents EXCEPT ![next] = new]
                                 /\ new.goal = agents[next].goal /\ new.pathq = nextHandle
      /\ a = next
  BY <1>2, <1>4, SubmitEffect, OthersKept
<1>7. agents'[a].pathq = nextHandle /\ agents'[a].goal = agents[a].goal
  BY <1>5, <1>6, OthersKept
<1>8. PICK s \in Slot : queue' = [queue EXCEPT ![s] = NewQuery(Own(next))]
  BY <1>6
<1>9. queue'[s] = NewQuery(Own(a))
  BY <1>1, <1>6, <1>8
<1>10. Own(a)' = Own(a)
  BY <1>7 DEF Own
<1>11. /\ queue'[s].ref = nextHandle /\ queue'[s].req = Own(a)
       /\ queue'[s].err = "nil" /\ queue'[s].path = NoRequest
  BY <1>9 DEF NewQuery
<1>12. nextHandle # 0
  BY <1>1, Constants
<1>13. Serves(s, a)' /\ PathIsOwn(s, a)'
  BY <1>7, <1>10, <1>11, <1>12 DEF Serves, PathIsOwn, Untouched
<1> QED
  BY <1>4, <1>6, <1>7, <1>13

\* An agent that goes on waiting keeps its handle.
LEMMA OldWaiter ==
    ASSUME TypeInv, TurnInv, [Next]_vars, NEW a \in Agent, Waiting(a), Waiting(a)'
    PROVE  agents'[a] = agents[a]
<1>1. ItsTurn(a)
  BY DEF TurnInv
<1>2. pc \in {"submit", "visit", "results"}
  BY <1>1 DEF ItsTurn
<1>3. ~ClientStep
  BY ClientTurn
<1>4. ~CheckPathValidity /\ ~FireRequest /\ ~Optimize
  BY <1>2, CheckEffect, FireEffect, OptimizeEffect
<1>5. CASE SubmitRequest
  <2>1. a # next
    BY <1>1, <1>5, SubmitEffect DEF ItsTurn, Agent
  <2> QED
    BY <1>5, <2>1, SubmitEffect, OthersKept
<1>6. CASE TakeResult
  <2>1. TurnInv' /\ pc' = "results" /\ next' = next + 1 /\ next \in Agent
    BY <1>6, TurnStep, ResultEffect
  <2>2. a # next
    BY <2>1 DEF TurnInv, ItsTurn, Agent
  <2> QED
    BY <1>6, <2>2, ResultEffect, OthersKept
<1>7. ASSUME agents' = agents PROVE agents'[a] = agents[a]
  BY <1>7
<1>8. CASE UNCHANGED vars \/ Update \/ QueueCall \/ QueueVisit \/ QueueReturn
  BY <1>8 DEF vars, crowdVars, Update, QueueCall, QueueVisit, QueueReturn
<1>9. ASSUME NEW from, NEW to, Turn(from, to) PROVE agents'[a] = agents[a]
  BY <1>9 DEF Turn
<1>10. ~RefuseRequests
  BY <1>2, RefuseEffect
<1> QED
  BY <1>3, <1>4, <1>5, <1>6, <1>8, <1>9, <1>10 DEF Next, UpdateStep

\* Every step keeps the handles of waiting agents new and different.
LEMMA HandlesStep ==
    ASSUME TypeInv, TurnInv, AskInv, MaxAgents < HandleMod, [Next]_vars
    PROVE  HandlesNew'
<1>1. /\ agents \in [Agent -> CrowdAgent] /\ nextHandle \in 1..(HandleMod - 1)
      /\ next \in 1..(MaxAgents + 1) /\ HandlesNew
  BY TypeNames DEF TypeInv, AskInv
<1>2. TurnInv'
  BY TurnStep
<1>3. ASSUME NEW a \in Agent, Waiting(a), SubmitRequest
      PROVE  agents[a].pathq # nextHandle
  BY <1>1, <1>3, HandleUnused, SubmitEffect
<1>4. ASSUME NEW a \in Agent, NEW b \in Agent, Waiting(a)', Waiting(b)',
             agents'[a].pathq = agents'[b].pathq
      PROVE  a = b
  <2>1. CASE Waiting(a) /\ Waiting(b)
    BY <1>1, <1>4, <2>1, OldWaiter DEF HandlesNew
  <2>2. CASE Waiting(a) /\ ~Waiting(b)
    <3>1. SubmitRequest /\ agents'[b].pathq = nextHandle
      BY <1>4, <2>2, NewWaiter
    <3> QED
      BY <1>3, <1>4, <2>2, <3>1, OldWaiter
  <2>3. CASE ~Waiting(a) /\ Waiting(b)
    <3>1. SubmitRequest /\ agents'[a].pathq = nextHandle
      BY <1>4, <2>3, NewWaiter
    <3> QED
      BY <1>3, <1>4, <2>3, <3>1, OldWaiter
  <2>4. CASE ~Waiting(a) /\ ~Waiting(b)
    BY <1>4, <2>4, NewWaiter
  <2> QED
    BY <2>1, <2>2, <2>3, <2>4
<1>5. ASSUME NEW a \in Agent, Waiting(a)', pc' = "submit"
      PROVE  (Age(agents[a].pathq) <= next - a)'
  <2>1. CASE ~Waiting(a)
    <3>1. SubmitRequest /\ a = next /\ nextHandle' = NextHandle /\ agents'[a].pathq = nextHandle
      BY <1>5, <2>1, NewWaiter
    <3>2. next' = next + 1 /\ next \in Agent
      BY <3>1, SubmitEffect
    <3>3. PICK h \in 1..(HandleMod - 1) : h = nextHandle
      BY <1>1
    <3>4. Age(h)' = 1
      BY <1>1, <3>1, <3>3, AgeStep
    <3>5. Age(agents[a].pathq)' = Age(h)'
      BY <3>1, <3>3
    <3>6. next' - a = 1
      BY <3>1, <3>2 DEF Agent
    <3> QED
      BY <3>4, <3>5, <3>6
  <2>2. CASE Waiting(a)
    <3>1. agents'[a] = agents[a]
      BY <1>5, <2>2, OldWaiter
    <3>2. ItsTurn(a)
      BY <2>2 DEF TurnInv
    <3>3. PICK h \in 0..(HandleMod - 1) : h = agents[a].pathq
      BY <1>1 DEF CrowdAgent
    <3>4. h # 0
      BY <2>2, <3>3 DEF AskInv, Serves
    <3>5. Age(agents[a].pathq)' = Age(h)'
      BY <3>1, <3>3
    <3>6. CASE UNCHANGED <<pc, next, nextHandle>>
      <4>1. Age(h)' = Age(h) /\ Age(h) <= next - a
        BY <1>1, <1>5, <2>2, <3>3, <3>6 DEF HandlesNew, Age
      <4> QED
        BY <3>5, <3>6, <4>1
    <3>7. CASE SubmitRequest
      <4>1. next' = next + 1 /\ pc = "submit"
        BY <3>7, SubmitEffect
      <4>2. Age(h) <= next - a
        BY <1>1, <2>2, <3>3, <4>1 DEF HandlesNew
      <4>3. CASE nextHandle' = nextHandle
        <5>1. Age(h)' = Age(h)
          BY <4>3 DEF Age
        <5>2. Age(h) \in Int /\ a \in Int /\ next \in Int
          BY <1>1, Constants DEF Age, Agent
        <5> QED
          BY <3>5, <4>1, <4>2, <5>1, <5>2
      <4>4. CASE nextHandle' = NextHandle
        <5>1. h # nextHandle
          BY <1>3, <2>2, <3>3, <3>7
        <5>2. Age(h)' = Age(h) + 1 /\ Age(h) \in 1..(HandleMod - 2)
          BY <1>1, <3>4, <4>4, <5>1, AgeStep
        <5>3. a \in Int /\ next \in Int
          BY <1>1, Constants DEF Agent
        <5> QED
          BY <3>5, <4>1, <4>2, <5>2, <5>3, Constants
      <4> QED
        BY <3>7, <4>3, <4>4, SubmitEffect
    <3>8. UNCHANGED <<pc, next, nextHandle>> \/ SubmitRequest
      <4>1. pc \in {"submit", "visit", "results"}
        BY <3>2 DEF ItsTurn
      <4>2. CASE UNCHANGED vars \/ ClientStep
        BY <4>2, ClientTurn DEF vars, queueVars, crowdVars
      <4>3. CASE Update \/ UpdateStep
        BY <1>5, <4>1, <4>3, CheckEffect, FireEffect, ResultEffect, OptimizeEffect
           DEF Update, UpdateStep, Turn, QueueCall, QueueVisit, QueueReturn, crowdVars
      <4>4. ~RefuseRequests
        BY <4>1, RefuseEffect
      <4> QED
        BY <4>2, <4>3, <4>4 DEF Next
    <3> QED
      BY <3>6, <3>7, <3>8
  <2> QED
    BY <2>1, <2>2
<1> QED
  BY <1>4, <1>5 DEF HandlesNew

\* Every step leaves every waiting agent with a slot that serves it.
LEMMA AskStep ==
    ASSUME TypeInv, TurnInv, AskInv, MaxAgents < HandleMod, [Next]_vars
    PROVE  AskInv'
<1>1. ASSUME NEW a \in Agent, Waiting(a)' PROVE \E s \in Slot : Serves(s, a)'
  <2>1. CASE Waiting(a)
    BY <1>1, <2>1, ServesKept DEF AskInv
  <2>2. CASE ~Waiting(a)
    BY <1>1, <2>2, NewWaiter
  <2> QED
    BY <2>1, <2>2
<1> QED
  BY <1>1, HandlesStep DEF AskInv

\* An agent that waits for a path waits for a request of its own that is in the
\* queue, and no slot given up by others or freed by age takes its place, if an
\* update cannot give out all handles: the code has 2^32 (updateMoveRequest).
THEOREM OwnRequestQueued ==
    ASSUME MaxAgents < HandleMod
    PROVE  Spec => []WaitsForOwnRequest
<1>1. Init => AskInv
  BY DEF Init, AskInv, HandlesNew, Waiting
<1>2. TypeInv /\ TurnInv /\ [Next]_vars => TurnInv'
  BY TurnStep
<1>3. TypeInv /\ TurnInv /\ AskInv /\ [Next]_vars => AskInv'
  BY AskStep
<1>4. AskInv => WaitsForOwnRequest
  BY DEF AskInv, WaitsForOwnRequest, Waiting, Serves, Holding
<1> QED
  BY CrowdTypes, TurnInit, <1>1, <1>2, <1>3, <1>4, PTL DEF Spec

----------------------------------------------------------------------------
(* Agents follow paths of their own *)

\* No two slots hold the same handle.  A handle is given out again only after
\* all others, and until then its slot has to be held by one request.
HandlesDistinct ==
    \A s, t \in Slot : queue[s].ref = queue[t].ref /\ queue[s].ref # 0 => s = t

\* Walking agents with a valid target have their own path, and the answers that
\* agents wait for are their own paths as well.
FollowInv ==
    /\ FollowsOwnPath
    /\ \A a \in Agent : Waiting(a) => \E s \in Slot : Serves(s, a) /\ PathIsOwn(s, a)

\* A client call leaves an agent without a valid target, or removed.
LEMMA ClientEffect ==
    ASSUME TypeInv, ClientStep
    PROVE  \E a \in Agent, new \in CrowdAgent :
              /\ agents' = [agents EXCEPT ![a] = new]
              /\ new.target # "valid" \/ ~new.active
<1>1. agents \in [Agent -> CrowdAgent] /\ 0 \in 0..(HandleMod - 1)
  BY TypeNames, Constants DEF TypeInv
<1> DEFINE Goal == \E a \in Agent, new \in CrowdAgent :
                      /\ agents' = [agents EXCEPT ![a] = new]
                      /\ new.target # "valid" \/ ~new.active
<1>2. ASSUME NEW a \in Agent, NEW new \in CrowdAgent, new.target # "valid" \/ ~new.active,
             ClientCall(a, new)
      PROVE  Goal
  BY <1>2 DEF ClientCall
<1> HIDE DEF Goal
<1>3. ASSUME NEW placed \in BOOLEAN, AddAgent(placed) PROVE Goal
  <2>1. PICK a \in Agent : ClientCall(a, [agents[a] EXCEPT !.active = TRUE, !.walking = placed,
                                              !.target = "none", !.corridor = NoRequest])
    BY <1>3 DEF AddAgent
  <2>2. PICK new : new = [agents[a] EXCEPT !.active = TRUE, !.walking = placed,
                                           !.target = "none", !.corridor = NoRequest]
    OBVIOUS
  <2>3. new \in CrowdAgent /\ new.target = "none"
    BY <1>1, <2>2 DEF CrowdAgent, Targets
  <2> QED
    BY <1>2, <2>1, <2>2, <2>3
<1>4. ASSUME NEW a \in Agent, RemoveAgent(a) PROVE Goal
  <2>1. PICK new : new = [agents[a] EXCEPT !.active = FALSE]
    OBVIOUS
  <2>2. new \in CrowdAgent /\ ~new.active
    BY <1>1, <2>1 DEF CrowdAgent
  <2> QED
    BY <1>2, <1>4, <2>1, <2>2 DEF RemoveAgent
<1>5. ASSUME NEW a \in Agent, RequestMoveVelocity(a) \/ ResetMoveTarget(a) PROVE Goal
  <2>1. PICK tg \in {"velocity", "none"} :
           ClientCall(a, [agents[a] EXCEPT !.goal = NoGoal, !.pathq = 0, !.target = tg])
    BY <1>5 DEF RequestMoveVelocity, ResetMoveTarget
  <2>2. PICK new : new = [agents[a] EXCEPT !.goal = NoGoal, !.pathq = 0, !.target = tg]
    OBVIOUS
  <2>3. new \in CrowdAgent /\ new.target = tg
    BY <1>1, <2>2 DEF CrowdAgent, Targets
  <2> QED
    BY <1>2, <2>1, <2>2, <2>3
<1>6. ASSUME NEW a \in Agent, NEW goal \in Goals, RequestMoveTarget(a, goal) PROVE Goal
  <2>1. PICK new : new = Requesting(agents[a], goal)
    OBVIOUS
  <2>2. new \in CrowdAgent /\ new.target \in {"requesting", "failed"}
    BY <1>1, <2>1, RequestingType
  <2> QED
    BY <1>2, <1>6, <2>1, <2>2 DEF RequestMoveTarget
<1> QED
  BY <1>3, <1>4, <1>5, <1>6 DEF ClientStep, Goal

\* Every step that gives an agent a valid target gives it its own path.
LEMMA FollowStep ==
    ASSUME TypeInv, TurnInv, AskInv, HandlesDistinct, FollowInv, [Next]_vars
    PROVE  FollowInv'
<1>1. agents \in [Agent -> CrowdAgent] /\ HandlesNew
  BY TypeNames DEF TypeInv, AskInv
<1>2. ASSUME NEW a \in Agent, Waiting(a)' PROVE \E s \in Slot : Serves(s, a)' /\ PathIsOwn(s, a)'
  <2>1. CASE Waiting(a)
    BY <1>1, <1>2, <2>1, ServesKept DEF FollowInv
  <2>2. CASE ~Waiting(a)
    BY <1>2, <2>2, NewWaiter
  <2> QED
    BY <2>1, <2>2
<1>3. ASSUME NEW a \in Agent, agents'[a].active, agents'[a].walking, agents'[a].target = "valid"
      PROVE  HasPath(agents'[a], Own(a)')
  <2>1. ASSUME agents'[a] = agents[a] PROVE HasPath(agents'[a], Own(a)')
    BY <1>3, <2>1 DEF FollowInv, FollowsOwnPath, HasPath, Own
  <2>2. CASE ClientStep
    BY <1>3, <2>1, <2>2, ClientEffect, OthersKept
  <2>3. CASE CheckPathValidity
    BY <1>3, <2>1, <2>3, CheckEffect, OthersKept
  <2>4. CASE FireRequest
    <3>1. CASE \E new \in CrowdAgent :
                    /\ agents' = [agents EXCEPT ![next] = new]
                    /\ new.goal = agents[next].goal
                    /\ new.target = "valid" => HasPath(new, Own(next))
      <4>1. CASE a = next
        BY <1>3, <3>1, <4>1, OthersKept DEF Own
      <4>2. CASE a # next
        BY <1>1, <2>1, <3>1, <4>2
      <4> QED
        BY <4>1, <4>2
    <3> QED
      BY <2>1, <2>4, <3>1, FireEffect
  <2>5. CASE SubmitRequest
    BY <1>3, <2>1, <2>5, SubmitEffect, OthersKept
  <2>6. CASE TakeResult
    <3>1. next \in Agent
      BY <2>6, ResultEffect
    <3>2. CASE a # next
      BY <2>1, <2>6, <3>2, ResultEffect, OthersKept
    <3>3. CASE a = next /\ UNCHANGED agents
      BY <2>1, <3>3
    <3>4. CASE a = next /\ ~UNCHANGED agents
      <4>1. /\ agents[a].target = "waitpath"
            /\ \E s \in Slot, new \in CrowdAgent :
                  /\ queue[s].ref = agents[a].pathq
                  /\ agents' = [agents EXCEPT ![a] = new] /\ new.goal = agents[a].goal
                  /\ new.target = "valid" => /\ queue[s].path # NoRequest
                                             /\ new.corridor = queue[s].path
        BY <1>3, <2>6, <3>4, ResultEffect, OthersKept
      <4>2. PICK s \in Slot : /\ queue[s].ref = agents[a].pathq
                              /\ queue[s].path # NoRequest
                              /\ agents'[a].corridor = queue[s].path
                              /\ agents'[a].goal = agents[a].goal
        BY <1>3, <4>1, OthersKept
      <4>3. PICK t \in Slot : Serves(t, a) /\ PathIsOwn(t, a)
        BY <4>1 DEF FollowInv, Waiting
      <4>4. s = t
        BY <4>2, <4>3 DEF Serves, HandlesDistinct
      <4>5. Own(a)' = Own(a)
        BY <4>2 DEF Own
      <4>6. queue[s].path = Own(a)
        BY <4>2, <4>3, <4>4 DEF PathIsOwn
      <4>7. Own(a).goal = agents'[a].goal
        BY <4>2 DEF Own
      <4> QED
        BY <4>2, <4>5, <4>6, <4>7 DEF HasPath
    <3> QED
      BY <3>2, <3>3, <3>4
  <2>7. CASE Optimize
    <3>1. next \in Agent
      BY <2>7, OptimizeEffect
    <3>2. CASE a # next \/ agents' = agents
      BY <2>1, <2>7, <3>2, OptimizeEffect, OthersKept
    <3>3. CASE a = next /\ agents' # agents
      <4>1. /\ agents'[a].goal = agents[a].goal /\ agents'[a].target = agents[a].target
            /\ agents'[a].corridor = agents[a].corridor
            /\ agents'[a].active = agents[a].active /\ agents'[a].walking = agents[a].walking
            /\ agents[a].lost => agents'[a].lost
        BY <1>3, <2>7, <3>3, OptimizeEffect, OthersKept
      <4>2. agents[a].active /\ agents[a].walking /\ agents[a].target = "valid"
        BY <1>3, <4>1
      <4>3. Own(a)' = Own(a)
        BY <4>1 DEF Own
      <4> QED
        BY <4>1, <4>2, <4>3 DEF FollowInv, FollowsOwnPath, HasPath
    <3> QED
      BY <3>2, <3>3
  <2>8. CASE UNCHANGED vars \/ RefuseRequests \/ Update \/ QueueCall \/ QueueVisit \/ QueueReturn
    <3>1. agents' = agents
      BY <2>8 DEF vars, crowdVars, RefuseRequests, Update, QueueCall, QueueVisit, QueueReturn
    <3> QED
      BY <2>1, <3>1
  <2>9. ASSUME NEW from, NEW to, Turn(from, to) PROVE HasPath(agents'[a], Own(a)')
    BY <2>1, <2>9 DEF Turn
  <2> QED
    BY <2>2, <2>3, <2>4, <2>5, <2>6, <2>7, <2>8, <2>9 DEF Next, UpdateStep
<1> QED
  BY <1>2, <1>3 DEF FollowInv, FollowsOwnPath, HasPath, Own

\* An agent with a valid target follows a path to that target, searched for from
\* where it is unless its own last search was refused; every search takes the one
\* query away from the others, and searches refused to some leave others' paths in
\* it.  No handle may come round while its slot is still held (updateMoveRequest,
\* PathQueue.Update).
THEOREM OwnPathFollowed ==
    ASSUME MaxAgents < HandleMod
    PROVE  Spec /\ []HandlesDistinct => []FollowsOwnPath
<1>1. Init => AskInv /\ FollowInv
  BY DEF Init, AskInv, HandlesNew, FollowInv, FollowsOwnPath, Waiting
<1>2. TypeInv /\ TurnInv /\ [Next]_vars => TurnInv'
  BY TurnStep
<1>3. TypeInv /\ TurnInv /\ AskInv /\ [Next]_vars => AskInv'
  BY AskStep
<1>4. TypeInv /\ TurnInv /\ AskInv /\ HandlesDistinct /\ FollowInv /\ [Next]_vars => FollowInv'
  BY FollowStep
<1>5. FollowInv => FollowsOwnPath
  BY DEF FollowInv
<1> QED
  BY CrowdTypes, TurnInit, <1>1, <1>2, <1>3, <1>4, <1>5, PTL DEF Spec
=============================================================================
