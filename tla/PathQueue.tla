----------------------------- MODULE PathQueue -----------------------------
(***************************************************************************)
(* The asynchronous path queue of package detour_crowd and the sliced       *)
(* search of the one NavMeshQuery it shares with the crowd.                 *)
(*                                                                          *)
(* A path is named by the request whose search found it; a search is its    *)
(* request, the iterations it still needs, and QueryData.Err.  Update is    *)
(* one call: `visits' counts the slots its loop still has to visit and is   *)
(* 0 outside of it, and every other operation waits for that.               *)
(***************************************************************************)
EXTENDS Integers, FiniteSets

CONSTANTS
    Slots,       \* pathQueueMaxQueue: the slots are 0..Slots-1
    MaxIters,    \* maxIters of Update
    Requests,    \* pairs of a start and an end, with their filter
    Work,        \* Work[q]: iterations the search for q takes
    End,         \* End[q]: how it ends, a member of Ends
    Outdates,    \* sets of requests that the mesh may make out of date (a bound)
    HandleMod,   \* 2^32: handles wrap here
    NoRequest    \* no search was started, or no path was found

\* "goal": the end is reached; "drained": the open list runs empty, the best
\* node leads to a partial path; "nodes": ErrOutOfNodes.
Ends == {"goal", "drained", "nodes"}
MaxKeepAlive == 2

ASSUME PathQueueAssumption ==
    /\ Slots \in Nat \ {0} /\ MaxIters \in Nat \ {0} /\ HandleMod \in Nat /\ HandleMod >= 3
    /\ Work \in [Requests -> Nat \ {0}]
    /\ End \in [Requests -> Ends]
    /\ Outdates \subseteq SUBSET Requests
    /\ NoRequest \notin Requests

VARIABLES
    queue,      \* queue[s]: the pathQuery of slot s; ref 0 is a free slot
    nextHandle, \* nextHandle
    queueHead,  \* queueHead % pathQueueMaxQueue
    search,     \* QueryData: request, iterations left, Err
    visits,     \* slots the running Update has still to visit
    iterCount,  \* iterCount of the running Update
    stale       \* requests whose start or end is not in the mesh now

queueVars == <<queue, nextHandle, queueHead, search, visits, iterCount, stale>>

Slot == 0..(Slots - 1)
FreeSlot == [ref |-> 0, req |-> NoRequest, err |-> "nil", path |-> NoRequest,
             keepAlive |-> 0]

QueueTypeOK ==
    /\ queue \in [Slot -> [ref : 0..(HandleMod - 1),
                           req : Requests \cup {NoRequest},
                           err : {"nil", "busy", "failed"},
                           path : Requests \cup {NoRequest},
                           keepAlive : 0..(MaxKeepAlive + 1)]]
    /\ nextHandle \in 1..(HandleMod - 1)
    /\ queueHead \in Slot
    /\ search \in [req : Requests \cup {NoRequest}, left : Nat,
                   err : {"nil", "busy", "failed"}]
    /\ visits \in 0..Slots
    /\ iterCount \in 0..MaxIters
    /\ stale \subseteq Requests

QueueInit ==
    /\ queue = [s \in Slot |-> FreeSlot]
    /\ nextHandle = 1 /\ queueHead = 0
    /\ search = [req |-> NoRequest, left |-> 0, err |-> "nil"]
    /\ visits = 0 /\ iterCount = 0
    /\ stale = {}

----------------------------------------------------------------------------
(* The sliced search of the shared query *)

\* FindPathSliced refuses a request whose start or end the mesh has given up,
\* and leaves the previous QueryData in place.
FindPathSlicedMut(sq, q) ==
    IF sq.err = "busy" \/ q \in stale THEN sq
    ELSE [req |-> q, left |-> Work[q], err |-> "busy"]
FindPathSliced(sq, q) ==
    IF q \in stale THEN sq ELSE [req |-> q, left |-> Work[q], err |-> "busy"]
StartErr(q) == IF q \in stale THEN "failed" ELSE "busy"

\* UpdateSlicedPath(n).  Only a search that reaches its end within the call
\* returns success; one that drains the open list says so the next time.
UpdateSlicedPath(sq, n) ==
    IF sq.err # "busy" THEN sq
    ELSE IF sq.left > n THEN [sq EXCEPT !.left = @ - n]
    ELSE [sq EXCEPT !.left = 0,
                    !.err = IF End[sq.req] = "nodes" THEN "failed" ELSE "nil"]
SliceErr(sq, n) ==
    IF sq.err # "busy" THEN sq.err
    ELSE IF sq.left <= n /\ End[sq.req] = "goal" THEN "nil" ELSE "busy"

----------------------------------------------------------------------------
(* The queue *)

\* The first free slot, in array order.
EmptySlotMut == {0}
EmptySlot == {s \in Slot : queue[s].ref = 0 /\ \A t \in Slot : t < s => queue[t].ref # 0}

\* The next handle; 0 means the queue is full.
NextHandle == IF nextHandle = HandleMod - 1 THEN 1 ELSE nextHandle + 1

\* Submit(q) is Request where a slot is free; otherwise Request returns 0.
Submit(q) ==
    \E s \in EmptySlot :
        /\ queue' = [queue EXCEPT ![s] =
              [ref |-> nextHandle, req |-> q, err |-> "nil", path |-> NoRequest,
               keepAlive |-> 0]]
        /\ nextHandle' = NextHandle

\* The slot that holds a request, and what GetRequestErr says of it.
Holding(ref) == {s \in Slot : queue[s].ref = ref}
GetRequestErr(ref) == IF Holding(ref) = {} THEN "failed"
                      ELSE LET s == CHOOSE t \in Holding(ref) : TRUE IN queue[s].err

Released(s) == [queue EXCEPT ![s].ref = 0, ![s].err = "nil"]

UpdateCall ==
    /\ visits = 0
    /\ visits' = Slots
    /\ iterCount' = 0
    /\ UNCHANGED <<queue, nextHandle, queueHead, search, stale>>

TerminalMut(pq) == pq.err = "failed"
Terminal(pq) == pq.err = "failed" \/ (pq.err = "nil" /\ pq.path # NoRequest)

Kept(pq) ==
    IF pq.keepAlive < MaxKeepAlive THEN [pq EXCEPT !.keepAlive = @ + 1]
    ELSE [pq EXCEPT !.keepAlive = @ + 1, !.ref = 0, !.err = "nil", !.path = NoRequest]

\* The search a visit works on, and the error it has by then.
Started(pq) == IF pq.err = "nil" THEN FindPathSliced(search, pq.req) ELSE search
ErrStarted(pq) == IF pq.err = "nil" THEN StartErr(pq.req) ELSE pq.err
ItersLeft == MaxIters - iterCount

\* A slot with a request that is not answered yet: start its search if it has
\* none, go on with THE search, and take the path when that has ended.
Advance(s) ==
    LET pq == queue[s]
        err == ErrStarted(pq)
        slice == UpdateSlicedPath(Started(pq), ItersLeft)
        sliceErr == SliceErr(Started(pq), ItersLeft) IN
    IF err # "busy"
    THEN /\ queue' = [queue EXCEPT ![s].err = err]
         /\ UNCHANGED <<search, iterCount>>
    ELSE /\ search' = slice
         /\ iterCount' = IF sliceErr = "busy" THEN iterCount + 1 ELSE iterCount
         /\ queue' = [queue EXCEPT ![s].err = sliceErr,
                                   ![s].path = IF sliceErr = "nil" THEN slice.req ELSE @]

\* One round of Update's loop.  The budget used up ends the call, and the next
\* one begins with this slot.
Visit ==
    /\ visits > 0
    /\ LET s == queueHead
           pq == queue[s]
           active == pq.ref # 0 /\ ~Terminal(pq)
           stop == active /\ ErrStarted(pq) = "busy" /\ ItersLeft <= 0 IN
       /\ IF stop
          THEN /\ queue' = [queue EXCEPT ![s].err = "busy"]
               /\ search' = Started(pq)
               /\ UNCHANGED iterCount
          ELSE IF active THEN Advance(s)
          ELSE /\ queue' = IF pq.ref = 0 THEN queue ELSE [queue EXCEPT ![s] = Kept(pq)]
               /\ UNCHANGED <<search, iterCount>>
       /\ queueHead' = IF stop THEN s ELSE (s + 1) % Slots
       /\ visits' = IF stop THEN 0 ELSE visits - 1
    /\ UNCHANGED <<nextHandle, stale>>

----------------------------------------------------------------------------
(* The queue on its own, with a client that asks for paths and polls *)

Request(q) ==
    /\ visits = 0
    /\ Submit(q)
    /\ UNCHANGED <<queueHead, search, visits, iterCount, stale>>

GetPathResult(s) ==
    /\ visits = 0
    /\ queue[s].ref # 0
    /\ queue' = Released(s)
    /\ UNCHANGED <<nextHandle, queueHead, search, visits, iterCount, stale>>

\* Tiles are removed, rebuilt or put back between two calls.
MeshChange ==
    /\ visits = 0
    /\ stale' \in Outdates
    /\ UNCHANGED <<queue, nextHandle, queueHead, search, visits, iterCount>>

QueueNext ==
    \/ \E q \in Requests : Request(q)
    \/ \E s \in Slot : GetPathResult(s)
    \/ UpdateCall
    \/ Visit
    \/ MeshChange

QueueSpec == QueueInit /\ [][QueueNext]_queueVars

\* "Path should contain start and end refs": the path of an answered request
\* was searched for that request (Update, GetPathResult).
PathAnswersRequest ==
    \A s \in Slot : queue[s].ref # 0 /\ Terminal(queue[s]) /\ queue[s].err = "nil" =>
        queue[s].path = queue[s].req
=============================================================================
