---------------------------- MODULE MCPathQueue ----------------------------
(* A queue on its own: a request that takes two calls and a quick one.      *)
EXTENDS PathQueue
CONSTANTS slow, quick
MCWork == [q \in Requests |-> IF q = slow THEN 4 ELSE 1]
MCOutdates == {{}, {slow}, {quick}}
MCEnd == [q \in Requests |-> "goal"]
=============================================================================
