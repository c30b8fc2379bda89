------------------------------ MODULE Lifecycle ------------------------------
(***************************************************************************)
(* A server process from start to exit (src/index.ts, db/index.ts):        *)
(* it connects to the database, serves requests and event streams, and on  *)
(* a signal stops accepting, lets what is under way finish, ends the       *)
(* connection pool and exits; after 25 seconds it exits in any case.       *)
(***************************************************************************)
EXTENDS Naturals

CONSTANTS Requests  \* connections, with the request each carries

VARIABLES
  stage,      \* of the process
  exitCode,
  timer,      \* the backstop of the shutdown
  pool,       \* of database connections
  requests

vars == <<stage, exitCode, timer, pool, requests>>

Stages == {"starting", "serving", "draining", "ending", "exited", "crashed"}
UnderWay == {"handling", "querying", "streaming"}

(* open: the connection is; cut: the process ended before the handler.     *)
Request == [step : UnderWay \cup {"new", "answered"}, open : BOOLEAN, cut : BOOLEAN]

TypeOK ==
  /\ stage \in Stages
  /\ exitCode \in 0 .. 1
  /\ timer \in {"off", "armed", "fired"}
  /\ pool \in {"none", "open", "ended"}
  /\ requests \in [Requests -> Request]

Init ==
  /\ stage = "starting"
  /\ exitCode = 0
  /\ timer = "off"
  /\ pool = "none"
  /\ requests = [r \in Requests |-> [step |-> "new", open |-> FALSE, cut |-> FALSE]]

(* The process ends, and with it every handler that still runs, whether    *)
(* its client is there or not.                                             *)
End(last, code) ==
  /\ stage' = last
  /\ exitCode' = code
  /\ requests' = [r \in Requests |-> [requests[r] EXCEPT !.cut = requests[r].step \in UnderWay]]

Exit(code) == End("exited", code)

(* The environment is valid and the database answers, or the process ends. *)
Start ==
  /\ stage = "starting"
  /\ stage' = "serving"
  /\ pool' = "open"
  /\ UNCHANGED <<exitCode, timer, requests>>

StartFails ==
  /\ stage = "starting"
  /\ Exit(1)
  /\ UNCHANGED <<timer, pool>>

Goes(r, step, open) ==
  /\ requests' = [requests EXCEPT ![r].step = step, ![r].open = open]
  /\ UNCHANGED <<stage, exitCode, timer, pool>>

Running == stage \in {"serving", "draining", "ending"}

(* A new connection, or a further request on one that was kept.            *)
Accept(r) ==
  /\ \/ stage = "serving" /\ requests[r].step = "new"
     \/ Running /\ requests[r].step = "answered" /\ requests[r].open
  /\ \E kind \in {"handling", "streaming"} : Goes(r, kind, TRUE)

(* The handler holds a client of the pool, for a query or a transaction; a *)
(* pool that is ending gives none, and the call fails.                     *)
Query(r) ==
  /\ stage \in {"serving", "draining"} /\ pool = "open"
  /\ requests[r].step = "handling"
  /\ Goes(r, "querying", requests[r].open)

Rows(r) == Running /\ requests[r].step = "querying" /\ Goes(r, "handling", requests[r].open)

(* The connection may be kept for the next request.                        *)
Reply(r) ==
  /\ Running /\ requests[r].step = "handling"
  /\ \E open \in {requests[r].open, FALSE} : Goes(r, "answered", open)

(* The client goes, or an idle connection is closed.  A stream ends with   *)
(* its client, any other handler goes on.                                  *)
Disconnect(r) ==
  /\ Running /\ requests[r].open
  /\ Goes(r, IF requests[r].step = "streaming" THEN "answered" ELSE requests[r].step, FALSE)

(* SIGTERM or SIGINT; one that comes during the shutdown is ignored.       *)
Shutdown ==
  /\ stage = "serving"
  /\ stage' = "draining"
  /\ timer' = "armed"
  /\ UNCHANGED <<exitCode, pool, requests>>

(* server.close calls back once every connection has ended, which is not   *)
(* every handler.                                                          *)
Drained ==
  /\ stage = "draining"
  /\ \A r \in Requests : ~requests[r].open
  /\ stage' = "ending"
  /\ UNCHANGED <<exitCode, timer, pool, requests>>

(* pool.end resolves when every client is back.                            *)
PoolEnds ==
  /\ stage = "ending"
  /\ \A r \in Requests : requests[r].step # "querying"
  /\ pool' = "ended"
  /\ timer' = "off"
  /\ Exit(0)

ShutdownFails ==
  /\ stage = "ending"
  /\ timer' = "off"
  /\ Exit(1)
  /\ UNCHANGED pool

(* Faulty: the timer is cleared when the last connection has ended. *)
ForceDrainExit ==
  /\ timer = "armed"
  /\ stage = "draining"
  /\ timer' = "fired"
  /\ Exit(1)
  /\ UNCHANGED pool

ForceExit ==
  /\ timer = "armed"
  /\ Running
  /\ timer' = "fired"
  /\ Exit(1)
  /\ UNCHANGED pool

(* A handler's promise is rejected and nobody handles it: Node ends the    *)
(* process.                                                                *)
Crash ==
  /\ Running
  /\ \E r \in Requests : requests[r].step \in UnderWay
  /\ End("crashed", 1)
  /\ UNCHANGED <<timer, pool>>

Next ==
  \/ Start \/ StartFails \/ Shutdown \/ Drained \/ PoolEnds \/ ShutdownFails \/ ForceExit \/ Crash
  \/ \E r \in Requests : Accept(r) \/ Query(r) \/ Rows(r) \/ Reply(r) \/ Disconnect(r)

Spec == Init /\ [][Next]_vars

(* The timer fires unless it is cleared.                                   *)
FairSpec == Spec /\ WF_vars(ForceExit)

-----------------------------------------------------------------------------
(* A client that waits for its answer is cut off only by the 25 second     *)
(* backstop or by a crash, never by a second signal or an early end; and   *)
(* whoever has left, no query or transaction of his is cut by a shutdown   *)
(* that reports success.                                                   *)
CutOnlyByTimeout ==
  \A r \in Requests : requests[r].cut =>
    /\ requests[r].open => timer = "fired" \/ stage = "crashed"
    /\ requests[r].step = "querying" => exitCode = 1

(* A process told to stop does stop, whatever streams are open and however *)
(* long the pool takes.                                                    *)
StopsAtLast == stage = "draining" ~> stage \in {"exited", "crashed"}
=============================================================================
